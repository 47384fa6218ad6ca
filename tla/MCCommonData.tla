---------------------------- MODULE MCCommonData ----------------------------
(* Two threads over one item that is in one place, in two that compete, or *)
(* in one and unacceptable in another; and an array of packages that has   *)
(* room for all of them, or is too short for the last.                     *)
EXTENDS CommonData

CONSTANTS t1, t2

In(place, v) == [p \in Places |-> [i \in Items |-> IF p = place THEN v ELSE "none"]]

Both(p1, v1, p2, v2) == [p \in Places |-> IF p = p2 THEN In(p2, v2)[p] ELSE In(p1, v1)[p]]

Contents == {In("linked", "good"), In("icudt", "good"), In("tz", "good"),
             Both("app", "good", "icudt", "good"), Both("files", "bad", "icudt", "good"),
             Both("linked", "bad", "icudt", "good"), Both("files", "good", "user", "bad")}

MCWorlds ==
  [access : {"files_first"}, content : Contents, onDisk : {{"icudt", "user"}}, slots : {3}]
    \cup [access : {"files_first"}, content : {In("icudt", "good")},
          onDisk : {{"icudt", "user"}}, slots : {2}]
    \cup [access : {"packages_first", "no_files"}, onDisk : {{}, {"icudt", "user"}},
          content : {Both("files", "good", "user", "bad"), In("icudt", "good")}, slots : {3}]
=============================================================================
