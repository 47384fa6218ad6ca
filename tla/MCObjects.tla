----------------------------- MODULE MCObjects ------------------------------
(* Objects that callers copy, share and change, one kind per scene:        *)
(* - "strings": three strings of two threads, which copy, assign           *)
(*   characters and destroy, and "alone", where one thread owns all of     *)
(*   them and calls doReplace as well, which keeps the old array alive     *)
(*   only against its own thread; StringReplace.cfg has it in "strings";   *)
(* - "calendar": stamps that reach their maximum soon;                     *)
(* - "names": time zone names of two locales, with frequent sweeps.        *)
(* Whatever does not take part in a scene stays as it was initialised.     *)
EXTENDS StringBuffer, TLC

CONSTANTS t1, t2, p, q, x, y, Scenes

MCOwner == "a" :> t1 @@ "b" :> t2 @@ "c" :> t1

OneThread == INSTANCE StringBuffer
               WITH Owner <- [s \in Strings |-> t1],
                    Ops <- {"copy", "set", "replace", "destroy"}

VARIABLES
  fStamp, fNextStamp, fIsTimeSet, fAreFieldsSet, fAreFieldsVirtuallySet, sets,
  gTimeZoneNamesCache, gAccessCount, fTZnamesCacheEntry, now,
  scene

Dates == INSTANCE Calendar WITH STAMP_MAX <- 9

Names == INSTANCE ZoneNames
           WITH Locales <- {"en", "de"}, Delegates <- 1..3, SWEEP_INTERVAL <- 3,
                CACHE_EXPIRATION <- 1, MaxTime <- 4

ASSUME NamesInstance == Names!NamesAssumption

dateVars == <<fStamp, fNextStamp, fIsTimeSet, fAreFieldsSet, fAreFieldsVirtuallySet, sets>>
nameVars == <<gTimeZoneNamesCache, gAccessCount, fTZnamesCacheEntry, now>>
others == <<dateVars, nameVars>>

Symmetry == Permutations({p, q}) \cup Permutations({x, y})

SceneInit == Init /\ Dates!Init /\ Names!Init /\ scene \in Scenes

SceneNext ==
  /\ \/ scene = "strings" /\ Next /\ UNCHANGED others
     \/ scene = "alone" /\ OneThread!Next /\ UNCHANGED others
     \/ scene = "calendar" /\ Dates!Next /\ UNCHANGED <<vars, nameVars>>
     \/ scene = "names" /\ Names!Next /\ UNCHANGED <<vars, dateVars>>
  /\ UNCHANGED scene

SceneSpec == SceneInit /\ [][SceneNext]_<<vars, others, scene>>
-----------------------------------------------------------------------------
(* calendar.cpp: the stamps of fields are in the order of the calls of     *)
(* set(), although recalculateStamp gives them anew.                       *)
StampsFollowSets == scene = "calendar" => Dates!StampsFollowSets

(* tznames.cpp: sweepCache leaves the names that a delegate uses.          *)
NamesInUseStay == scene = "names" => Names!TypeOK /\ Names!NamesInUseStay
=============================================================================
