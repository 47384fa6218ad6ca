----------------------------- MODULE CommonData -----------------------------
(***************************************************************************)
(* The data loader of udata.cpp: threads open data items while the list of *)
(* common packages (gCommonICUDataArray) and the cache of mapped package   *)
(* files (gCommonDataCache) fill up behind them.                           *)
(*                                                                         *)
(* An open (doOpenChoice) goes through single files and packages in the    *)
(* order of gDataFileAccess.  Packages are searched slot by slot without a *)
(* lock; an empty slot first gets the linked-in data and then, once per    *)
(* process, the package file (extendICUData).  Only the searches of the    *)
(* cache and the writes to either structure hold the global mutex, so each *)
(* of them is a step.                                                      *)
(***************************************************************************)
EXTENDS Naturals, Sequences, FiniteSets, Functions

CONSTANTS
  Threads, Items,
  Worlds,    \* what the program may start with: an access mode, the content of each
             \* place, the package files there are and the length of the array
  Opens,     \* bound: how many opens are made before a clean-up
  NoThread

\* Which places hold items, and how an item in a place fares with checkDataItem.
Places == {"tz", "files", "linked", "icudt", "app", "user"}
Verdicts == {"none", "good", "bad"}

ASSUME DataAssumption ==
  /\ Items # {} /\ Opens \in Nat
  /\ Worlds \subseteq [access : {"packages_first", "files_first", "no_files", "only_packages"},
                       content : [Places -> [Items -> Verdicts]],
                       onDisk : SUBSET {"icudt", "user"}, slots : Nat \ {0}]

VARIABLES
  world,     \* gDataFileAccess, what each place holds of each item,
             \* UPRV_LENGTHOF(gCommonICUDataArray); never changes
  array,     \* gCommonICUDataArray up to its first NULL
  cache,     \* gCommonDataCache: package name -> header
  tried,     \* gHaveTriedToLoadCommonData
  job,       \* the locals of each thread's doOpenChoice
  opens

vars == <<world, array, cache, tried, job, opens>>

\* A header is the memory of a package: who mapped it tells two mappings of one file apart.
Header(p, t) == [pkg |-> p, by |-> t]
Linked == Header("linked", NoThread)
Given(p) == Header(p, NoThread)
Absent == Header("absent", NoThread)
Headers == {Linked, Given("app"), Given("user"), Absent}
             \cup {Header(p, t) : p \in {"icudt", "user"}, t \in Threads}

Content(p, i) == world.content[p][i]
Slots == world.slots

Idle == [pc |-> "idle", item |-> CHOOSE i \in Items : TRUE, icu |-> TRUE, stages |-> <<>>,
         err |-> FALSE, idx |-> 0, checked |-> FALSE, data |-> Absent, result |-> "none", had |-> {}]

Init == /\ world \in Worlds
        /\ array = <<>>
        /\ cache = [p \in {"icudt", "user"} |-> Absent]
        /\ tried = FALSE
        /\ job = [t \in Threads |-> Idle]
        /\ opens = 0

At(t, l) == job[t].pc = l
Set(t, j) == job' = [job EXCEPT ![t] = j]
\* The call returns; only what it was asked for and what it returned is of interest afterwards.
Finish(t, r, h) == Set(t, [Idle EXCEPT !.item = job[t].item, !.icu = job[t].icu,
                                       !.had = job[t].had, !.result = r, !.data = h])

(***************************************************************************)
(* setCommonICUData: the first free slot, unless the same memory is there. *)
(***************************************************************************)
SetCommonICUDataFirst(h) ==
  array' = IF h \in Range(array) \/ Len(array) = Slots THEN array ELSE <<h>> \o array
SetCommonICUData(h) ==
  array' = IF h \in Range(array) \/ Len(array) = Slots THEN array ELSE Append(array, h)

(***************************************************************************)
(* The application's calls: udata_setCommonData, udata_setAppData by       *)
(* package name, and the clean-up, which no other call may overlap.        *)
(***************************************************************************)
SetCommonData ==
  /\ SetCommonICUData(Given("app"))
  /\ UNCHANGED <<world, cache, tried, job, opens>>

SetAppData ==
  /\ cache["user"] = Absent
  /\ cache' = [cache EXCEPT !["user"] = Given("user")]
  /\ UNCHANGED <<world, array, tried, job, opens>>

Cleanup ==
  /\ opens = Opens /\ \A t \in Threads : At(t, "idle")
  /\ array' = <<>> /\ cache' = [p \in DOMAIN cache |-> Absent] /\ tried' = FALSE
  /\ job' = [t \in Threads |-> Idle]
  /\ opens' = 0
  /\ UNCHANGED world

(***************************************************************************)
(* doOpenChoice.  stages is what is left to try; err stands for a failing  *)
(* subErrorCode, which is handed from each attempt to the next.            *)
(***************************************************************************)
Stages(icu) ==
  (IF icu THEN <<"tz">> ELSE <<>>) \o
  (CASE world.access = "packages_first" -> <<"common", "files">>
     [] world.access = "files_first" -> <<"files", "common">>
     [] OTHER -> <<"common">>)

OpenChoice(t, i, icu) ==
  /\ At(t, "idle") /\ opens < Opens
  /\ opens' = opens + 1
  /\ Set(t, [Idle EXCEPT !.pc = "stage", !.item = i, !.icu = icu, !.stages = Stages(icu),
                         !.had = Range(array)])
  /\ UNCHANGED <<world, array, cache, tried>>

LoadFromIndividualFiles(t) ==
  /\ At(t, "stage") /\ job[t].stages # <<>> /\ Head(job[t].stages) # "common"
  /\ LET place == Head(job[t].stages)
         verdict == Content(place, job[t].item)
     IN \/ verdict = "good" /\ Finish(t, "found", Absent)
        \/ verdict # "good" /\ Set(t, [job[t] EXCEPT !.stages = Tail(@),
                                                     !.err = @ \/ verdict = "bad"])
  /\ UNCHANGED <<world, array, cache, tried, opens>>

\* doLoadFromCommonData begins: ICU's own data is in slots, other packages in the cache.
LoadFromCommonData(t) ==
  /\ At(t, "stage") /\ job[t].stages # <<>> /\ Head(job[t].stages) = "common"
  /\ Set(t, [job[t] EXCEPT !.pc = IF job[t].icu THEN "slot" ELSE "find",
                           !.stages = Tail(@), !.idx = 1, !.checked = FALSE])
  /\ UNCHANGED <<world, array, cache, tried, opens>>

NotFound(t) ==
  /\ At(t, "stage") /\ job[t].stages = <<>>
  /\ Finish(t, "missing", Absent)
  /\ UNCHANGED <<world, array, cache, tried, opens>>

(***************************************************************************)
(* openCommonData with a slot number.                                      *)
(***************************************************************************)
OpenSlot(t) ==
  /\ At(t, "slot")
  /\ LET i == job[t].idx IN
     \/ /\ job[t].err \/ i > Slots
        /\ Set(t, [job[t] EXCEPT !.pc = "extend"])
     \/ /\ ~job[t].err /\ i <= Len(array)
        /\ Set(t, [job[t] EXCEPT !.pc = "lookup", !.data = array[i]])
     \/ /\ ~job[t].err /\ i <= Slots /\ i > Len(array)
        /\ Set(t, [job[t] EXCEPT !.pc = IF Linked \in Range(array) THEN "extend" ELSE "link"])
  /\ UNCHANGED <<world, array, cache, tried, opens>>

\* The slot is read again after the insertion, which has filled it or found it filled.
AddLinkedIn(t) ==
  /\ At(t, "link")
  /\ SetCommonICUData(Linked)
  /\ Set(t, [job[t] EXCEPT !.pc = "lookup", !.data = array'[job[t].idx]])
  /\ UNCHANGED <<world, cache, tried, opens>>

Lookup(t) ==
  /\ At(t, "lookup")
  /\ LET verdict == Content(job[t].data.pkg, job[t].item)
     IN \/ verdict = "good" /\ Finish(t, "found", job[t].data)
        \/ verdict # "good" /\ Set(t, [job[t] EXCEPT !.pc = IF job[t].icu THEN "slot" ELSE "stage",
                                                     !.idx = @ + 1, !.err = verdict = "bad"])
  /\ UNCHANGED <<world, array, cache, tried, opens>>

(***************************************************************************)
(* extendICUData, and openCommonData for a package file.                   *)
(***************************************************************************)
Extend(t) ==
  /\ At(t, "extend")
  /\ Set(t, [job[t] EXCEPT !.pc = IF job[t].checked THEN "stage" ELSE
                                  IF tried THEN "confirm" ELSE "find"])
  /\ UNCHANGED <<world, array, cache, tried, opens>>

Name(t) == IF job[t].icu THEN "icudt" ELSE "user"
\* openCommonData returns NULL to extendICUData, or to doLoadFromCommonData.
NoPackage(t, e) ==
  Set(t, [job[t] EXCEPT !.pc = IF job[t].icu THEN "tried" ELSE "stage", !.err = e])
Opened(t, h) == Set(t, [job[t] EXCEPT !.pc = IF job[t].icu THEN "share" ELSE "lookup", !.data = h])

FindCachedData(t) ==
  /\ At(t, "find")
  /\ LET h == cache[Name(t)] IN
     \/ job[t].err /\ NoPackage(t, TRUE)
     \/ ~job[t].err /\ h # Absent /\ Opened(t, h)
     \/ ~job[t].err /\ h = Absent /\ Set(t, [job[t] EXCEPT !.pc = "map"])
  /\ UNCHANGED <<world, array, cache, tried, opens>>

MapFile(t) ==
  /\ At(t, "map")
  /\ IF Name(t) \in world.onDisk THEN Set(t, [job[t] EXCEPT !.pc = "cache"]) ELSE NoPackage(t, TRUE)
  /\ UNCHANGED <<world, array, cache, tried, opens>>

\* udata_cacheDataItem: the first mapping stays, and the loser gets the winner's.
CacheDataItemOwn(t) ==
  /\ At(t, "cache")
  /\ cache' = [cache EXCEPT ![Name(t)] = IF @ = Absent THEN Header(Name(t), t) ELSE @]
  /\ Opened(t, Header(Name(t), t))
  /\ UNCHANGED <<world, array, tried, opens>>
CacheDataItem(t) ==
  /\ At(t, "cache")
  /\ cache' = [cache EXCEPT ![Name(t)] = IF @ = Absent THEN Header(Name(t), t) ELSE @]
  /\ Opened(t, cache'[Name(t)])
  /\ UNCHANGED <<world, array, tried, opens>>

ShareExtended(t) ==
  /\ At(t, "share")
  /\ SetCommonICUData(job[t].data)
  /\ Set(t, [job[t] EXCEPT !.pc = "tried"])
  /\ UNCHANGED <<world, cache, tried, opens>>

RememberTried(t) ==
  /\ At(t, "tried")
  /\ tried' = TRUE
  /\ Set(t, [job[t] EXCEPT !.pc = "confirm"])
  /\ UNCHANGED <<world, array, cache, opens>>

\* findCommonICUDataByName: look again if the package file is in the list, whoever put it there.
ConfirmForgets(t) ==
  /\ At(t, "confirm")
  /\ Set(t, [job[t] EXCEPT !.pc = IF cache["icudt"] \in Range(array) THEN "slot" ELSE "stage"])
  /\ UNCHANGED <<world, array, cache, tried, opens>>
ConfirmOwn(t) ==
  /\ At(t, "confirm")
  /\ LET found == job[t].data = cache["icudt"] /\ cache["icudt"] \in Range(array)
     IN Set(t, [job[t] EXCEPT !.pc = IF found THEN "slot" ELSE "stage", !.checked = found])
  /\ UNCHANGED <<world, array, cache, tried, opens>>
Confirm(t) ==
  /\ At(t, "confirm")
  /\ LET found == cache["icudt"] \in Range(array)
     IN Set(t, [job[t] EXCEPT !.pc = IF found THEN "slot" ELSE "stage", !.checked = found])
  /\ UNCHANGED <<world, array, cache, tried, opens>>

Step(t) ==
  \/ LoadFromIndividualFiles(t) \/ LoadFromCommonData(t) \/ NotFound(t)
  \/ OpenSlot(t) \/ AddLinkedIn(t) \/ Lookup(t) \/ Extend(t) \/ FindCachedData(t)
  \/ MapFile(t) \/ CacheDataItem(t) \/ ShareExtended(t) \/ RememberTried(t) \/ Confirm(t)

Next ==
  \/ SetCommonData \/ SetAppData \/ Cleanup
  \/ \E t \in Threads : \/ Step(t)
                        \/ \E i \in Items, icu \in BOOLEAN : OpenChoice(t, i, icu)

\* A thread inside udata_open keeps running; nobody has to make a call.
Spec == Init /\ [][Next]_vars /\ \A t \in Threads : WF_vars(Step(t))

-----------------------------------------------------------------------------
\* Types: the list of packages fits its slots and holds real headers.
TypeOK ==
  /\ array \in Seq(Headers \ {Absent}) /\ Len(array) <= Slots
  /\ cache \in [{"icudt", "user"} -> Headers]
  /\ tried \in BOOLEAN /\ opens \in 0..Opens
  /\ \A t \in Threads : job[t].idx \in 0..Slots + 1

\* The list of packages stays within its slots and never holds the same package twice, although
\* two threads may map the package file at the same time: extendICUData relies on
\* setCommonICUData to "detect if the same address is set twice", and udata_cacheDataItem
\* hands the loser the winner's address.
PackageListSound ==
  TypeOK /\ \A i, j \in DOMAIN array : array[i].pkg = array[j].pkg => i = j

\* What an open of ICU data could have been given: the places it consults, the packages that
\* were in the list when it began and, listed or while there is room, the linked-in data and
\* the package file.
Reachable(t) ==
  {h.pkg : h \in job[t].had}
    \cup {p \in {"linked"} \cup (world.onDisk \cap {"icudt"}) :
            Len(array) < Slots \/ \E h \in Range(array) : h.pkg = p}

Misses(t) == /\ At(t, "idle") /\ job[t].result = "missing" /\ job[t].icu
             /\ \E p \in Reachable(t) : Content(p, job[t].item) = "good"

\* Where every item is acceptable, udata_open reports an item missing only if no package it
\* could search has it: a package file that another thread is just mapping, listing or marking
\* as tried (gHaveTriedToLoadCommonData) is never overlooked.  After an item that
\* checkDataItem rejects this does not hold: subErrorCode then fails, and openCommonData
\* opens nothing more.
NoSpuriousMiss ==
  (\A p \in Places, i \in Items : Content(p, i) # "bad") => \A t \in Threads : ~Misses(t)

\* Packages are searched "in the order in which they were set": an item comes from the first
\* package of the list that has it.
FirstPackageWins ==
  \A t \in Threads, i \in DOMAIN array :
    (job[t].result = "found" /\ job[t].data = array[i])
      => \A j \in 1..i - 1 : Content(array[j].pkg, job[t].item) # "good"

\* An open always ends: the search of the slots goes back for the extended data only once.
OpenReturns == \A t \in Threads : ~At(t, "idle") ~> At(t, "idle")
=============================================================================
