-------------------------- MODULE CommonDataProofs --------------------------
(* The data loader, for any threads, items, worlds and opens: the list of  *)
(* packages holds none twice, an item comes from the first package that    *)
(* has it, and nothing that an open could have been given is overlooked,   *)
(* although the list and the cache change behind the search.               *)
EXTENDS CommonData, TLAPS

(* Most leaves are first-order: Zenon first, then Z3.                      *)
USE ZenonT(20), SMTT(20)

Packages == Headers \ {Absent}
Listed(h) == \E i \in 1..Len(array) : array[i] = h

Pcs == {"idle", "stage", "slot", "link", "lookup", "extend", "find", "map", "cache", "share",
        "tried", "confirm"}

(* Where an open of ICU data looks through the slots, and where it looks   *)
(* for the package file afterwards.                                        *)
Scanning == {"slot", "link", "lookup"}
Extending == {"extend", "find", "map", "cache", "share", "tried", "confirm"}

Job == [pc : Pcs, item : Items, icu : BOOLEAN, stages : Seq({"tz", "files", "common"}),
        err : BOOLEAN, idx : Nat, checked : BOOLEAN, data : Headers,
        result : {"none", "found", "missing"}, had : SUBSET Headers]

Typed ==
  /\ world \in Worlds
  /\ array \in Seq(Packages) /\ Len(array) <= Slots
  /\ cache \in [{"icudt", "user"} -> Headers]
  /\ tried \in BOOLEAN /\ opens \in 0..Opens
  /\ job \in [Threads -> Job]

(* The list and the cache: a package file is mapped once.                  *)
ListInv ==
  /\ \A i \in 1..Len(array) :
       /\ array[i].pkg # "user"
       /\ array[i].pkg = "icudt" => array[i] = cache["icudt"]
       /\ \A j \in 1..Len(array) : array[i] = array[j] => i = j
  /\ \A p \in {"icudt", "user"} : cache[p] # Absent => cache[p].pkg = p
  /\ cache["icudt"] # Absent => "icudt" \in world.onDisk

(* What an open that is looking for its item knows: where it is in the     *)
(* list, and that what it has passed has not got the item.                 *)
Passed(t, n) ==
  \A i \in 1..Len(array) : i < n => Content(array[i].pkg, job[t].item) # "good"

Good(t) ==
  LET j == job[t] IN
  /\ j.idx <= Slots + 1
  /\ j.pc \in {"link", "extend", "tried", "confirm", "share", "slot"} => j.icu
  /\ j.icu /\ j.pc \in Scanning \cup Extending =>
       1 <= j.idx /\ j.idx <= Len(array) + 1 /\ Passed(t, j.idx)
  /\ ~j.icu /\ j.pc \in {"find", "map", "cache", "lookup"} => j.idx = 1
  /\ j.pc = "link" => j.idx <= Slots /\ (Listed(Linked) => j.idx <= Len(array))
  /\ j.pc = "lookup" => IF j.icu THEN j.idx <= Len(array) /\ j.data = array[j.idx]
                        ELSE j.data # Absent /\ j.data.pkg = "user"
  /\ j.pc = "cache" => Name(t) \in world.onDisk
  /\ j.pc = "share" => j.data = cache["icudt"] /\ j.data # Absent
  /\ j.result # "none" => j.pc = "idle"

(* What an open has been given.                                            *)
Fits(t) ==
  LET j == job[t] IN
  j.result = "found" /\ j.data # Absent /\ j.data.pkg # "user" =>
    \E i \in 1..Len(array) : array[i] = j.data /\ Passed(t, i)

Inv == Typed /\ ListInv /\ \A t \in Threads : Good(t) /\ Fits(t)

(* Where every item is acceptable: the list cannot lead to p any more, or  *)
(* p has not got the item.                                                 *)
NoBad == \A p \in Places, i \in Items : Content(p, i) # "bad"
Full == Len(array) = Slots
Has(p) == \E i \in 1..Len(array) : array[i].pkg = p
Clear(t, p) == Content(p, job[t].item) # "good" \/ (Full /\ ~Has(p))
Extended == "icudt" \notin world.onDisk \/ Has("icudt") \/ Full
Scanned(t) == (\A h \in job[t].had : Content(h.pkg, job[t].item) # "good") /\ Clear(t, "linked")
Exhausted(t) == Scanned(t) /\ ("icudt" \in world.onDisk => Clear(t, "icudt"))

(* The packages are searched once.                                         *)
Awaits(s) ==
  \E i \in 1..Len(s) : s[i] = "common" /\ \A k \in 1..Len(s) : s[k] = "common" => k = i

Thorough(t) ==
  LET j == job[t] IN
  j.icu =>
    /\ j.pc \in {"slot", "link", "lookup", "extend", "find", "map", "cache", "share"} => ~j.err
    /\ j.pc # "idle" => \A h \in j.had : Listed(h)
    /\ j.pc \in Scanning \cup {"extend"} => (j.checked => Has("icudt"))
    /\ j.pc \in Extending => Scanned(t)
    /\ j.pc = "extend" /\ j.checked => Exhausted(t)
    /\ j.pc \in Extending \ {"extend"} => ~j.checked /\ (j.err => "icudt" \notin world.onDisk)
    /\ j.pc \in {"tried", "confirm"} => Extended
    /\ j.pc = "stage" /\ j.idx = 0 => ~j.err /\ Awaits(j.stages)
    /\ j.pc = "stage" /\ j.idx > 0 => Exhausted(t)
    /\ j.pc # "idle" /\ j.idx > 0 => \A i \in 1..Len(j.stages) : j.stages[i] # "common"
    /\ j.result = "missing" => Exhausted(t)

SearchInv == NoBad => (tried => Extended) /\ \A t \in Threads : Thorough(t)

-----------------------------------------------------------------------------
LEMMA HeaderFacts ==
  /\ Linked \in Packages /\ Given("app") \in Packages /\ Given("user") \in Packages
  /\ Linked.pkg = "linked" /\ Given("app").pkg = "app" /\ Given("user").pkg = "user"
  /\ Absent \in Headers /\ Absent.pkg = "absent"
  /\ \A h \in Packages :
       /\ h \in Headers /\ h # Absent /\ h.pkg \in {"linked", "app", "user", "icudt"}
       /\ h.pkg = "linked" => h = Linked
       /\ h.pkg = "app" => h = Given("app")
  /\ \A p \in {"icudt", "user"}, t \in Threads :
       Header(p, t) \in Packages /\ Header(p, t).pkg = p
<1> USE DEF Header, Linked, Given, Absent
<1>1. /\ Linked.pkg = "linked" /\ Given("app").pkg = "app" /\ Given("user").pkg = "user"
      /\ Absent.pkg = "absent" /\ \A p, t : Header(p, t).pkg = p
  OBVIOUS
<1>2. Linked # Absent /\ Given("app") # Absent /\ Given("user") # Absent
      /\ \A p \in {"icudt", "user"} : \A t : Header(p, t) # Absent
  BY <1>1
<1> HIDE DEF Header, Linked, Given, Absent
<1>3. /\ Linked \in Packages /\ Given("app") \in Packages /\ Given("user") \in Packages
      /\ Absent \in Headers
      /\ \A p \in {"icudt", "user"}, t \in Threads : Header(p, t) \in Packages
  BY <1>2 DEF Packages, Headers
<1>4. ASSUME NEW h \in Packages
      PROVE  /\ h \in Headers /\ h # Absent /\ h.pkg \in {"linked", "app", "user", "icudt"}
             /\ h.pkg = "linked" => h = Linked
             /\ h.pkg = "app" => h = Given("app")
  <2>1. \/ h \in {Linked, Given("app"), Given("user")}
        \/ \E p \in {"icudt", "user"}, t \in Threads : h = Header(p, t)
    BY DEF Packages, Headers
  <2> QED BY <1>1, <2>1, ZenonT(60) DEF Packages
<1> QED BY <1>1, <1>3, <1>4

LEMMA WorldFacts ==
  ASSUME world \in Worlds
  PROVE  /\ Slots \in Nat /\ Slots > 0 /\ world.onDisk \subseteq {"icudt", "user"}
         /\ \A p \in Places, i \in Items : Content(p, i) \in Verdicts
BY DataAssumption, SMTT(30) DEF Slots, Content

LEMMA Lists ==
  ASSUME Typed, NEW h
  PROVE  h \in Range(array) <=> Listed(h)
BY SMTT(30) DEF Range, Listed, Typed

(* The list only gets longer.                                              *)
Grows ==
  /\ world' = world
  /\ Len(array) <= Len(array') /\ Len(array') <= Slots
  /\ \A i \in 1..Len(array) : array'[i] = array[i]

LEMMA Appends ==
  ASSUME Typed, NEW h \in Packages, SetCommonICUData(h), UNCHANGED world
  PROVE  /\ Grows /\ array' \in Seq(Packages)
         /\ Listed(h) \/ Full => array' = array
         /\ ~Listed(h) /\ ~Full => Len(array') = Len(array) + 1 /\ array'[Len(array) + 1] = h
<1>1. array \in Seq(Packages) /\ Len(array) \in Nat /\ Len(array) <= Slots /\ Slots \in Nat
  BY WorldFacts, SMTT(30) DEF Typed
<1>2. h \in Range(array) <=> Listed(h)
  BY Lists
<1>3. array' = IF Listed(h) \/ Full THEN array ELSE Append(array, h)
  BY <1>2 DEF SetCommonICUData, Full
<1>4. CASE Listed(h) \/ Full
  BY <1>1, <1>3, <1>4 DEF Grows
<1>5. CASE ~Listed(h) /\ ~Full
  <2>1. array' = Append(array, h) /\ Len(array) < Slots
    BY <1>1, <1>3, <1>5 DEF Full
  <2>2. /\ array' \in Seq(Packages) /\ Len(array') = Len(array) + 1
        /\ array'[Len(array) + 1] = h /\ \A i \in 1..Len(array) : array'[i] = array[i]
    BY <1>1, <2>1
  <2> QED BY <1>1, <1>5, <2>1, <2>2 DEF Grows
<1> QED BY <1>4, <1>5

LEMMA SameGrows ==
  ASSUME Typed, UNCHANGED <<world, array>>
  PROVE  Grows
<1>1. Len(array) \in Nat /\ Len(array) <= Slots /\ Slots \in Nat
  BY WorldFacts, SMTT(30) DEF Typed
<1> QED BY <1>1 DEF Grows

(* What stays true of the list.                                            *)
LEMMA GrowthKeeps ==
  ASSUME Typed, Typed', Grows
  PROVE  /\ Slots' = Slots /\ Slots \in Nat /\ Len(array) \in Nat /\ Len(array') \in Nat
         /\ \A p, i : Content(p, i)' = Content(p, i)
         /\ \A h : Listed(h) => Listed(h)'
         /\ \A p : Has(p) => Has(p)'
         /\ Full => Full' /\ \A p : ~Has(p) => ~Has(p)'
         /\ Len(array') = Len(array) => \A h : Listed(h)' => Listed(h)
<1>1. /\ Slots' = Slots /\ Slots \in Nat /\ Len(array) \in Nat /\ Len(array') \in Nat
      /\ \A p, i : Content(p, i)' = Content(p, i)
      /\ Len(array) <= Len(array') /\ Len(array') <= Slots
      /\ \A i \in 1..Len(array) : array'[i] = array[i] /\ i \in 1..Len(array')
  BY WorldFacts, SMTT(30) DEF Grows, Typed, Slots, Content
<1>2. (\A h : Listed(h) => Listed(h)') /\ (\A p : Has(p) => Has(p)')
  BY <1>1 DEF Listed, Has
<1>3. Full => Full' /\ \A p : ~Has(p) => ~Has(p)'
  BY <1>1 DEF Full, Has
<1>4. Len(array') = Len(array) => \A h : Listed(h)' => Listed(h)
  BY <1>1 DEF Listed
<1> QED BY <1>1, <1>2, <1>3, <1>4

Settled == cache["icudt"] # Absent => cache'["icudt"] = cache["icudt"]

(* A job that the step does not touch.                                     *)
LEMMA OtherJob ==
  ASSUME Typed, Typed', Grows, Settled, NEW t \in Threads, job'[t] = job[t], Good(t), Fits(t)
  PROVE  Good(t)' /\ Fits(t)'
<1> DEFINE j == job[t]
<1>1. /\ Slots' = Slots /\ Slots \in Nat /\ Len(array) \in Nat /\ Len(array') \in Nat
      /\ \A p, i : Content(p, i)' = Content(p, i)
      /\ Len(array) <= Len(array')
      /\ \A i \in 1..Len(array) : array'[i] = array[i] /\ i \in 1..Len(array')
  BY GrowthKeeps DEF Grows
<1>2. j.idx \in Nat /\ world' = world
  BY DEF Typed, Job, Grows
<1>3. ASSUME NEW n \in Nat, n <= Len(array) + 1, Passed(t, n) PROVE Passed(t, n)'
  <2> SUFFICES ASSUME NEW i \in 1..Len(array'), i < n
               PROVE  Content(array'[i].pkg, j.item) # "good"
    BY <1>1 DEF Passed
  <2>1. i \in 1..Len(array) /\ array'[i] = array[i]
    BY <1>1, <1>3
  <2> QED BY <1>3, <2>1 DEF Passed
<1>4. j.icu /\ j.pc \in Scanning \cup Extending =>
        1 <= j.idx /\ j.idx <= Len(array') + 1 /\ Passed(t, j.idx)'
  BY <1>1, <1>2, <1>3, SMTT(30) DEF Good
<1>5. j.pc = "link" => j.idx <= Slots /\ (Listed(Linked)' => j.idx <= Len(array'))
  <2> SUFFICES ASSUME j.pc = "link", Listed(Linked)' PROVE j.idx <= Len(array')
    BY DEF Good
  <2>1. j.icu /\ j.idx <= Len(array) + 1
    BY DEF Good, Scanning
  <2>2. CASE Len(array') = Len(array)
    <3>1. Listed(Linked)
      BY <2>2, GrowthKeeps
    <3> QED BY <2>2, <3>1 DEF Good
  <2>3. CASE Len(array') # Len(array)
    BY <1>1, <1>2, <2>1, <2>3
  <2> QED BY <2>2, <2>3
<1>6. j.pc = "lookup" => IF j.icu THEN j.idx <= Len(array') /\ j.data = array'[j.idx]
                         ELSE j.data # Absent /\ j.data.pkg = "user"
  <2> SUFFICES ASSUME j.pc = "lookup", j.icu PROVE j.idx <= Len(array') /\ j.data = array'[j.idx]
    BY DEF Good
  <2>1. j.idx <= Len(array) /\ j.data = array[j.idx] /\ 1 <= j.idx
    BY DEF Good, Scanning
  <2> QED BY <1>1, <1>2, <2>1, SMTT(30)
<1>7. j.pc = "share" => j.data = cache'["icudt"] /\ j.data # Absent
  BY DEF Good, Settled
<1>8. Fits(t)'
  <2> SUFFICES ASSUME j.result = "found", j.data # Absent, j.data.pkg # "user"
               PROVE  \E i \in 1..Len(array') : array'[i] = j.data /\ Passed(t, i)'
    BY DEF Fits
  <2>1. PICK i \in 1..Len(array) : array[i] = j.data /\ Passed(t, i)
    BY DEF Fits
  <2> QED BY <1>1, <1>3, <2>1
<1>9. Good(t)'
  BY <1>1, <1>2, <1>4, <1>5, <1>6, <1>7 DEF Good, Name
<1> QED BY <1>8, <1>9

-----------------------------------------------------------------------------
(* Steps of one open.                                                      *)
Asked(t) == job'[t].item = job[t].item /\ job'[t].icu = job[t].icu /\ job'[t].had = job[t].had

LEMMA JobTyped ==
  ASSUME Typed, NEW t \in Threads
  PROVE  /\ job[t] \in Job /\ job[t].pc \in Pcs /\ job[t].item \in Items /\ job[t].icu \in BOOLEAN
         /\ job[t].stages \in Seq({"tz", "files", "common"}) /\ job[t].err \in BOOLEAN
         /\ job[t].idx \in Nat /\ job[t].checked \in BOOLEAN /\ job[t].data \in Headers
         /\ job[t].result \in {"none", "found", "missing"} /\ job[t].had \in SUBSET Headers
BY DEF Typed, Job

(* The step changes one job; what it is now.                               *)
Only(t) == job' \in [Threads -> Job] /\ \A u \in Threads : u # t => job'[u] = job[u]

Now(t, l, s, e, n, c, d) ==
  /\ job'[t].pc = l /\ job'[t].stages = s /\ job'[t].err = e /\ job'[t].idx = n /\ job'[t].checked = c
  /\ job'[t].data = d /\ job'[t].result = job[t].result /\ Asked(t)

LEMMA SetJob ==
  ASSUME Typed, NEW t \in Threads, NEW k \in Job, Set(t, k)
  PROVE  Only(t) /\ job'[t] = k
BY DEF Typed, Set, Only

LEMMA JobStep ==
  ASSUME Inv, UNCHANGED <<world, array, cache>>, tried' \in BOOLEAN, opens' \in 0..Opens,
         NEW t \in Threads, Only(t), Good(t)', Fits(t)'
  PROVE  Inv'
<1> USE DEF Inv, Only
<1>2. Typed'
  BY DEF Typed, Slots
<1>3. Grows /\ Settled
  BY SameGrows DEF Settled
<1>4. \A u \in Threads : u # t => Good(u)' /\ Fits(u)'
  BY <1>2, <1>3, OtherJob
<1>5. ListInv'
  BY DEF ListInv
<1> QED BY <1>2, <1>4, <1>5

LEMMA SamePassed ==
  ASSUME UNCHANGED <<world, array>>, NEW t \in Threads, job'[t].item = job[t].item
  PROVE  /\ \A n : Passed(t, n)' <=> Passed(t, n)
         /\ \A h : Listed(h)' <=> Listed(h)
         /\ Slots' = Slots
BY DEF Passed, Listed, Content, Slots

LEMMA IdleFacts ==
  /\ Idle \in Job /\ Idle.pc = "idle" /\ Idle.stages = <<>> /\ Idle.err = FALSE /\ Idle.idx = 0
  /\ Idle.checked = FALSE /\ Idle.data = Absent /\ Idle.result = "none" /\ Idle.had = {}
<1>1. (CHOOSE i \in Items : TRUE) \in Items
  BY DataAssumption
<1>2. <<>> \in Seq({"tz", "files", "common"})
  OBVIOUS
<1> QED BY <1>1, <1>2, HeaderFacts DEF Idle, Job, Pcs

(* The call returns.                                                       *)
LEMMA Finishes ==
  ASSUME Inv, NEW t \in Threads, NEW r \in {"found", "missing"}, NEW h \in Headers,
         Finish(t, r, h), UNCHANGED <<world, array, cache, tried, opens>>,
         r = "found" /\ h # Absent /\ h.pkg # "user" =>
           \E i \in 1..Len(array) : array[i] = h /\ Passed(t, i)
  PROVE  /\ Inv' /\ Only(t) /\ Asked(t)
         /\ job'[t].pc = "idle" /\ job'[t].result = r /\ job'[t].data = h
<1> DEFINE j == job[t]
           k == [Idle EXCEPT !.item = j.item, !.icu = j.icu, !.had = j.had, !.result = r,
                             !.data = h]
<1>1. Set(t, k)
  BY DEF Finish
<1>2. j.item \in Items /\ j.icu \in BOOLEAN /\ j.had \in SUBSET Headers
  BY JobTyped DEF Inv
<1>3. k \in Job
  BY <1>2, IdleFacts DEF Job
<1>9. Only(t) /\ job'[t] = k
  BY <1>1, <1>3, SetJob DEF Inv
<1>4. /\ job'[t].pc = "idle" /\ job'[t].idx = 0 /\ job'[t].result = r /\ job'[t].data = h /\ Asked(t)
  BY <1>9, IdleFacts DEF Asked, Job
<1> HIDE DEF k
<1>5. Slots' = Slots /\ Slots \in Nat
  BY WorldFacts DEF Slots, Inv, Typed
<1>6. Good(t)'
  BY <1>4, <1>5 DEF Good, Scanning, Extending
<1>7. Fits(t)'
  BY <1>4, SamePassed DEF Fits, Asked
<1>8. tried' \in BOOLEAN /\ opens' \in 0..Opens
  BY DEF Inv, Typed
<1> QED BY <1>4, <1>6, <1>7, <1>8, <1>9, JobStep

LEMMA FilesNow ==
  ASSUME Typed, NEW t \in Threads, LoadFromIndividualFiles(t)
  PROVE  LET j == job[t] IN
         /\ UNCHANGED <<world, array, cache, tried, opens>> /\ j.pc = "stage" /\ j.stages # <<>>
         /\ \/ Finish(t, "found", Absent)
            \/ /\ Only(t) /\ Now(t, "stage", Tail(j.stages), j.err \/ Content(Head(j.stages), j.item) = "bad",
                                j.idx, j.checked, j.data)
               /\ Head(j.stages) # "common"
<1> DEFINE j == job[t]
           e == j.err \/ Content(Head(j.stages), j.item) = "bad"
           k == [j EXCEPT !.stages = Tail(@), !.err = @ \/ Content(Head(j.stages), j.item) = "bad"]
<1>1. /\ UNCHANGED <<world, array, cache, tried, opens>> /\ j.pc = "stage" /\ j.stages # <<>>
      /\ Head(j.stages) # "common"
  BY DEF LoadFromIndividualFiles, At
<1>2. Finish(t, "found", Absent) \/ Set(t, k)
  BY DEF LoadFromIndividualFiles
<1>3. ASSUME Set(t, k)
      PROVE  Only(t) /\ Now(t, "stage", Tail(j.stages), e, j.idx, j.checked, j.data)
  <2>1. j \in Job /\ j.stages \in Seq({"tz", "files", "common"}) /\ j.err \in BOOLEAN
    BY JobTyped
  <2>2. Tail(j.stages) \in Seq({"tz", "files", "common"}) /\ e \in BOOLEAN
    BY <1>1, <2>1
  <2>3. k = [j EXCEPT !.stages = Tail(j.stages), !.err = e]
    BY <2>1 DEF Job
  <2> HIDE DEF k, e
  <2>4. k \in Job
    BY <2>1, <2>2, <2>3 DEF Job
  <2>5. Only(t) /\ job'[t] = k
    BY <1>3, <2>4, SetJob
  <2> QED BY <1>1, <2>1, <2>3, <2>5, SMTT(30) DEF Job, Now, Asked
<1> QED BY <1>1, <1>2, <1>3

LEMMA FilesInv ==
  ASSUME Inv, NEW t \in Threads, LoadFromIndividualFiles(t) PROVE Inv'
<1> DEFINE j == job[t]
           e == j.err \/ Content(Head(j.stages), j.item) = "bad"
<1>1. /\ UNCHANGED <<world, array, cache, tried, opens>> /\ j.pc = "stage"
      /\ \/ Finish(t, "found", Absent)
         \/ Only(t) /\ Now(t, "stage", Tail(j.stages), e, j.idx, j.checked, j.data)
  BY FilesNow DEF Inv
<1> HIDE DEF e
<1>2. CASE Finish(t, "found", Absent)
  BY <1>1, <1>2, Finishes, HeaderFacts
<1>3. CASE Only(t) /\ Now(t, "stage", Tail(j.stages), e, j.idx, j.checked, j.data)
  <2>1. Slots' = Slots /\ j.result = "none" /\ j.idx <= Slots + 1
    BY <1>1, JobTyped DEF Slots, Good, Inv
  <2>2. Good(t)' /\ Fits(t)'
    BY <1>3, <2>1 DEF Good, Fits, Scanning, Extending, Now
  <2>3. tried' \in BOOLEAN /\ opens' \in 0..Opens
    BY <1>1 DEF Inv, Typed
  <2> QED BY <1>1, <1>3, <2>2, <2>3, JobStep
<1> QED BY <1>1, <1>2, <1>3

LEMMA CommonNow ==
  ASSUME Typed, NEW t \in Threads, LoadFromCommonData(t)
  PROVE  LET j == job[t] IN
         /\ Only(t) /\ j.pc = "stage" /\ UNCHANGED <<world, array, cache, tried, opens>> /\ j.stages # <<>>
         /\ Now(t, IF j.icu THEN "slot" ELSE "find", Tail(j.stages), j.err, 1, FALSE, j.data)
<1> DEFINE j == job[t]
           k == [j EXCEPT !.pc = IF j.icu THEN "slot" ELSE "find",
                        !.stages = Tail(@), !.idx = 1, !.checked = FALSE]
<1>1. j.pc = "stage" /\ UNCHANGED <<world, array, cache, tried, opens>> /\ j.stages # <<>> /\ Set(t, k)
  BY DEF LoadFromCommonData, At
<1>5. j.stages \in Seq({"tz", "files", "common"}) /\ Tail(j.stages) \in Seq({"tz", "files", "common"})
  BY <1>1, JobTyped, SMTT(30)
<1>6. (IF j.icu THEN "slot" ELSE "find") \in Pcs
  BY DEF Pcs
<1>2. j \in Job /\ k \in Job
  BY <1>5, <1>6, JobTyped, ZenonT(60) DEF Job
<1>3. Only(t) /\ job'[t] = k
  BY <1>1, <1>2, SetJob
<1>4. Now(t, IF j.icu THEN "slot" ELSE "find", Tail(j.stages), j.err, 1, FALSE, j.data)
  BY <1>2, <1>3 DEF Job, Now, Asked
<1> QED BY <1>1, <1>3, <1>4

LEMMA ExtendNow ==
  ASSUME Typed, NEW t \in Threads, Extend(t)
  PROVE  LET j == job[t] IN
         /\ Only(t) /\ j.pc = "extend" /\ UNCHANGED <<world, array, cache, tried, opens>>
         /\ Now(t, IF j.checked THEN "stage" ELSE IF tried THEN "confirm" ELSE "find", j.stages,
             j.err, j.idx, j.checked, j.data)
<1> DEFINE j == job[t]
           k == [j EXCEPT !.pc = IF j.checked THEN "stage" ELSE IF tried THEN "confirm" ELSE "find"]
<1>1. j.pc = "extend" /\ UNCHANGED <<world, array, cache, tried, opens>> /\ Set(t, k)
  BY DEF Extend, At
<1>2. j \in Job /\ k \in Job
  BY <1>1, JobTyped, ZenonT(60) DEF Job, Pcs
<1>3. Only(t) /\ job'[t] = k
  BY <1>1, <1>2, SetJob
<1>4. Now(t, IF j.checked THEN "stage" ELSE IF tried THEN "confirm" ELSE "find", j.stages,
             j.err, j.idx, j.checked, j.data)
  BY <1>2, <1>3 DEF Job, Now, Asked
<1> QED BY <1>1, <1>3, <1>4

LEMMA RememberNow ==
  ASSUME Typed, NEW t \in Threads, RememberTried(t)
  PROVE  LET j == job[t] IN
         /\ Only(t) /\ j.pc = "tried" /\ UNCHANGED <<world, array, cache, opens>> /\ tried' = TRUE
         /\ Now(t, "confirm", j.stages, j.err, j.idx, j.checked, j.data)
<1> DEFINE j == job[t]
           k == [j EXCEPT !.pc = "confirm"]
<1>1. j.pc = "tried" /\ UNCHANGED <<world, array, cache, opens>> /\ tried' = TRUE /\ Set(t, k)
  BY DEF RememberTried, At
<1>2. j \in Job /\ k \in Job
  BY <1>1, JobTyped, ZenonT(60) DEF Job, Pcs
<1>3. Only(t) /\ job'[t] = k
  BY <1>1, <1>2, SetJob
<1>4. Now(t, "confirm", j.stages, j.err, j.idx, j.checked, j.data)
  BY <1>2, <1>3 DEF Job, Now, Asked
<1> QED BY <1>1, <1>3, <1>4

LEMMA ShareNow ==
  ASSUME Typed, NEW t \in Threads, ShareExtended(t)
  PROVE  LET j == job[t] IN
         /\ Only(t) /\ j.pc = "share" /\ UNCHANGED <<world, cache, tried, opens>> /\ SetCommonICUData(j.data)
         /\ Now(t, "tried", j.stages, j.err, j.idx, j.checked, j.data)
<1> DEFINE j == job[t]
           k == [j EXCEPT !.pc = "tried"]
<1>1. j.pc = "share" /\ UNCHANGED <<world, cache, tried, opens>> /\ SetCommonICUData(j.data) /\ Set(t, k)
  BY DEF ShareExtended, At
<1>2. j \in Job /\ k \in Job
  BY <1>1, JobTyped, ZenonT(60) DEF Job, Pcs
<1>3. Only(t) /\ job'[t] = k
  BY <1>1, <1>2, SetJob
<1>4. Now(t, "tried", j.stages, j.err, j.idx, j.checked, j.data)
  BY <1>2, <1>3 DEF Job, Now, Asked
<1> QED BY <1>1, <1>3, <1>4

LEMMA ConfirmNow ==
  ASSUME Typed, NEW t \in Threads, Confirm(t)
  PROVE  LET j == job[t]
             found == Listed(cache["icudt"])
         IN /\ Only(t) /\ j.pc = "confirm" /\ UNCHANGED <<world, array, cache, tried, opens>>
            /\ Now(t, IF found THEN "slot" ELSE "stage", j.stages, j.err, j.idx, found, j.data)
<1> DEFINE j == job[t]
           found == Listed(cache["icudt"])
           k == [j EXCEPT !.pc = IF found THEN "slot" ELSE "stage", !.checked = found]
<1>1. j.pc = "confirm" /\ UNCHANGED <<world, array, cache, tried, opens>> /\ Set(t, k)
  <2>1. found <=> cache["icudt"] \in Range(array)
    BY Lists
  <2>2. found \in BOOLEAN
    BY DEF Listed
  <2>3. found = (cache["icudt"] \in Range(array))
    BY <2>1, <2>2
  <2> QED BY <2>3 DEF Confirm, At
<1>2. found \in BOOLEAN
  BY DEF Listed
<1> HIDE DEF found
<1>6. (IF found THEN "slot" ELSE "stage") \in Pcs
  BY DEF Pcs
<1>3. j \in Job /\ k \in Job
  BY <1>2, <1>6, JobTyped DEF Job
<1>4. Only(t) /\ job'[t] = k
  BY <1>1, <1>3, SetJob
<1>5. Now(t, IF found THEN "slot" ELSE "stage", j.stages, j.err, j.idx, found, j.data)
  BY <1>3, <1>4 DEF Job, Now, Asked
<1> QED BY <1>1, <1>4, <1>5 DEF found

LEMMA OpenSlotNow ==
  ASSUME Typed, NEW t \in Threads, OpenSlot(t), Good(t)
  PROVE  LET j == job[t] IN
         /\ Only(t) /\ j.pc = "slot" /\ UNCHANGED <<world, array, cache, tried, opens>>
         /\ \/ (j.err \/ j.idx > Slots) /\ Now(t, "extend", j.stages, j.err, j.idx, j.checked, j.data)
            \/ /\ ~j.err /\ j.idx <= Len(array)
               /\ Now(t, "lookup", j.stages, j.err, j.idx, j.checked, array[j.idx])
            \/ /\ ~j.err /\ j.idx <= Slots /\ j.idx > Len(array)
               /\ Now(t, IF Listed(Linked) THEN "extend" ELSE "link", j.stages, j.err, j.idx, j.checked, j.data)
<1> DEFINE j == job[t]
           k1 == [j EXCEPT !.pc = "extend"]
           k2 == [j EXCEPT !.pc = "lookup", !.data = array[j.idx]]
           k3 == [j EXCEPT !.pc = IF Listed(Linked) THEN "extend" ELSE "link"]
<1>1. /\ j.pc = "slot" /\ UNCHANGED <<world, array, cache, tried, opens>>
      /\ \/ (j.err \/ j.idx > Slots) /\ Set(t, k1)
         \/ ~j.err /\ j.idx <= Len(array) /\ Set(t, k2)
         \/ ~j.err /\ j.idx <= Slots /\ j.idx > Len(array) /\ Set(t, k3)
  BY Lists DEF OpenSlot, At
<1>2. j \in Job /\ j.idx \in Nat /\ 1 <= j.idx
  BY <1>1, JobTyped DEF Good, Scanning
<1>3. CASE (j.err \/ j.idx > Slots) /\ Set(t, k1)
  <2>1. k1 \in Job
    BY <1>2 DEF Job, Pcs
  <2>2. Only(t) /\ job'[t] = k1
    BY <1>3, <2>1, SetJob
  <2>3. Now(t, "extend", j.stages, j.err, j.idx, j.checked, j.data)
    BY <1>2, <2>2 DEF Job, Now, Asked
  <2> QED BY <1>1, <1>3, <2>2, <2>3
<1>4. CASE ~j.err /\ j.idx <= Len(array) /\ Set(t, k2)
  <2>1. array[j.idx] \in Headers
    BY <1>2, <1>4, SMTT(30) DEF Typed, Packages
  <2>2. k2 \in Job
    BY <1>2, <2>1 DEF Job, Pcs
  <2>3. Only(t) /\ job'[t] = k2
    BY <1>4, <2>2, SetJob
  <2>4. Now(t, "lookup", j.stages, j.err, j.idx, j.checked, array[j.idx])
    BY <1>2, <2>3 DEF Job, Now, Asked
  <2> QED BY <1>1, <1>4, <2>3, <2>4
<1>5. CASE ~j.err /\ j.idx <= Slots /\ j.idx > Len(array) /\ Set(t, k3)
  <2>1. k3 \in Job
    BY <1>2 DEF Job, Pcs
  <2>2. Only(t) /\ job'[t] = k3
    BY <1>5, <2>1, SetJob
  <2>3. Now(t, IF Listed(Linked) THEN "extend" ELSE "link", j.stages, j.err, j.idx, j.checked, j.data)
    BY <1>2, <2>2 DEF Job, Now, Asked
  <2> QED BY <1>1, <1>5, <2>2, <2>3
<1> QED BY <1>1, <1>3, <1>4, <1>5

LEMMA LookupNow ==
  ASSUME Typed, NEW t \in Threads, Lookup(t)
  PROVE  LET j == job[t]
             v == Content(j.data.pkg, j.item)
         IN /\ j.pc = "lookup" /\ UNCHANGED <<world, array, cache, tried, opens>>
            /\ \/ v = "good" /\ Finish(t, "found", j.data)
               \/ /\ v # "good" /\ Only(t)
                  /\ Now(t, IF j.icu THEN "slot" ELSE "stage", j.stages, v = "bad", j.idx + 1, j.checked, j.data)
<1> DEFINE j == job[t]
           v == Content(j.data.pkg, j.item)
           k == [j EXCEPT !.pc = IF j.icu THEN "slot" ELSE "stage", !.idx = @ + 1, !.err = v = "bad"]
<1>1. /\ j.pc = "lookup" /\ UNCHANGED <<world, array, cache, tried, opens>>
      /\ \/ v = "good" /\ Finish(t, "found", j.data)
         \/ v # "good" /\ Set(t, k)
  BY DEF Lookup, At
<1>2. CASE v # "good" /\ Set(t, k)
  <2> HIDE DEF v
  <2>4. j \in Job /\ j.idx + 1 \in Nat /\ (v = "bad") \in BOOLEAN
    BY JobTyped, SMTT(30)
  <2>5. k = [j EXCEPT !.pc = IF j.icu THEN "slot" ELSE "stage", !.idx = j.idx + 1, !.err = (v = "bad")]
    BY <2>4 DEF Job
  <2>1. j \in Job /\ k \in Job
    <3> DEFINE e == (v = "bad")
               l == IF j.icu THEN "slot" ELSE "stage"
    <3>1. e \in BOOLEAN /\ l \in Pcs
      BY DEF Pcs
    <3>2. k = [j EXCEPT !.pc = l, !.idx = j.idx + 1, !.err = e]
      BY <2>5
    <3> HIDE DEF e, l, k
    <3> QED BY <2>4, <3>1, <3>2 DEF Job
  <2>2. Only(t) /\ job'[t] = k
    BY <1>2, <2>1, SetJob
  <2>3. Now(t, IF j.icu THEN "slot" ELSE "stage", j.stages, v = "bad", j.idx + 1, j.checked, j.data)
    BY <2>1, <2>2, ZenonT(60) DEF Job, Now, Asked
  <2> QED BY <1>1, <1>2, <2>2, <2>3 DEF v
<1> QED BY <1>1, <1>2

LEMMA NoPackageNow ==
  ASSUME Typed, NEW t \in Threads, NoPackage(t, TRUE)
  PROVE  LET j == job[t] IN
         Only(t) /\ Now(t, IF j.icu THEN "tried" ELSE "stage", j.stages, TRUE, j.idx, j.checked, j.data)
<1> DEFINE j == job[t]
           k == [j EXCEPT !.pc = IF j.icu THEN "tried" ELSE "stage", !.err = TRUE]
<1>4. (IF j.icu THEN "tried" ELSE "stage") \in Pcs
  BY DEF Pcs
<1>1. j \in Job /\ k \in Job
  BY <1>4, JobTyped DEF Job
<1>2. Only(t) /\ job'[t] = k
  BY <1>1, SetJob DEF NoPackage
<1>3. Now(t, IF j.icu THEN "tried" ELSE "stage", j.stages, TRUE, j.idx, j.checked, j.data)
  BY <1>1, <1>2 DEF Job, Now, Asked
<1> QED BY <1>2, <1>3

LEMMA OpenedNow ==
  ASSUME Typed, NEW t \in Threads, NEW h \in Headers, Opened(t, h)
  PROVE  LET j == job[t] IN
         Only(t) /\ Now(t, IF j.icu THEN "share" ELSE "lookup", j.stages, j.err, j.idx, j.checked, h)
<1> DEFINE j == job[t]
           k == [j EXCEPT !.pc = IF j.icu THEN "share" ELSE "lookup", !.data = h]
<1>4. (IF j.icu THEN "share" ELSE "lookup") \in Pcs
  BY DEF Pcs
<1>1. j \in Job /\ k \in Job
  BY <1>4, JobTyped DEF Job
<1>2. Only(t) /\ job'[t] = k
  BY <1>1, SetJob DEF Opened
<1>3. Now(t, IF j.icu THEN "share" ELSE "lookup", j.stages, j.err, j.idx, j.checked, h)
  BY <1>1, <1>2 DEF Job, Now, Asked
<1> QED BY <1>2, <1>3

LEMMA FindNow ==
  ASSUME Typed, NEW t \in Threads, FindCachedData(t)
  PROVE  LET j == job[t]
             h == cache[Name(t)]
         IN /\ Only(t) /\ j.pc = "find" /\ UNCHANGED <<world, array, cache, tried, opens>>
            /\ \/ j.err /\ Now(t, IF j.icu THEN "tried" ELSE "stage", j.stages, TRUE, j.idx, j.checked, j.data)
               \/ ~j.err /\ h # Absent
                  /\ Now(t, IF j.icu THEN "share" ELSE "lookup", j.stages, j.err, j.idx, j.checked, h)
               \/ ~j.err /\ Now(t, "map", j.stages, j.err, j.idx, j.checked, j.data)
<1> DEFINE j == job[t]
           h == cache[Name(t)]
           k == [j EXCEPT !.pc = "map"]
<1>1. /\ j.pc = "find" /\ UNCHANGED <<world, array, cache, tried, opens>>
      /\ \/ j.err /\ NoPackage(t, TRUE)
         \/ ~j.err /\ h # Absent /\ Opened(t, h)
         \/ ~j.err /\ Set(t, k)
  BY DEF FindCachedData, At
<1>2. h \in Headers
  BY DEF Typed, Name
<1>3. CASE j.err /\ NoPackage(t, TRUE)
  BY <1>1, <1>3, NoPackageNow
<1>4. CASE ~j.err /\ h # Absent /\ Opened(t, h)
  BY <1>1, <1>2, <1>4, OpenedNow
<1>5. CASE ~j.err /\ Set(t, k)
  <2>1. j \in Job /\ k \in Job
    BY JobTyped DEF Job, Pcs
  <2>2. Only(t) /\ job'[t] = k
    BY <1>5, <2>1, SetJob
  <2>3. Now(t, "map", j.stages, j.err, j.idx, j.checked, j.data)
    BY <2>1, <2>2 DEF Job, Now, Asked
  <2> QED BY <1>1, <1>5, <2>2, <2>3
<1> QED BY <1>1, <1>3, <1>4, <1>5

LEMMA MapFileNow ==
  ASSUME Typed, NEW t \in Threads, MapFile(t)
  PROVE  LET j == job[t] IN
         /\ Only(t) /\ j.pc = "map" /\ UNCHANGED <<world, array, cache, tried, opens>>
         /\ \/ Name(t) \in world.onDisk /\ Now(t, "cache", j.stages, j.err, j.idx, j.checked, j.data)
            \/ /\ Name(t) \notin world.onDisk
               /\ Now(t, IF j.icu THEN "tried" ELSE "stage", j.stages, TRUE, j.idx, j.checked, j.data)
<1> DEFINE j == job[t]
           k == [j EXCEPT !.pc = "cache"]
<1>1. /\ j.pc = "map" /\ UNCHANGED <<world, array, cache, tried, opens>>
      /\ IF Name(t) \in world.onDisk THEN Set(t, k) ELSE NoPackage(t, TRUE)
  BY DEF MapFile, At
<1>2. CASE Name(t) \in world.onDisk
  <2>1. j \in Job /\ k \in Job
    BY JobTyped DEF Job, Pcs
  <2>2. Only(t) /\ job'[t] = k
    BY <1>1, <1>2, <2>1, SetJob
  <2>3. Now(t, "cache", j.stages, j.err, j.idx, j.checked, j.data)
    BY <2>1, <2>2 DEF Job, Now, Asked
  <2> QED BY <1>1, <1>2, <2>2, <2>3
<1>3. CASE Name(t) \notin world.onDisk
  BY <1>1, <1>3, NoPackageNow
<1> QED BY <1>2, <1>3

LEMMA OpenChoiceNow ==
  ASSUME Typed, NEW t \in Threads, NEW i \in Items, NEW b \in BOOLEAN, OpenChoice(t, i, b)
  PROVE  LET k == job'[t] IN
         /\ Only(t) /\ job[t].pc = "idle" /\ UNCHANGED <<world, array, cache, tried>>
         /\ opens' \in 0..Opens
         /\ k.pc = "stage" /\ k.item = i /\ k.icu = b /\ k.stages = Stages(b) /\ ~k.err /\ k.idx = 0
         /\ k.result = "none" /\ k.had = Range(array)
         /\ Awaits(k.stages)
<1> DEFINE k == [Idle EXCEPT !.pc = "stage", !.item = i, !.icu = b, !.stages = Stages(b),
                             !.had = Range(array)]
<1>1. /\ job[t].pc = "idle" /\ UNCHANGED <<world, array, cache, tried>> /\ opens < Opens
      /\ opens' = opens + 1 /\ Set(t, k)
  BY DEF OpenChoice, At
<1>2. opens' \in 0..Opens
  BY <1>1, DataAssumption, SMTT(30) DEF Typed
<1>3. Range(array) \in SUBSET Headers
  BY SMTT(30) DEF Range, Typed, Packages
<1>4. Stages(b) \in Seq({"tz", "files", "common"}) /\ Awaits(Stages(b))
  <2> DEFINE S == {"tz", "files", "common"}
             x == IF b THEN <<"tz">> ELSE <<>>
             y == CASE world.access = "packages_first" -> <<"common", "files">>
                    [] world.access = "files_first" -> <<"files", "common">>
                    [] OTHER -> <<"common">>
  <2>1. Stages(b) = x \o y
    BY DEF Stages
  <2>2. x \in Seq(S) /\ \A i1 \in 1..Len(x) : x[i1] # "common"
    <3>1. <<"tz">> \in Seq(S) /\ <<>> \in Seq(S) /\ Len(<<>>) = 0 /\ Len(<<"tz">>) = 1
      OBVIOUS
    <3>2. CASE x = <<"tz">>
      <4>1. Len(x) = 1 /\ x[1] = "tz"
        BY <3>2
      <4> HIDE DEF x
      <4> QED BY <3>1, <3>2, <4>1
    <3>3. CASE x = <<>>
      BY <3>1, <3>3
    <3> QED BY <3>2, <3>3
  <2>3. y \in Seq(S) /\ Awaits(y)
    <3>1. <<"common", "files">> \in Seq(S) /\ <<"files", "common">> \in Seq(S) /\ <<"common">> \in Seq(S)
      OBVIOUS
    <3>2. y = <<"common", "files">> \/ y = <<"files", "common">> \/ y = <<"common">>
      OBVIOUS
    <3> HIDE DEF y
    <3>3. CASE y = <<"common", "files">>
      <4>1. Len(y) = 2 /\ y[1] = "common" /\ y[2] = "files"
        BY <3>3
      <4> QED BY <3>1, <3>3, <4>1, SMTT(30) DEF Awaits
    <3>4. CASE y = <<"files", "common">>
      <4>1. Len(y) = 2 /\ y[1] = "files" /\ y[2] = "common"
        BY <3>4
      <4> QED BY <3>1, <3>4, <4>1, SMTT(30) DEF Awaits
    <3>5. CASE y = <<"common">>
      <4>1. Len(y) = 1 /\ y[1] = "common"
        BY <3>5
      <4> QED BY <3>1, <3>5, <4>1 DEF Awaits
    <3> QED BY <3>2, <3>3, <3>4, <3>5
  <2> HIDE DEF x, y, S
  <2>4. PICK m \in 1..Len(y) : y[m] = "common" /\ \A k1 \in 1..Len(y) : y[k1] = "common" => k1 = m
    BY <2>3 DEF Awaits
  <2>5. /\ x \o y \in Seq(S) /\ Len(x) \in Nat /\ Len(y) \in Nat /\ Len(x \o y) = Len(x) + Len(y)
        /\ \A n \in 1..Len(x) + Len(y) : (x \o y)[n] = IF n <= Len(x) THEN x[n] ELSE y[n - Len(x)]
    BY <2>2, <2>3
  <2>6. Len(x) + m \in 1..Len(x \o y) /\ (x \o y)[Len(x) + m] = "common"
    BY <2>4, <2>5, SMTT(30)
  <2>7. ASSUME NEW n \in 1..Len(x \o y), (x \o y)[n] = "common" PROVE n = Len(x) + m
    <3>1. n > Len(x)
      BY <2>2, <2>5, <2>7
    <3>2. n - Len(x) \in 1..Len(y) /\ y[n - Len(x)] = "common"
      BY <2>5, <2>7, <3>1
    <3>3. n - Len(x) = m
      BY <2>4, <3>2
    <3>4. Len(x) \in Nat /\ n \in Int
      BY <2>5
    <3> QED BY <3>3, <3>4
  <2> QED BY <2>1, <2>5, <2>6, <2>7 DEF S, Awaits
<1>5. k \in Job
  BY <1>3, <1>4, IdleFacts DEF Job, Pcs
<1>6. Only(t) /\ job'[t] = k
  BY <1>1, <1>5, SetJob
<1>7. /\ k.pc = "stage" /\ k.item = i /\ k.icu = b /\ k.stages = Stages(b) /\ k.err = FALSE
      /\ k.idx = 0 /\ k.result = "none" /\ k.had = Range(array)
  BY IdleFacts DEF Job
<1> HIDE DEF k
<1> QED BY <1>1, <1>2, <1>4, <1>6, <1>7

LEMMA CommonInv ==
  ASSUME Inv, NEW t \in Threads, LoadFromCommonData(t) PROVE Inv'
<1> USE DEF Inv
<1> DEFINE j == job[t]
<1>1. /\ UNCHANGED <<world, array, cache, tried, opens>> /\ Only(t) /\ j.pc = "stage" /\ job'[t].item = j.item
  BY CommonNow DEF Now, Asked
<1>2. /\ Slots' = Slots /\ (\A n : Passed(t, n)' <=> Passed(t, n)) /\ (\A h : Listed(h)' <=> Listed(h))
  BY <1>1, SamePassed
<1>3. /\ Slots \in Nat /\ Len(array) \in Nat /\ Len(array) <= Slots /\ j.idx \in Nat
      /\ j.result = "none" /\ Good(t) /\ j.icu \in BOOLEAN
  BY <1>1, WorldFacts, JobTyped, SMTT(30) DEF Good, Typed
<1>5. Now(t, IF j.icu THEN "slot" ELSE "find", Tail(j.stages), j.err, 1, FALSE, j.data)
  BY CommonNow
<1>4. Passed(t, 1)
  BY <1>3 DEF Passed
<1>6. Good(t)'
  BY <1>1, <1>2, <1>3, <1>4, <1>5, SMTT(30) DEF Good, Now, Asked, Scanning, Extending
<1>7. Fits(t)'
  BY <1>3, CommonNow DEF Fits, Now
<1>8. tried' \in BOOLEAN /\ opens' \in 0..Opens
  BY <1>1 DEF Typed
<1> QED BY <1>1, <1>6, <1>7, <1>8, JobStep

LEMMA ExtendInv ==
  ASSUME Inv, NEW t \in Threads, Extend(t) PROVE Inv'
<1> USE DEF Inv
<1> DEFINE j == job[t]
<1>1. /\ UNCHANGED <<world, array, cache, tried, opens>> /\ Only(t) /\ j.pc = "extend" /\ job'[t].item = j.item
  BY ExtendNow DEF Now, Asked
<1>2. /\ Slots' = Slots /\ (\A n : Passed(t, n)' <=> Passed(t, n)) /\ (\A h : Listed(h)' <=> Listed(h))
  BY <1>1, SamePassed
<1>3. /\ Slots \in Nat /\ Len(array) \in Nat /\ Len(array) <= Slots /\ j.idx \in Nat
      /\ j.result = "none" /\ Good(t) /\ j.icu \in BOOLEAN
  BY <1>1, WorldFacts, JobTyped, SMTT(30) DEF Good, Typed
<1>5. Now(t, IF j.checked THEN "stage" ELSE IF tried THEN "confirm" ELSE "find", j.stages,
          j.err, j.idx, j.checked, j.data)
  BY ExtendNow
<1>6. Good(t)'
  BY <1>1, <1>2, <1>3, <1>5 DEF Good, Now, Asked, Scanning, Extending
<1>7. Fits(t)'
  BY <1>3, ExtendNow DEF Fits, Now
<1>8. tried' \in BOOLEAN /\ opens' \in 0..Opens
  BY <1>1 DEF Typed
<1> QED BY <1>1, <1>6, <1>7, <1>8, JobStep

LEMMA RememberInv ==
  ASSUME Inv, NEW t \in Threads, RememberTried(t) PROVE Inv'
<1> USE DEF Inv
<1> DEFINE j == job[t]
<1>1. /\ UNCHANGED <<world, array, cache, opens>> /\ Only(t) /\ j.pc = "tried" /\ job'[t].item = j.item
  BY RememberNow DEF Now, Asked
<1>2. /\ Slots' = Slots /\ (\A n : Passed(t, n)' <=> Passed(t, n)) /\ (\A h : Listed(h)' <=> Listed(h))
  BY <1>1, SamePassed
<1>3. /\ Slots \in Nat /\ Len(array) \in Nat /\ Len(array) <= Slots /\ j.idx \in Nat
      /\ j.result = "none" /\ Good(t) /\ j.icu \in BOOLEAN
  BY <1>1, WorldFacts, JobTyped, SMTT(30) DEF Good, Typed
<1>5. Now(t, "confirm", j.stages, j.err, j.idx, j.checked, j.data)
  BY RememberNow
<1>6. Good(t)'
  BY <1>1, <1>2, <1>3, <1>5 DEF Good, Now, Asked, Scanning, Extending
<1>7. Fits(t)'
  BY <1>3, RememberNow DEF Fits, Now
<1>8. tried' \in BOOLEAN /\ opens' \in 0..Opens
  BY <1>1, RememberNow DEF Typed
<1> QED BY <1>1, <1>6, <1>7, <1>8, JobStep

LEMMA ConfirmInv ==
  ASSUME Inv, NEW t \in Threads, Confirm(t) PROVE Inv'
<1> USE DEF Inv
<1> DEFINE j == job[t]
<1>1. /\ UNCHANGED <<world, array, cache, tried, opens>> /\ Only(t) /\ j.pc = "confirm" /\ job'[t].item = j.item
  BY ConfirmNow DEF Now, Asked
<1>2. /\ Slots' = Slots /\ (\A n : Passed(t, n)' <=> Passed(t, n)) /\ (\A h : Listed(h)' <=> Listed(h))
  BY <1>1, SamePassed
<1>3. /\ Slots \in Nat /\ Len(array) \in Nat /\ Len(array) <= Slots /\ j.idx \in Nat
      /\ j.result = "none" /\ Good(t) /\ j.icu \in BOOLEAN
  BY <1>1, WorldFacts, JobTyped, SMTT(30) DEF Good, Typed
<1> DEFINE found == Listed(cache["icudt"])
<1>5. Now(t, IF found THEN "slot" ELSE "stage", j.stages, j.err, j.idx, found, j.data)
  BY ConfirmNow
<1> HIDE DEF found
<1>6. Good(t)'
  BY <1>1, <1>2, <1>3, <1>5 DEF Good, Now, Asked, Scanning, Extending
<1>7. Fits(t)'
  BY <1>3, ConfirmNow DEF Fits, Now
<1>8. tried' \in BOOLEAN /\ opens' \in 0..Opens
  BY <1>1 DEF Typed
<1> QED BY <1>1, <1>6, <1>7, <1>8, JobStep

LEMMA OpenSlotInv ==
  ASSUME Inv, NEW t \in Threads, OpenSlot(t) PROVE Inv'
<1> USE DEF Inv
<1> DEFINE j == job[t]
<1>1. /\ UNCHANGED <<world, array, cache, tried, opens>> /\ Only(t) /\ j.pc = "slot" /\ job'[t].item = j.item
  BY OpenSlotNow DEF Now, Asked
<1>2. /\ Slots' = Slots /\ (\A n : Passed(t, n)' <=> Passed(t, n)) /\ (\A h : Listed(h)' <=> Listed(h))
  BY <1>1, SamePassed
<1>3. /\ Slots \in Nat /\ Len(array) \in Nat /\ Len(array) <= Slots /\ j.idx \in Nat
      /\ j.result = "none" /\ Good(t) /\ j.icu \in BOOLEAN
  BY <1>1, WorldFacts, JobTyped, SMTT(30) DEF Good, Typed
<1>4. 1 <= j.idx /\ j.idx <= Len(array) + 1 /\ Passed(t, j.idx) /\ j.icu /\ j.idx <= Slots + 1
  BY <1>1, <1>3 DEF Good, Scanning
<1>6. Good(t)'
  <2>1. CASE Now(t, "extend", j.stages, j.err, j.idx, j.checked, j.data)
    BY <1>1, <1>2, <1>3, <1>4, <2>1 DEF Good, Now, Asked, Scanning, Extending
  <2>2. CASE j.idx <= Len(array) /\ Now(t, "lookup", j.stages, j.err, j.idx, j.checked, array[j.idx])
    BY <1>1, <1>2, <1>3, <1>4, <2>2 DEF Good, Now, Asked, Scanning, Extending
  <2>3. CASE j.idx <= Slots /\ ~Listed(Linked) /\ Now(t, "link", j.stages, j.err, j.idx, j.checked, j.data)
    BY <1>1, <1>2, <1>3, <1>4, <2>3 DEF Good, Now, Asked, Scanning, Extending
  <2> QED BY <1>3, <2>1, <2>2, <2>3, OpenSlotNow
<1>7. Fits(t)'
  BY <1>3, OpenSlotNow DEF Fits, Now
<1>8. tried' \in BOOLEAN /\ opens' \in 0..Opens
  BY <1>1 DEF Typed
<1> QED BY <1>1, <1>6, <1>7, <1>8, JobStep

LEMMA FindInv ==
  ASSUME Inv, NEW t \in Threads, FindCachedData(t) PROVE Inv'
<1> USE DEF Inv
<1> DEFINE j == job[t]
<1>1. /\ UNCHANGED <<world, array, cache, tried, opens>> /\ Only(t) /\ j.pc = "find" /\ job'[t].item = j.item
  BY FindNow DEF Now, Asked
<1>2. /\ Slots' = Slots /\ (\A n : Passed(t, n)' <=> Passed(t, n)) /\ (\A h : Listed(h)' <=> Listed(h))
  BY <1>1, SamePassed
<1>3. /\ Slots \in Nat /\ Len(array) \in Nat /\ Len(array) <= Slots /\ j.idx \in Nat
      /\ j.result = "none" /\ Good(t) /\ j.icu \in BOOLEAN
  BY <1>1, WorldFacts, JobTyped, SMTT(30) DEF Good, Typed
<1> DEFINE c == cache[Name(t)]
<1>6. Good(t)'
  <2>1. CASE Now(t, IF j.icu THEN "tried" ELSE "stage", j.stages, TRUE, j.idx, j.checked, j.data)
    BY <1>1, <1>2, <1>3, <2>1 DEF Good, Now, Asked, Scanning, Extending
  <2>2. CASE c # Absent /\ Now(t, IF j.icu THEN "share" ELSE "lookup", j.stages, j.err, j.idx, j.checked, c)
    <3>1. (j.icu => c = cache["icudt"]) /\ (~j.icu => c = cache["user"] /\ c.pkg = "user")
      BY <2>2 DEF Name, ListInv
    <3> HIDE DEF c
    <3> QED BY <1>1, <1>2, <1>3, <2>2, <3>1 DEF Good, Now, Asked, Scanning, Extending
  <2>3. CASE Now(t, "map", j.stages, j.err, j.idx, j.checked, j.data)
    BY <1>1, <1>2, <1>3, <2>3 DEF Good, Now, Asked, Scanning, Extending
  <2> QED BY <2>1, <2>2, <2>3, FindNow
<1>7. Fits(t)'
  BY <1>3, FindNow DEF Fits, Now
<1>8. tried' \in BOOLEAN /\ opens' \in 0..Opens
  BY <1>1 DEF Typed
<1> QED BY <1>1, <1>6, <1>7, <1>8, JobStep

LEMMA MapFileInv ==
  ASSUME Inv, NEW t \in Threads, MapFile(t) PROVE Inv'
<1> USE DEF Inv
<1> DEFINE j == job[t]
<1>1. /\ UNCHANGED <<world, array, cache, tried, opens>> /\ Only(t) /\ j.pc = "map" /\ job'[t].item = j.item
  BY MapFileNow DEF Now, Asked
<1>2. /\ Slots' = Slots /\ (\A n : Passed(t, n)' <=> Passed(t, n)) /\ (\A h : Listed(h)' <=> Listed(h))
  BY <1>1, SamePassed
<1>3. /\ Slots \in Nat /\ Len(array) \in Nat /\ Len(array) <= Slots /\ j.idx \in Nat
      /\ j.result = "none" /\ Good(t) /\ j.icu \in BOOLEAN
  BY <1>1, WorldFacts, JobTyped, SMTT(30) DEF Good, Typed
<1>6. Good(t)'
  <2>1. CASE Now(t, IF j.icu THEN "tried" ELSE "stage", j.stages, TRUE, j.idx, j.checked, j.data)
    BY <1>1, <1>2, <1>3, <2>1 DEF Good, Now, Asked, Scanning, Extending
  <2>2. CASE Name(t) \in world.onDisk /\ Now(t, "cache", j.stages, j.err, j.idx, j.checked, j.data)
    <3>1. Name(t)' \in world'.onDisk
      BY <1>1, <2>2 DEF Name, Now, Asked
    <3> QED BY <1>1, <1>2, <1>3, <2>2, <3>1 DEF Good, Now, Asked, Scanning, Extending
  <2> QED BY <2>1, <2>2, MapFileNow
<1>7. Fits(t)'
  BY <1>3, MapFileNow DEF Fits, Now
<1>8. tried' \in BOOLEAN /\ opens' \in 0..Opens
  BY <1>1 DEF Typed
<1> QED BY <1>1, <1>6, <1>7, <1>8, JobStep

LEMMA NotFoundInv ==
  ASSUME Inv, NEW t \in Threads, NotFound(t)
  PROVE  /\ Inv' /\ Only(t) /\ Asked(t) /\ job'[t].pc = "idle" /\ job'[t].result = "missing"
         /\ job[t].pc = "stage" /\ job[t].stages = <<>> /\ UNCHANGED <<world, array, cache, tried, opens>>
<1>1. /\ Finish(t, "missing", Absent) /\ UNCHANGED <<world, array, cache, tried, opens>>
      /\ job[t].pc = "stage" /\ job[t].stages = <<>>
  BY DEF NotFound, At
<1> QED BY <1>1, Finishes, HeaderFacts

LEMMA LookupInv ==
  ASSUME Inv, NEW t \in Threads, Lookup(t) PROVE Inv'
<1> USE DEF Inv
<1> DEFINE j == job[t]
           v == Content(j.data.pkg, j.item)
<1>1. /\ j.pc = "lookup" /\ UNCHANGED <<world, array, cache, tried, opens>>
      /\ \/ v = "good" /\ Finish(t, "found", j.data)
         \/ /\ v # "good" /\ Only(t)
            /\ Now(t, IF j.icu THEN "slot" ELSE "stage", j.stages, v = "bad", j.idx + 1, j.checked, j.data)
  BY LookupNow
<1>2. /\ Slots \in Nat /\ Len(array) \in Nat /\ Len(array) <= Slots /\ j.idx \in Nat
      /\ j.result = "none" /\ Good(t) /\ j.icu \in BOOLEAN /\ j.data \in Headers /\ 0 < Slots
  BY <1>1, WorldFacts, JobTyped, SMTT(30) DEF Good, Typed
<1>3. IF j.icu THEN 1 <= j.idx /\ j.idx <= Len(array) /\ j.data = array[j.idx] /\ Passed(t, j.idx)
      ELSE j.data.pkg = "user" /\ j.idx = 1
  BY <1>1, <1>2 DEF Good, Scanning
<1>4. CASE v = "good" /\ Finish(t, "found", j.data)
  <2>1. j.data # Absent /\ j.data.pkg # "user" => \E i \in 1..Len(array) : array[i] = j.data /\ Passed(t, i)
    BY <1>2, <1>3
  <2> QED BY <1>1, <1>2, <1>4, <2>1, Finishes
<1>5. CASE v # "good" /\ Only(t)
           /\ Now(t, IF j.icu THEN "slot" ELSE "stage", j.stages, v = "bad", j.idx + 1, j.checked, j.data)
  <2>1. j.icu => Passed(t, j.idx + 1)
    <3> SUFFICES ASSUME j.icu, NEW i \in 1..Len(array), i < j.idx + 1
                 PROVE  Content(array[i].pkg, j.item) # "good"
      BY DEF Passed
    <3>1. i < j.idx \/ i = j.idx
      BY <1>2
    <3> QED BY <1>3, <1>5, <3>1 DEF Passed
  <2>2. job'[t].item = j.item
    BY <1>5 DEF Now, Asked
  <2>3. /\ Slots' = Slots /\ (\A n : Passed(t, n)' <=> Passed(t, n)) /\ (\A h : Listed(h)' <=> Listed(h))
    BY <1>1, <2>2, SamePassed
  <2> HIDE DEF v
  <2>4. Good(t)'
    <3>1. /\ job'[t].pc = IF j.icu THEN "slot" ELSE "stage"
          /\ job'[t].idx = j.idx + 1 /\ job'[t].icu = j.icu /\ job'[t].result = "none"
      BY <1>2, <1>5 DEF Now, Asked
    <3>2. j.idx + 1 <= Slots + 1
      BY <1>2, <1>3
    <3>3. \A n : n = j.idx + 1 => (j.icu => 1 <= n /\ n <= Len(array) + 1 /\ Passed(t, n)')
      BY <1>2, <1>3, <2>1, <2>3
    <3>4. j.icu => 1 <= job'[t].idx /\ job'[t].idx <= Len(array) + 1 /\ Passed(t, job[t].idx)'
      BY <3>1, <3>3
    <3> QED BY <1>1, <2>3, <3>1, <3>2, <3>4 DEF Good, Scanning, Extending
  <2>5. Fits(t)'
    BY <1>2, <1>5 DEF Fits, Now
  <2>6. tried' \in BOOLEAN /\ opens' \in 0..Opens
    BY <1>1 DEF Typed
  <2> QED BY <1>1, <1>5, <2>4, <2>5, <2>6, JobStep
<1> QED BY <1>1, <1>4, <1>5

LEMMA OpenChoiceInv ==
  ASSUME Inv, NEW t \in Threads, NEW i \in Items, NEW b \in BOOLEAN, OpenChoice(t, i, b)
  PROVE  Inv'
<1> USE DEF Inv
<1>1. /\ Only(t) /\ UNCHANGED <<world, array, cache, tried>> /\ opens' \in 0..Opens
      /\ job'[t].pc = "stage" /\ job'[t].idx = 0 /\ job'[t].result = "none"
  BY OpenChoiceNow, ZenonT(60)
<1>2. Slots' = Slots /\ Slots \in Nat
  BY <1>1, WorldFacts DEF Typed, Slots
<1>3. Good(t)' /\ Fits(t)'
  BY <1>1, <1>2, SMTT(30) DEF Good, Fits, Scanning, Extending
<1>4. tried' \in BOOLEAN
  BY <1>1 DEF Typed
<1> QED BY <1>1, <1>3, <1>4, JobStep

-----------------------------------------------------------------------------
(* Steps that change the list or the cache.                                *)
LEMMA ListGrows ==
  ASSUME Inv, NEW h \in Packages, SetCommonICUData(h), UNCHANGED <<world, cache>>,
         h.pkg # "user", h.pkg = "icudt" => h = cache["icudt"]
  PROVE  ListInv'
<1>1. /\ Grows /\ array' \in Seq(Packages)
      /\ Listed(h) \/ Full => array' = array
      /\ ~Listed(h) /\ ~Full => Len(array') = Len(array) + 1 /\ array'[Len(array) + 1] = h
  BY Appends DEF Inv
<1>2. CASE Listed(h) \/ Full
  BY <1>1, <1>2, ZenonT(60) DEF Inv, ListInv
<1>3. CASE ~Listed(h) /\ ~Full
  <2>1. /\ Len(array) \in Nat /\ Len(array') = Len(array) + 1 /\ array'[Len(array) + 1] = h
        /\ \A i \in 1..Len(array) : array'[i] = array[i] /\ array[i] # h
    BY <1>1, <1>3, SMTT(30) DEF Inv, Typed, Grows, Listed
  <2>2. \A i \in 1..Len(array') : i \in 1..Len(array) \/ i = Len(array) + 1
    BY <2>1
  <2>3. \A i \in 1..Len(array') :
          array'[i].pkg # "user" /\ (array'[i].pkg = "icudt" => array'[i] = cache["icudt"])
    BY <2>1, <2>2 DEF Inv, ListInv
  <2>4. \A i, k \in 1..Len(array') : array'[i] = array'[k] => i = k
    BY <2>1, <2>2, ZenonT(60) DEF Inv, ListInv
  <2> QED BY <2>3, <2>4 DEF Inv, ListInv
<1> QED BY <1>2, <1>3

LEMMA GrowStep ==
  ASSUME Inv, Grows, Settled, array' \in Seq(Packages), ListInv',
         cache' \in [{"icudt", "user"} -> Headers], UNCHANGED <<tried, opens>>,
         NEW t \in Threads, Only(t), Good(t)', Fits(t)'
  PROVE  Inv'
<1> USE DEF Inv, Only
<1>1. Typed'
  BY DEF Typed, Slots, Grows
<1>2. \A u \in Threads : u # t => Good(u)' /\ Fits(u)'
  BY <1>1, OtherJob
<1> QED BY <1>1, <1>2

LEMMA AllStay ==
  ASSUME Inv, Grows, Settled, array' \in Seq(Packages), ListInv',
         cache' \in [{"icudt", "user"} -> Headers], UNCHANGED <<tried, opens, job>>
  PROVE  Inv'
<1> USE DEF Inv
<1>1. Typed'
  BY DEF Typed, Slots, Grows
<1>2. \A u \in Threads : Good(u)' /\ Fits(u)'
  BY <1>1, OtherJob
<1> QED BY <1>1, <1>2

LEMMA SetCommonDataInv ==
  ASSUME Inv, SetCommonData PROVE Inv'
<1>1. SetCommonICUData(Given("app")) /\ UNCHANGED <<world, cache, tried, job, opens>>
  BY DEF SetCommonData
<1>2. Given("app") \in Packages /\ Given("app").pkg = "app"
  BY HeaderFacts
<1>3. ListInv' /\ Grows /\ array' \in Seq(Packages)
  BY <1>1, <1>2, ListGrows, Appends DEF Inv
<1>4. Settled /\ cache' \in [{"icudt", "user"} -> Headers]
  BY <1>1 DEF Settled, Inv, Typed
<1> QED BY <1>1, <1>3, <1>4, AllStay

LEMMA SetAppDataInv ==
  ASSUME Inv, SetAppData PROVE Inv'
<1>1. UNCHANGED <<world, array, tried, job, opens>> /\ cache' = [cache EXCEPT !["user"] = Given("user")]
  BY DEF SetAppData
<1>2. Given("user") \in Headers /\ Given("user").pkg = "user"
  BY HeaderFacts DEF Packages
<1>3. /\ cache' \in [{"icudt", "user"} -> Headers]
      /\ cache'["user"] = Given("user") /\ cache'["icudt"] = cache["icudt"]
  BY <1>1, <1>2 DEF Inv, Typed
<1>4. Settled /\ ListInv' /\ Grows /\ array' \in Seq(Packages)
  BY <1>1, <1>2, <1>3, SameGrows DEF Settled, ListInv, Inv, Typed
<1> QED BY <1>1, <1>3, <1>4, AllStay

LEMMA LinkNow ==
  ASSUME Inv, NEW t \in Threads, AddLinkedIn(t)
  PROVE  LET j == job[t] IN
         /\ Only(t) /\ j.pc = "link" /\ UNCHANGED <<world, cache, tried, opens>>
         /\ SetCommonICUData(Linked) /\ Grows /\ array' \in Seq(Packages)
         /\ j.idx \in 1..Len(array')
         /\ \A h : h = array'[j.idx] => Now(t, "lookup", j.stages, j.err, j.idx, j.checked, h)
<1> DEFINE j == job[t]
           k == [j EXCEPT !.pc = "lookup", !.data = array'[j.idx]]
<1>1. /\ j.pc = "link" /\ UNCHANGED <<world, cache, tried, opens>> /\ SetCommonICUData(Linked)
      /\ Set(t, k)
  BY DEF AddLinkedIn, At
<1>2. /\ Grows /\ array' \in Seq(Packages)
      /\ Listed(Linked) \/ Full => array' = array
      /\ ~Listed(Linked) /\ ~Full => Len(array') = Len(array) + 1
  BY <1>1, Appends, HeaderFacts DEF Inv
<1>3. /\ j.idx \in Nat /\ 1 <= j.idx /\ j.idx <= Len(array) + 1 /\ j.idx <= Slots
      /\ Listed(Linked) => j.idx <= Len(array)
  BY <1>1, JobTyped DEF Inv, Good, Scanning
<1>4. Len(array) \in Nat /\ Slots \in Nat /\ Len(array') \in Nat
  BY <1>2, WorldFacts, SMTT(30) DEF Inv, Typed
<1>5. j.idx \in 1..Len(array')
  BY <1>2, <1>3, <1>4 DEF Full
<1> DEFINE d == array'[j.idx]
<1>6. d \in Headers /\ k = [j EXCEPT !.pc = "lookup", !.data = d]
  BY <1>2, <1>5 DEF Packages
<1> HIDE DEF d, k
<1>7. j \in Job /\ k \in Job
  BY <1>6, JobTyped, ZenonT(60) DEF Job, Pcs, Inv
<1>8. Only(t) /\ job'[t] = k
  BY <1>1, <1>7, SetJob DEF Inv
<1>9. Now(t, "lookup", j.stages, j.err, j.idx, j.checked, d)
  BY <1>6, <1>7, <1>8, ZenonT(60) DEF Job, Now, Asked
<1> QED BY <1>1, <1>2, <1>5, <1>8, <1>9 DEF d

LEMMA PassedGrows ==
  ASSUME Typed, Typed', Grows, NEW t \in Threads, job'[t].item = job[t].item,
         NEW n \in Nat, n <= Len(array) + 1, Passed(t, n)
  PROVE  Passed(t, n)'
<1>1. /\ Len(array) \in Nat /\ Len(array') \in Nat /\ Len(array) <= Len(array')
      /\ \A p, i : Content(p, i)' = Content(p, i)
      /\ \A i \in 1..Len(array) : array'[i] = array[i]
  BY GrowthKeeps DEF Grows
<1> SUFFICES ASSUME NEW i \in 1..Len(array'), i < n
             PROVE  Content(array'[i].pkg, job[t].item) # "good"
  BY <1>1 DEF Passed
<1>2. i \in 1..Len(array) /\ array'[i] = array[i]
  BY <1>1
<1> QED BY <1>2 DEF Passed

LEMMA LinkInv ==
  ASSUME Inv, NEW t \in Threads, AddLinkedIn(t) PROVE Inv'
<1> DEFINE j == job[t]
<1>1. /\ Only(t) /\ j.pc = "link" /\ UNCHANGED <<world, cache, tried, opens>>
      /\ SetCommonICUData(Linked) /\ Grows /\ array' \in Seq(Packages)
      /\ j.idx \in 1..Len(array')
  BY LinkNow
<1>2. /\ job'[t].pc = "lookup" /\ job'[t].idx = j.idx /\ job'[t].data = array'[j.idx]
      /\ job'[t].icu = j.icu /\ job'[t].item = j.item /\ job'[t].result = j.result
  BY LinkNow DEF Now, Asked
<1>3. /\ j.idx \in Nat /\ 1 <= j.idx /\ j.idx <= Len(array) + 1 /\ j.idx <= Slots /\ j.icu
      /\ Passed(t, j.idx) /\ j.result = "none"
  BY <1>1, JobTyped DEF Inv, Good, Scanning
<1>4. ListInv' /\ Settled
  BY <1>1, HeaderFacts, ListGrows DEF Settled
<1>5. cache' \in [{"icudt", "user"} -> Headers]
  BY <1>1 DEF Inv, Typed
<1>6. Typed'
  BY <1>1, <1>5 DEF Inv, Typed, Slots, Grows, Only
<1>7. \A n : n = j.idx => Passed(t, n)'
  BY <1>1, <1>2, <1>3, <1>6, PassedGrows DEF Inv
<1>8. Slots' = Slots /\ Slots \in Nat /\ Len(array') \in Nat
  BY <1>1, <1>6, GrowthKeeps DEF Inv
<1>9. Good(t)'
  <2>1. Passed(t, job[t].idx)' /\ 1 <= job'[t].idx /\ job'[t].idx <= Len(array')
        /\ job'[t].idx <= Slots + 1 /\ job'[t].data = array'[job'[t].idx]
    BY <1>1, <1>2, <1>3, <1>7, <1>8
  <2> QED BY <1>2, <1>3, <1>8, <2>1 DEF Good, Scanning, Extending
<1>10. Fits(t)'
  BY <1>2, <1>3 DEF Fits
<1> QED BY <1>1, <1>4, <1>5, <1>9, <1>10, GrowStep

LEMMA ShareInv ==
  ASSUME Inv, NEW t \in Threads, ShareExtended(t)
  PROVE  Inv' /\ Grows /\ job[t].data \in Packages /\ job[t].data.pkg = "icudt"
<1> DEFINE j == job[t]
<1>1. /\ Only(t) /\ j.pc = "share" /\ UNCHANGED <<world, cache, tried, opens>>
      /\ SetCommonICUData(j.data) /\ Now(t, "tried", j.stages, j.err, j.idx, j.checked, j.data)
  BY ShareNow DEF Inv
<1>2. /\ job'[t].pc = "tried" /\ job'[t].idx = j.idx
      /\ job'[t].icu = j.icu /\ job'[t].item = j.item /\ job'[t].result = j.result
  BY <1>1 DEF Now, Asked
<1>3. /\ j.idx \in Nat /\ 1 <= j.idx /\ j.idx <= Len(array) + 1 /\ j.idx <= Slots + 1 /\ j.icu
      /\ Passed(t, j.idx) /\ j.result = "none" /\ j.data \in Headers
      /\ j.data = cache["icudt"] /\ j.data # Absent
  BY <1>1, JobTyped DEF Inv, Good, Extending
<1>4. j.data \in Packages /\ j.data.pkg = "icudt"
  BY <1>3 DEF Packages, Inv, ListInv
<1>5. ListInv' /\ Settled /\ Grows /\ array' \in Seq(Packages)
  BY <1>1, <1>3, <1>4, ListGrows, Appends DEF Settled, Inv
<1>6. cache' \in [{"icudt", "user"} -> Headers]
  BY <1>1 DEF Inv, Typed
<1>7. Typed'
  BY <1>1, <1>5, <1>6 DEF Inv, Typed, Slots, Grows, Only
<1>8. \A n : n = j.idx => Passed(t, n)'
  BY <1>2, <1>3, <1>5, <1>7, PassedGrows DEF Inv
<1>9. Slots' = Slots /\ Slots \in Nat /\ Len(array') \in Nat /\ Len(array) \in Nat
      /\ Len(array) <= Len(array')
  BY <1>5, <1>7, GrowthKeeps DEF Inv, Grows
<1>10. Good(t)'
  <2>1. Passed(t, job[t].idx)' /\ 1 <= job'[t].idx /\ job'[t].idx <= Len(array') + 1
        /\ job'[t].idx <= Slots + 1
    BY <1>2, <1>3, <1>8, <1>9
  <2> QED BY <1>2, <1>3, <1>9, <2>1 DEF Good, Scanning, Extending
<1>11. Fits(t)'
  BY <1>2, <1>3 DEF Fits
<1>12. Inv'
  BY <1>1, <1>5, <1>6, <1>10, <1>11, GrowStep
<1> QED BY <1>4, <1>5, <1>12

LEMMA CacheNow ==
  ASSUME Inv, NEW t \in Threads, CacheDataItem(t)
  PROVE  LET j == job[t]
             p == Name(t)
         IN /\ Only(t) /\ j.pc = "cache" /\ UNCHANGED <<world, array, tried, opens>>
            /\ cache' \in [{"icudt", "user"} -> Headers] /\ p \in {"icudt", "user"}
            /\ cache'[p] = IF cache[p] = Absent THEN Header(p, t) ELSE cache[p]
            /\ \A q \in {"icudt", "user"} : q # p => cache'[q] = cache[q]
            /\ cache'[p] # Absent /\ cache'[p].pkg = p /\ p \in world.onDisk
            /\ \A h : h = cache'[p] =>
                 Now(t, IF j.icu THEN "share" ELSE "lookup", j.stages, j.err, j.idx, j.checked, h)
<1> DEFINE j == job[t]
<1>1. PICK p \in {"icudt", "user"} : p = Name(t)
  BY DEF Name
<1>2. /\ j.pc = "cache" /\ UNCHANGED <<world, array, tried, opens>>
      /\ cache' = [cache EXCEPT ![p] = IF cache[p] = Absent THEN Header(p, t) ELSE cache[p]]
      /\ Opened(t, cache'[p])
  BY <1>1 DEF CacheDataItem, At
<1>3. Header(p, t) \in Packages /\ Header(p, t).pkg = p
  BY HeaderFacts
<1>4. /\ cache' \in [{"icudt", "user"} -> Headers]
      /\ cache'[p] = IF cache[p] = Absent THEN Header(p, t) ELSE cache[p]
      /\ \A q \in {"icudt", "user"} : q # p => cache'[q] = cache[q]
  BY <1>2, <1>3 DEF Inv, Typed, Packages
<1>5. cache'[p] # Absent /\ cache'[p].pkg = p
  BY <1>3, <1>4 DEF Packages, Inv, ListInv
<1>6. p \in world.onDisk
  BY <1>1, <1>2 DEF Inv, Good
<1>7. cache'[p] \in Headers
  BY <1>4
<1>8. \A h : h = cache'[p] =>
        Only(t) /\ Now(t, IF j.icu THEN "share" ELSE "lookup", j.stages, j.err, j.idx, j.checked, h)
  BY <1>2, <1>7, OpenedNow DEF Inv
<1> QED BY <1>1, <1>2, <1>4, <1>5, <1>6, <1>8

LEMMA CacheInv ==
  ASSUME Inv, NEW t \in Threads, CacheDataItem(t) PROVE Inv' /\ Grows /\ Settled
<1> DEFINE j == job[t]
<1>1. PICK p \in {"icudt", "user"} : p = Name(t)
  BY DEF Name
<1>2. /\ Only(t) /\ j.pc = "cache" /\ UNCHANGED <<world, array, tried, opens>>
      /\ cache' \in [{"icudt", "user"} -> Headers]
      /\ cache'[p] = IF cache[p] = Absent THEN Header(p, t) ELSE cache[p]
      /\ \A q \in {"icudt", "user"} : q # p => cache'[q] = cache[q]
      /\ cache'[p] # Absent /\ cache'[p].pkg = p /\ p \in world.onDisk
  BY <1>1, CacheNow
<1>3. PICK h : h = cache'[p]
  OBVIOUS
<1>4. Now(t, IF j.icu THEN "share" ELSE "lookup", j.stages, j.err, j.idx, j.checked, h)
  BY <1>1, <1>3, CacheNow
<1>5. (j.icu => p = "icudt") /\ (~j.icu => p = "user")
  BY <1>1 DEF Name
<1>6. Settled /\ Grows /\ array' \in Seq(Packages)
  BY <1>2, SameGrows DEF Settled, Inv, Typed
<1>7. ListInv'
  <2>1. cache["icudt"] # Absent => cache'["icudt"] = cache["icudt"]
    BY <1>6 DEF Settled
  <2>2. \A i \in 1..Len(array) :
          /\ array[i].pkg # "user" /\ (array[i].pkg = "icudt" => array[i] = cache'["icudt"])
          /\ \A k \in 1..Len(array) : array[i] = array[k] => i = k
    <3> SUFFICES ASSUME NEW i \in 1..Len(array), array[i].pkg = "icudt" PROVE array[i] = cache'["icudt"]
      BY DEF Inv, ListInv
    <3>1. array[i] # Absent /\ array[i] = cache["icudt"]
      BY SMTT(30) DEF Inv, ListInv, Typed, Packages
    <3> QED BY <2>1, <3>1
  <2>3. \A q \in {"icudt", "user"} : cache'[q] # Absent => cache'[q].pkg = q
    BY <1>2 DEF Inv, ListInv
  <2>4. cache'["icudt"] # Absent => "icudt" \in world.onDisk
    BY <1>2 DEF Inv, ListInv
  <2> QED BY <1>2, <2>2, <2>3, <2>4 DEF ListInv
<1>8. /\ j.idx \in Nat /\ j.result = "none" /\ Good(t) /\ j.icu \in BOOLEAN
  BY <1>2, JobTyped DEF Inv, Good
<1>9. job'[t].item = j.item
  BY <1>4 DEF Now, Asked
<1>10. Slots' = Slots /\ (\A n : Passed(t, n)' <=> Passed(t, n))
  BY <1>2, <1>9, SamePassed
<1>11. Good(t)'
  <2>1. /\ job'[t].pc = IF j.icu THEN "share" ELSE "lookup"
        /\ job'[t].idx = j.idx /\ job'[t].icu = j.icu /\ job'[t].result = "none" /\ job'[t].data = h
    BY <1>4, <1>8 DEF Now, Asked
  <2>2. /\ j.icu => h = cache'["icudt"] /\ h # Absent
        /\ ~j.icu => h # Absent /\ h.pkg = "user"
    BY <1>2, <1>3, <1>5
  <2>3. /\ j.icu => 1 <= j.idx /\ j.idx <= Len(array) + 1 /\ Passed(t, j.idx)
        /\ ~j.icu => j.idx = 1
        /\ j.idx <= Slots + 1
    BY <1>2, <1>8 DEF Good, Extending
  <2>4. j.icu => Passed(t, job[t].idx)'
    BY <1>10, <2>1, <2>3
  <2> QED BY <1>2, <1>10, <2>1, <2>2, <2>3, <2>4 DEF Good, Scanning, Extending
<1>12. Fits(t)'
  BY <1>4, <1>8 DEF Fits, Now
<1>13. Inv'
  BY <1>2, <1>6, <1>7, <1>11, <1>12, GrowStep
<1> QED BY <1>6, <1>13

Unused ==
  /\ world \in Worlds /\ array = <<>> /\ cache = [p \in {"icudt", "user"} |-> Absent]
  /\ tried = FALSE /\ job = [t \in Threads |-> Idle] /\ opens = 0

LEMMA Fresh == Unused => Inv
<1> SUFFICES ASSUME Unused PROVE Inv
  OBVIOUS
<1> USE DEF Unused
<1>1. Slots \in Nat /\ Len(array) = 0 /\ array \in Seq(Packages)
  BY WorldFacts
<1>2. cache \in [{"icudt", "user"} -> Headers]
  BY HeaderFacts
<1>3. opens \in 0..Opens
  BY DataAssumption, SMTT(30)
<1>4. job \in [Threads -> Job] /\ \A t \in Threads : job[t] = Idle
  BY IdleFacts
<1>8. tried \in BOOLEAN /\ world \in Worlds
  OBVIOUS
<1>9. Len(array) <= Slots
  BY <1>1
<1>5. Typed
  BY <1>1, <1>2, <1>3, <1>4, <1>8, <1>9 DEF Typed
<1>6. ListInv
  <2>1. 1..Len(array) = {}
    BY <1>1
  <2> QED BY <2>1 DEF ListInv
<1>7. ASSUME NEW t \in Threads PROVE Good(t) /\ Fits(t)
  BY <1>1, <1>4, IdleFacts, SMTT(30) DEF Good, Fits, Scanning, Extending
<1> QED BY <1>5, <1>6, <1>7 DEF Inv

LEMMA CleanupInv ==
  ASSUME Inv, Cleanup PROVE Inv' /\ Unused'
<1>1. Unused'
  BY DEF Cleanup, Inv, Typed, Unused
<1> QED BY <1>1, Fresh, PTL

LEMMA InitInv ==
  ASSUME Init PROVE Inv
BY Fresh DEF Init, Unused

LEMMA StepInv ==
  ASSUME Inv, NEW t \in Threads, Step(t) PROVE Inv'
BY FilesInv, CommonInv, NotFoundInv, OpenSlotInv, LinkInv, LookupInv, ExtendInv, FindInv,
   MapFileInv, CacheInv, ShareInv, RememberInv, ConfirmInv DEF Step

LEMMA NextInv ==
  ASSUME Inv, [Next]_vars PROVE Inv'
<1>1. CASE Next
  BY <1>1, StepInv, OpenChoiceInv, SetCommonDataInv, SetAppDataInv, CleanupInv DEF Next
<1>2. CASE UNCHANGED vars
  <2>1. UNCHANGED <<world, array, cache, tried, job, opens>>
    BY <1>2 DEF vars
  <2>2. Typed' /\ ListInv'
    BY <2>1 DEF Inv, Typed, ListInv, Slots
  <2>3. ASSUME NEW t \in Threads PROVE Good(t)' /\ Fits(t)'
    <3>1. Good(t) /\ Fits(t)
      BY DEF Inv
    <3>2. Good(t)'
      BY <2>1, <3>1 DEF Good, Passed, Listed, Content, Slots, Name
    <3>3. Fits(t)'
      BY <2>1, <3>1 DEF Fits, Passed, Content
    <3> QED BY <3>2, <3>3
  <2> QED BY <2>2, <2>3 DEF Inv
<1> QED BY <1>1, <1>2

(* What it says of the properties.                                         *)
LEMMA InvSound ==
  ASSUME Inv PROVE PackageListSound /\ FirstPackageWins
<1> USE DEF Inv
<1>1. Slots \in Nat /\ DOMAIN array = 1..Len(array) /\ Len(array) \in Nat
  BY WorldFacts, SMTT(30) DEF Typed
<1>2. TypeOK
  <2>1. \A t \in Threads : job[t].idx \in 0..Slots + 1
    BY <1>1, JobTyped, SMTT(30) DEF Good
  <2> QED BY <2>1 DEF Typed, TypeOK, Packages
<1>3. ASSUME NEW i \in DOMAIN array, NEW k \in DOMAIN array, array[i].pkg = array[k].pkg
      PROVE  i = k
  <2>1. array[i] \in Packages /\ array[k] \in Packages
    BY <1>1, SMTT(30) DEF Typed
  <2>2. array[i].pkg \in {"linked", "app", "icudt"}
    BY <1>1, <2>1, HeaderFacts DEF ListInv
  <2>3. array[i] = array[k]
    BY <1>1, <1>3, <2>1, <2>2, HeaderFacts, ZenonT(60) DEF ListInv
  <2> QED BY <1>1, <2>3 DEF ListInv
<1>4. ASSUME NEW t \in Threads, NEW i \in DOMAIN array, job[t].result = "found",
             job[t].data = array[i], NEW k \in 1..i - 1
      PROVE  Content(array[k].pkg, job[t].item) # "good"
  <2>1. array[i] # Absent /\ array[i].pkg # "user" /\ i \in 1..Len(array)
    BY <1>1, SMTT(30) DEF Typed, Packages, ListInv
  <2>2. PICK m \in 1..Len(array) : array[m] = array[i] /\ Passed(t, m)
    BY <1>4, <2>1 DEF Fits
  <2>3. m = i
    BY <2>1, <2>2 DEF ListInv
  <2>4. k \in 1..Len(array) /\ k < i
    BY <1>1, <2>1
  <2> QED BY <2>2, <2>3, <2>4 DEF Passed
<1> QED BY <1>2, <1>3, <1>4 DEF PackageListSound, FirstPackageWins

(***************************************************************************)
(* The list of common packages stays within its slots and holds no package *)
(* twice, whatever the threads that map the package file, add the linked-  *)
(* in data or hand in data of their own do to each other.                  *)
(***************************************************************************)
THEOREM PackagesListedOnce == Spec => []PackageListSound
<1>1. Init => Inv
  BY InitInv
<1>2. Inv /\ [Next]_vars => Inv'
  BY NextInv
<1>3. Inv => PackageListSound
  BY InvSound
<1> QED BY <1>1, <1>2, <1>3, PTL DEF Spec

(***************************************************************************)
(* An item that comes from a listed package comes from the first one that  *)
(* has it, although the list grows and is searched without a lock.         *)
(***************************************************************************)
THEOREM FirstOfTheListWins == Spec => []FirstPackageWins
<1>1. Init => Inv
  BY InitInv
<1>2. Inv /\ [Next]_vars => Inv'
  BY NextInv
<1>3. Inv => FirstPackageWins
  BY InvSound
<1> QED BY <1>1, <1>2, <1>3, PTL DEF Spec

-----------------------------------------------------------------------------
(* Nothing is overlooked.  What a search has established stays so.         *)
LEMMA SearchKept ==
  ASSUME Typed, Typed', Grows, NEW t \in Threads, job'[t].item = job[t].item, job'[t].had = job[t].had
  PROVE  /\ Scanned(t) => Scanned(t)'
         /\ Exhausted(t) => Exhausted(t)'
         /\ Extended => Extended'
         /\ (\A h \in job[t].had : Listed(h)) => \A h \in job'[t].had : Listed(h)'
         /\ Has("icudt") => Has("icudt")'
         /\ NoBad' <=> NoBad
         /\ world' = world
<1>1. /\ \A p, i : Content(p, i)' = Content(p, i)
      /\ \A h : Listed(h) => Listed(h)'
      /\ \A p : Has(p) => Has(p)'
      /\ Full => Full' /\ \A p : ~Has(p) => ~Has(p)'
      /\ world' = world
  BY GrowthKeeps DEF Grows
<1>2. \A p : Clear(t, p) => Clear(t, p)'
  BY <1>1 DEF Clear
<1>3. Scanned(t) => Scanned(t)'
  BY <1>1, <1>2 DEF Scanned
<1>4. Exhausted(t) => Exhausted(t)'
  BY <1>1, <1>2, <1>3 DEF Exhausted
<1>5. Extended => Extended'
  BY <1>1 DEF Extended
<1>6. NoBad' <=> NoBad
  BY <1>1 DEF NoBad
<1> QED BY <1>1, <1>3, <1>4, <1>5, <1>6

LEMMA OtherThorough ==
  ASSUME Typed, Typed', Grows, NEW t \in Threads, job'[t] = job[t], Thorough(t)
  PROVE  Thorough(t)'
<1>1. /\ Scanned(t) => Scanned(t)'
      /\ Exhausted(t) => Exhausted(t)'
      /\ Extended => Extended'
      /\ (\A h \in job[t].had : Listed(h)) => \A h \in job'[t].had : Listed(h)'
      /\ Has("icudt") => Has("icudt")'
      /\ world' = world
  BY SearchKept
<1> QED BY <1>1 DEF Thorough

LEMMA SearchStep ==
  ASSUME Inv, Inv', Grows, SearchInv, NEW t \in Threads, Only(t),
         NoBad => (tried' => Extended') /\ Thorough(t)'
  PROVE  SearchInv'
<1>1. NoBad' <=> NoBad
  BY GrowthKeeps DEF NoBad, Inv
<1>2. NoBad => \A u \in Threads : u # t => Thorough(u)'
  BY OtherThorough DEF Only, SearchInv, Inv
<1> QED BY <1>1, <1>2 DEF SearchInv

(* A step after which tried is as before.                                  *)
LEMMA TriedStays ==
  ASSUME Inv, Inv', Grows, SearchInv, NoBad, UNCHANGED tried
  PROVE  tried' => Extended'
<1>1. /\ \A p : Has(p) => Has(p)'
      /\ Full => Full'
      /\ world' = world
  BY GrowthKeeps DEF Grows, Inv
<1>2. Extended => Extended'
  BY <1>1 DEF Extended
<1> QED BY <1>2 DEF SearchInv

(* No step of an open of another package concerns the search.              *)
LEMMA OtherPackages ==
  ASSUME NEW t \in Threads, ~job[t].icu, job'[t].icu = job[t].icu
  PROVE  Thorough(t)'
BY DEF Thorough

LEMMA Acceptable ==
  ASSUME Typed, NoBad, NEW h \in Packages, NEW i \in Items
  PROVE  Content(h.pkg, i) # "bad"
<1>1. h.pkg \in Places
  BY HeaderFacts DEF Places
<1> QED BY <1>1 DEF NoBad

(* An open that has passed the whole list knows what the list holds.       *)
LEMMA PassedAll ==
  ASSUME Typed, NEW t \in Threads, NEW n \in Nat, n > Len(array), Passed(t, n)
  PROVE  /\ \A h : Listed(h) => Content(h.pkg, job[t].item) # "good"
         /\ \A p : Has(p) => Content(p, job[t].item) # "good"
<1>1. \A i \in 1..Len(array) : i < n
  BY DEF Typed
<1> QED BY <1>1 DEF Passed, Listed, Has

LEMMA ExtendSearch ==
  ASSUME Inv, SearchInv, NEW t \in Threads, Extend(t) PROVE SearchInv'
<1> DEFINE j == job[t]
<1>1. Inv' /\ Typed /\ Typed' /\ Good(t)
  BY ExtendInv DEF Inv
<1>2. /\ UNCHANGED <<world, array, cache, tried, opens>> /\ Only(t) /\ j.pc = "extend"
      /\ Now(t, IF j.checked THEN "stage" ELSE IF tried THEN "confirm" ELSE "find", j.stages,
             j.err, j.idx, j.checked, j.data)
  BY <1>1, ExtendNow
<1>3. Grows
  BY <1>1, <1>2, SameGrows
<1>4. /\ job'[t].item = j.item /\ job'[t].had = j.had /\ job'[t].icu = j.icu
  BY <1>2 DEF Now, Asked
<1> SUFFICES ASSUME NoBad PROVE Thorough(t)'
  BY <1>1, <1>2, <1>3, SearchStep, TriedStays
<1>5. Thorough(t) /\ j.idx \in Nat
  BY <1>1, JobTyped DEF SearchInv
<1>6. /\ Scanned(t) => Scanned(t)'
      /\ Exhausted(t) => Exhausted(t)'
      /\ Extended => Extended'
      /\ (\A h \in j.had : Listed(h)) => \A h \in job'[t].had : Listed(h)'
      /\ Has("icudt") => Has("icudt")'
  BY <1>1, <1>3, <1>4, SearchKept
<1>7. j.icu /\ j.idx > 0 /\ j.checked \in BOOLEAN /\ j.result = "none"
  BY <1>1, <1>2, <1>5, JobTyped, SMTT(30) DEF Good, Extending
<1>8. (tried => Extended) /\ world' = world
  BY <1>2 DEF SearchInv
<1>9. CASE j.checked
  BY <1>2, <1>4, <1>5, <1>6, <1>7, <1>9 DEF Thorough, Now, Scanning, Extending
<1>10. CASE ~j.checked
  BY <1>2, <1>4, <1>5, <1>6, <1>7, <1>8, <1>10 DEF Thorough, Now, Scanning, Extending
<1> QED BY <1>7, <1>9, <1>10

LEMMA RememberSearch ==
  ASSUME Inv, SearchInv, NEW t \in Threads, RememberTried(t) PROVE SearchInv'
<1> DEFINE j == job[t]
<1>1. Inv' /\ Typed /\ Typed' /\ Good(t)
  BY RememberInv DEF Inv
<1>2. /\ UNCHANGED <<world, array, cache, opens>> /\ Only(t) /\ j.pc = "tried"
      /\ Now(t, "confirm", j.stages, j.err, j.idx, j.checked, j.data)
  BY <1>1, RememberNow
<1>3. Grows
  BY <1>1, <1>2, SameGrows
<1>4. /\ job'[t].item = j.item /\ job'[t].had = j.had /\ job'[t].icu = j.icu
  BY <1>2 DEF Now, Asked
<1> SUFFICES ASSUME NoBad PROVE Extended' /\ Thorough(t)'
  BY <1>1, <1>2, <1>3, SearchStep
<1>5. Thorough(t) /\ j.idx \in Nat
  BY <1>1, JobTyped DEF SearchInv
<1>6. /\ Scanned(t) => Scanned(t)'
      /\ Exhausted(t) => Exhausted(t)'
      /\ Extended => Extended'
      /\ (\A h \in j.had : Listed(h)) => \A h \in job'[t].had : Listed(h)'
      /\ Has("icudt") => Has("icudt")'
  BY <1>1, <1>3, <1>4, SearchKept
<1>7. j.icu /\ j.result = "none" /\ world' = world
  BY <1>1, <1>2 DEF Good
<1>8. Extended'
  BY <1>2, <1>5, <1>6, <1>7 DEF Thorough
<1> QED BY <1>2, <1>4, <1>5, <1>6, <1>7, <1>8 DEF Thorough, Now, Scanning, Extending

LEMMA FindSearch ==
  ASSUME Inv, SearchInv, NEW t \in Threads, FindCachedData(t) PROVE SearchInv'
<1> DEFINE j == job[t]
<1>1. Inv' /\ Typed /\ Typed' /\ Good(t)
  BY FindInv DEF Inv
<1>2. /\ UNCHANGED <<world, array, cache, tried, opens>> /\ Only(t) /\ j.pc = "find"
      /\ \/ j.err /\ Now(t, IF j.icu THEN "tried" ELSE "stage", j.stages, TRUE, j.idx, j.checked, j.data)
         \/ \E h : Now(t, IF j.icu THEN "share" ELSE "lookup", j.stages, j.err, j.idx, j.checked, h)
         \/ Now(t, "map", j.stages, j.err, j.idx, j.checked, j.data)
  BY <1>1, FindNow
<1>3. Grows
  BY <1>1, <1>2, SameGrows
<1>4. /\ job'[t].item = j.item /\ job'[t].had = j.had /\ job'[t].icu = j.icu
  BY <1>2 DEF Now, Asked
<1> SUFFICES ASSUME NoBad PROVE Thorough(t)'
  BY <1>1, <1>2, <1>3, SearchStep, TriedStays
<1>5. Thorough(t) /\ j.idx \in Nat
  BY <1>1, JobTyped DEF SearchInv
<1>6. /\ Scanned(t) => Scanned(t)'
      /\ Exhausted(t) => Exhausted(t)'
      /\ Extended => Extended'
      /\ (\A h \in j.had : Listed(h)) => \A h \in job'[t].had : Listed(h)'
      /\ Has("icudt") => Has("icudt")'
  BY <1>1, <1>3, <1>4, SearchKept
<1>7. CASE ~j.icu
  BY <1>4, <1>7, OtherPackages
<1>8. CASE j.icu
  <2>1. ~j.err /\ ~j.checked /\ Scanned(t) /\ j.result = "none"
    BY <1>1, <1>2, <1>5, <1>8 DEF Thorough, Extending, Good
  <2>2. job'[t].pc \in {"share", "map"} /\ job'[t].err = j.err /\ job'[t].checked = j.checked
        /\ job'[t].idx = j.idx /\ job'[t].stages = j.stages /\ job'[t].result = j.result
    BY <1>2, <1>8, <2>1 DEF Now
  <2> QED BY <1>2, <1>4, <1>5, <1>6, <1>8, <2>1, <2>2 DEF Thorough, Scanning, Extending
<1> QED BY <1>7, <1>8

LEMMA MapFileSearch ==
  ASSUME Inv, SearchInv, NEW t \in Threads, MapFile(t) PROVE SearchInv'
<1> DEFINE j == job[t]
<1>1. Inv' /\ Typed /\ Typed' /\ Good(t)
  BY MapFileInv DEF Inv
<1>2. /\ UNCHANGED <<world, array, cache, tried, opens>> /\ Only(t) /\ j.pc = "map"
      /\ \/ Now(t, "cache", j.stages, j.err, j.idx, j.checked, j.data)
         \/ /\ Name(t) \notin world.onDisk
            /\ Now(t, IF j.icu THEN "tried" ELSE "stage", j.stages, TRUE, j.idx, j.checked, j.data)
  BY <1>1, MapFileNow
<1>3. Grows
  BY <1>1, <1>2, SameGrows
<1>4. /\ job'[t].item = j.item /\ job'[t].had = j.had /\ job'[t].icu = j.icu
  BY <1>2 DEF Now, Asked
<1> SUFFICES ASSUME NoBad PROVE Thorough(t)'
  BY <1>1, <1>2, <1>3, SearchStep, TriedStays
<1>5. Thorough(t) /\ j.idx \in Nat
  BY <1>1, JobTyped DEF SearchInv
<1>6. /\ Scanned(t) => Scanned(t)'
      /\ Exhausted(t) => Exhausted(t)'
      /\ Extended => Extended'
      /\ (\A h \in j.had : Listed(h)) => \A h \in job'[t].had : Listed(h)'
      /\ Has("icudt") => Has("icudt")'
  BY <1>1, <1>3, <1>4, SearchKept
<1>7. CASE ~j.icu
  BY <1>4, <1>7, OtherPackages
<1>8. CASE j.icu
  <2>1. ~j.err /\ ~j.checked /\ Scanned(t) /\ j.result = "none"
    BY <1>1, <1>2, <1>5, <1>8 DEF Thorough, Extending, Good
  <2>2. CASE Now(t, "cache", j.stages, j.err, j.idx, j.checked, j.data)
    BY <1>2, <1>4, <1>5, <1>6, <1>8, <2>1, <2>2 DEF Thorough, Scanning, Extending, Now
  <2>3. CASE /\ Name(t) \notin world.onDisk
             /\ Now(t, "tried", j.stages, TRUE, j.idx, j.checked, j.data)
    <3>1. "icudt" \notin world'.onDisk
      BY <1>2, <1>8, <2>3 DEF Name
    <3>2. Extended'
      BY <3>1 DEF Extended
    <3> QED BY <1>2, <1>4, <1>5, <1>6, <1>8, <2>1, <2>3, <3>1, <3>2 DEF Thorough, Scanning, Extending, Now
  <2> QED BY <1>2, <1>8, <2>2, <2>3
<1> QED BY <1>7, <1>8

LEMMA ConfirmSearch ==
  ASSUME Inv, SearchInv, NEW t \in Threads, Confirm(t) PROVE SearchInv'
<1> DEFINE j == job[t]
<1>1. Inv' /\ Typed /\ Typed' /\ Good(t)
  BY ConfirmInv DEF Inv
<1>2. /\ UNCHANGED <<world, array, cache, tried, opens>> /\ Only(t) /\ j.pc = "confirm"
      /\ Now(t, IF Listed(cache["icudt"]) THEN "slot" ELSE "stage", j.stages, j.err, j.idx,
             Listed(cache["icudt"]), j.data)
  BY <1>1, ConfirmNow
<1>3. Grows
  BY <1>1, <1>2, SameGrows
<1>4. /\ job'[t].item = j.item /\ job'[t].had = j.had /\ job'[t].icu = j.icu
  BY <1>2 DEF Now, Asked
<1> SUFFICES ASSUME NoBad PROVE Thorough(t)'
  BY <1>1, <1>2, <1>3, SearchStep, TriedStays
<1>5. Thorough(t) /\ j.idx \in Nat
  BY <1>1, JobTyped DEF SearchInv
<1>6. /\ Scanned(t) => Scanned(t)'
      /\ Exhausted(t) => Exhausted(t)'
      /\ Extended => Extended'
      /\ (\A h \in j.had : Listed(h)) => \A h \in job'[t].had : Listed(h)'
      /\ Has("icudt") => Has("icudt")'
  BY <1>1, <1>3, <1>4, SearchKept
<1>7. /\ j.icu /\ j.idx > 0 /\ j.result = "none" /\ Extended /\ Scanned(t)
      /\ j.err => "icudt" \notin world.onDisk
  BY <1>1, <1>2, <1>5 DEF Good, Thorough, Extending
<1>8. CASE Listed(cache["icudt"])
  <2>1. PICK i \in 1..Len(array) : array[i] = cache["icudt"]
    BY <1>8 DEF Listed
  <2>2. cache["icudt"] # Absent
    BY <1>1, <2>1 DEF Typed, Packages
  <2>3. "icudt" \in world.onDisk /\ Has("icudt")
    BY <2>1, <2>2 DEF Inv, ListInv, Has
  <2>4. /\ job'[t].pc = "slot" /\ job'[t].err = j.err /\ job'[t].result = "none" /\ job'[t].idx = j.idx
        /\ job'[t].stages = j.stages
    BY <1>2, <1>7, <1>8 DEF Now
  <2> QED BY <1>2, <1>4, <1>5, <1>6, <1>7, <2>3, <2>4 DEF Thorough, Scanning, Extending
<1>9. CASE ~Listed(cache["icudt"])
  <2>1. ~Has("icudt")
    BY <1>9 DEF Has, Listed, Inv, ListInv
  <2>2. Exhausted(t)
    BY <1>7, <2>1 DEF Exhausted, Extended, Clear
  <2>3. /\ job'[t].pc = "stage" /\ job'[t].result = "none" /\ job'[t].idx = j.idx
        /\ job'[t].stages = j.stages
    BY <1>2, <1>7, <1>9 DEF Now
  <2> QED BY <1>2, <1>4, <1>5, <1>6, <1>7, <2>2, <2>3, SMTT(30) DEF Thorough, Scanning, Extending
<1> QED BY <1>8, <1>9

LEMMA OpenSlotSearch ==
  ASSUME Inv, SearchInv, NEW t \in Threads, OpenSlot(t) PROVE SearchInv'
<1> DEFINE j == job[t]
<1>1. Inv' /\ Typed /\ Typed' /\ Good(t)
  BY OpenSlotInv DEF Inv
<1>2. /\ UNCHANGED <<world, array, cache, tried, opens>> /\ Only(t) /\ j.pc = "slot"
      /\ \/ (j.err \/ j.idx > Slots) /\ Now(t, "extend", j.stages, j.err, j.idx, j.checked, j.data)
         \/ Now(t, "lookup", j.stages, j.err, j.idx, j.checked, array[j.idx])
         \/ /\ j.idx > Len(array) /\ Listed(Linked)
            /\ Now(t, "extend", j.stages, j.err, j.idx, j.checked, j.data)
         \/ Now(t, "link", j.stages, j.err, j.idx, j.checked, j.data)
  BY <1>1, OpenSlotNow
<1>3. Grows
  BY <1>1, <1>2, SameGrows
<1>4. /\ job'[t].item = j.item /\ job'[t].had = j.had /\ job'[t].icu = j.icu
  BY <1>2 DEF Now, Asked
<1> SUFFICES ASSUME NoBad PROVE Thorough(t)'
  BY <1>1, <1>2, <1>3, SearchStep, TriedStays
<1>5. Thorough(t) /\ j.idx \in Nat
  BY <1>1, JobTyped DEF SearchInv
<1>6. /\ Scanned(t) => Scanned(t)'
      /\ Exhausted(t) => Exhausted(t)'
      /\ Extended => Extended'
      /\ (\A h \in j.had : Listed(h)) => \A h \in job'[t].had : Listed(h)'
      /\ Has("icudt") => Has("icudt")'
  BY <1>1, <1>3, <1>4, SearchKept
<1>7. /\ j.icu /\ j.idx > 0 /\ j.result = "none" /\ Passed(t, j.idx) /\ j.idx <= Len(array) + 1
      /\ ~j.err /\ (\A h \in j.had : Listed(h)) /\ (j.checked => Has("icudt"))
  BY <1>1, <1>2, <1>5 DEF Good, Thorough, Scanning
<1>8. CASE job'[t].pc = "extend"
  <2>1. Len(array) \in Nat /\ Slots \in Nat /\ Len(array) <= Slots
    BY <1>1, WorldFacts, SMTT(30) DEF Typed
  <2>2. j.idx > Len(array) /\ (Listed(Linked) \/ Full)
    BY <1>2, <1>5, <1>7, <1>8, <2>1 DEF Now, Full
  <2>3. /\ \A h : Listed(h) => Content(h.pkg, j.item) # "good"
        /\ \A p : Has(p) => Content(p, j.item) # "good"
    BY <1>1, <1>5, <1>7, <2>2, PassedAll
  <2>4. Clear(t, "linked")
    BY <2>2, <2>3, HeaderFacts DEF Clear
  <2>5. Scanned(t)
    BY <1>7, <2>3, <2>4 DEF Scanned
  <2>6. j.checked => Exhausted(t)
    BY <1>7, <2>3, <2>5 DEF Exhausted, Clear
  <2>7. /\ job'[t].err = j.err /\ job'[t].checked = j.checked /\ job'[t].idx = j.idx
        /\ job'[t].stages = j.stages /\ job'[t].result = j.result
    BY <1>2 DEF Now
  <2> QED BY <1>2, <1>4, <1>5, <1>6, <1>7, <1>8, <2>5, <2>6, <2>7, ZenonT(60) DEF Thorough, Scanning, Extending
<1>9. CASE job'[t].pc \in {"lookup", "link"}
  <2>1. /\ job'[t].err = j.err /\ job'[t].checked = j.checked /\ job'[t].idx = j.idx
        /\ job'[t].stages = j.stages /\ job'[t].result = j.result
    BY <1>2 DEF Now
  <2> QED BY <1>2, <1>4, <1>5, <1>6, <1>7, <1>9, <2>1 DEF Thorough, Scanning, Extending
<1> QED BY <1>2, <1>8, <1>9 DEF Now

LEMMA StagesTail ==
  ASSUME NEW s \in Seq({"tz", "files", "common"}), s # <<>>
  PROVE  /\ Awaits(s) /\ Head(s) # "common" => Awaits(Tail(s))
         /\ Awaits(s) /\ Head(s) = "common" => \A i \in 1..Len(Tail(s)) : Tail(s)[i] # "common"
         /\ (\A i \in 1..Len(s) : s[i] # "common") =>
              Head(s) # "common" /\ \A i \in 1..Len(Tail(s)) : Tail(s)[i] # "common"
<1>1. /\ Len(s) \in Nat /\ Len(s) > 0 /\ Head(s) = s[1] /\ Len(Tail(s)) = Len(s) - 1
      /\ \A i \in 1..Len(s) - 1 : Tail(s)[i] = s[i + 1] /\ i + 1 \in 1..Len(s)
  OBVIOUS
<1>2. ASSUME Awaits(s), Head(s) # "common" PROVE Awaits(Tail(s))
  <2>1. PICK m \in 1..Len(s) : s[m] = "common" /\ \A k \in 1..Len(s) : s[k] = "common" => k = m
    BY <1>2 DEF Awaits
  <2>2. m # 1
    BY <1>1, <1>2, <2>1
  <2>3. m - 1 \in 1..Len(s) - 1 /\ (m - 1) + 1 = m
    BY <1>1, <2>2, SMTT(30)
  <2>4. m - 1 \in 1..Len(Tail(s)) /\ Tail(s)[m - 1] = "common"
    BY <1>1, <2>1, <2>3
  <2>5. ASSUME NEW k \in 1..Len(Tail(s)), Tail(s)[k] = "common" PROVE k = m - 1
    <3>1. k + 1 \in 1..Len(s) /\ s[k + 1] = "common"
      BY <1>1, <2>5
    <3>2. k + 1 = m
      BY <2>1, <3>1
    <3> QED BY <1>1, <3>2, SMTT(30)
  <2> QED BY <2>4, <2>5 DEF Awaits
<1>3. ASSUME Awaits(s), Head(s) = "common", NEW i \in 1..Len(Tail(s)) PROVE Tail(s)[i] # "common"
  <2>1. 1 \in 1..Len(s) /\ s[1] = "common" /\ i + 1 \in 1..Len(s) /\ i + 1 # 1 /\ Tail(s)[i] = s[i + 1]
    BY <1>1, <1>3
  <2> QED BY <1>3, <2>1 DEF Awaits
<1>4. ASSUME \A i \in 1..Len(s) : s[i] # "common"
      PROVE  Head(s) # "common" /\ \A i \in 1..Len(Tail(s)) : Tail(s)[i] # "common"
  <2>1. 1 \in 1..Len(s)
    BY <1>1, SMTT(30)
  <2> QED BY <1>1, <1>4, <2>1
<1> QED BY <1>2, <1>3, <1>4

LEMMA FilesSearch ==
  ASSUME Inv, SearchInv, NEW t \in Threads, LoadFromIndividualFiles(t) PROVE SearchInv'
<1> DEFINE j == job[t]
           e == j.err \/ Content(Head(j.stages), j.item) = "bad"
<1>1. Inv' /\ Typed /\ Typed' /\ Good(t)
  BY FilesInv DEF Inv
<1>2. /\ UNCHANGED <<world, array, cache, tried, opens>> /\ j.pc = "stage" /\ j.stages # <<>>
      /\ \/ Finish(t, "found", Absent)
         \/ /\ Only(t) /\ Now(t, "stage", Tail(j.stages), e, j.idx, j.checked, j.data)
            /\ Head(j.stages) # "common"
  BY <1>1, FilesNow
<1>3. Grows
  BY <1>1, <1>2, SameGrows
<1>4. CASE Finish(t, "found", Absent)
  <2>1. Only(t) /\ Asked(t) /\ job'[t].pc = "idle" /\ job'[t].result = "found"
    BY <1>2, <1>4, Finishes, HeaderFacts
  <2>2. Thorough(t)'
    BY <2>1 DEF Thorough, Scanning, Extending
  <2> QED BY <1>1, <1>2, <1>3, <2>1, <2>2, SearchStep, TriedStays
<1>5. CASE /\ Only(t) /\ Now(t, "stage", Tail(j.stages), e, j.idx, j.checked, j.data)
           /\ Head(j.stages) # "common"
  <2> SUFFICES ASSUME NoBad PROVE Thorough(t)'
    BY <1>1, <1>2, <1>3, <1>5, SearchStep, TriedStays
  <2>1. /\ Thorough(t) /\ j.idx \in Nat /\ j.stages \in Seq({"tz", "files", "common"})
        /\ j.item \in Items
    BY <1>1, JobTyped DEF SearchInv
  <2>2. Head(j.stages) \in Places
    <3>1. Head(j.stages) \in {"tz", "files", "common"}
      BY <1>2, <2>1
    <3> QED BY <1>5, <3>1 DEF Places
  <2>3. e = TRUE => j.err
    BY <2>1, <2>2 DEF NoBad
  <2> HIDE DEF e
  <2>4. /\ job'[t].pc = "stage" /\ job'[t].stages = Tail(j.stages) /\ job'[t].err = e
        /\ job'[t].idx = j.idx /\ job'[t].icu = j.icu /\ job'[t].item = j.item
        /\ job'[t].had = j.had /\ job'[t].result = j.result /\ j.result = "none"
    BY <1>1, <1>2, <1>5 DEF Now, Asked, Good
  <2>5. /\ Exhausted(t) => Exhausted(t)'
        /\ (\A h \in j.had : Listed(h)) => \A h \in job'[t].had : Listed(h)'
    BY <1>1, <1>3, <2>4, SearchKept
  <2>6. /\ Awaits(j.stages) => Awaits(Tail(j.stages))
        /\ (\A i \in 1..Len(j.stages) : j.stages[i] # "common") =>
             \A i \in 1..Len(Tail(j.stages)) : Tail(j.stages)[i] # "common"
    BY <1>2, <1>5, <2>1, StagesTail
  <2> DEFINE r == Tail(j.stages)
  <2>7. CASE ~j.icu
    BY <2>4, <2>7, OtherPackages
  <2>8. CASE j.icu /\ j.idx = 0
    <3>1. ~j.err /\ Awaits(j.stages) /\ \A h \in j.had : Listed(h)
      BY <1>2, <2>1, <2>8 DEF Thorough
    <3>2. ~e /\ Awaits(r)
      BY <2>3, <2>6, <3>1 DEF e
    <3>4. job'[t].stages = r /\ ~job'[t].err
      BY <2>4, <3>2
    <3> HIDE DEF r
    <3>3. Awaits(job[t].stages)' /\ ~job'[t].err
      BY <3>2, <3>4
    <3> QED BY <2>4, <2>5, <2>8, <3>1, <3>3 DEF Thorough, Scanning, Extending
  <2>9. CASE j.icu /\ j.idx > 0
    <3>1. /\ Exhausted(t) /\ (\A h \in j.had : Listed(h))
          /\ \A i \in 1..Len(j.stages) : j.stages[i] # "common"
      BY <1>2, <2>1, <2>9 DEF Thorough
    <3> QED BY <2>4, <2>5, <2>6, <2>9, <3>1 DEF Thorough, Scanning, Extending
  <2> QED BY <2>1, <2>7, <2>8, <2>9
<1> QED BY <1>2, <1>4, <1>5

LEMMA CommonSearch ==
  ASSUME Inv, SearchInv, NEW t \in Threads, LoadFromCommonData(t) PROVE SearchInv'
<1> DEFINE j == job[t]
<1>1. Inv' /\ Typed /\ Typed' /\ Good(t)
  BY CommonInv DEF Inv
<1>2. /\ UNCHANGED <<world, array, cache, tried, opens>> /\ Only(t) /\ j.pc = "stage"
      /\ j.stages # <<>>
      /\ Now(t, IF j.icu THEN "slot" ELSE "find", Tail(j.stages), j.err, 1, FALSE, j.data)
  BY <1>1, CommonNow
<1>3. Grows
  BY <1>1, <1>2, SameGrows
<1> SUFFICES ASSUME NoBad PROVE Thorough(t)'
  BY <1>1, <1>2, <1>3, SearchStep, TriedStays
<1>4. /\ Thorough(t) /\ j.idx \in Nat /\ j.stages \in Seq({"tz", "files", "common"})
  BY <1>1, JobTyped DEF SearchInv
<1>5. /\ job'[t].pc = IF j.icu THEN "slot" ELSE "find"
      /\ job'[t].stages = Tail(j.stages) /\ job'[t].err = j.err /\ job'[t].checked = FALSE
      /\ job'[t].idx = 1 /\ job'[t].icu = j.icu /\ job'[t].item = j.item
      /\ job'[t].had = j.had /\ job'[t].result = j.result /\ j.result = "none"
  BY <1>1, <1>2 DEF Now, Asked, Good
<1>6. (\A h \in j.had : Listed(h)) => \A h \in job'[t].had : Listed(h)'
  BY <1>1, <1>3, <1>5, SearchKept
<1>7. Head(j.stages) = "common"
  BY DEF LoadFromCommonData
<1>8. CASE ~j.icu
  BY <1>5, <1>8, OtherPackages
<1>9. CASE j.icu
  <2>1. /\ Awaits(j.stages) => \A i \in 1..Len(Tail(j.stages)) : Tail(j.stages)[i] # "common"
        /\ ~\A i \in 1..Len(j.stages) : j.stages[i] # "common"
    BY <1>2, <1>4, <1>7, StagesTail
  <2>2. j.idx = 0 /\ \A h \in j.had : Listed(h)
    BY <1>2, <1>4, <1>9, <2>1 DEF Thorough
  <2>3. ~j.err /\ Awaits(j.stages)
    BY <1>2, <1>4, <1>9, <2>2 DEF Thorough
  <2>4. \A i \in 1..Len(job'[t].stages) : job'[t].stages[i] # "common"
    BY <1>5, <2>1, <2>3
  <2> QED BY <1>5, <1>6, <1>9, <2>2, <2>3, <2>4 DEF Thorough, Scanning, Extending
<1> QED BY <1>8, <1>9

LEMMA NotFoundSearch ==
  ASSUME Inv, SearchInv, NEW t \in Threads, NotFound(t) PROVE SearchInv'
<1> DEFINE j == job[t]
<1>1. /\ Inv' /\ Only(t) /\ Asked(t) /\ job'[t].pc = "idle" /\ job'[t].result = "missing"
      /\ j.pc = "stage" /\ j.stages = <<>> /\ UNCHANGED <<world, array, cache, tried, opens>>
  BY NotFoundInv
<1>2. Typed /\ Typed' /\ Grows
  BY <1>1, SameGrows DEF Inv
<1> SUFFICES ASSUME NoBad PROVE Thorough(t)'
  BY <1>1, <1>2, SearchStep, TriedStays
<1>3. Thorough(t) /\ j.idx \in Nat /\ j.icu \in BOOLEAN
  BY <1>2, JobTyped DEF SearchInv
<1>4. job'[t].item = j.item /\ job'[t].had = j.had /\ job'[t].icu = j.icu
  BY <1>1 DEF Asked
<1>5. Exhausted(t) => Exhausted(t)'
  BY <1>2, <1>4, SearchKept
<1>6. CASE j.icu
  <2>1. ~Awaits(j.stages)
    <3>1. 1..Len(j.stages) = {}
      BY <1>1
    <3> QED BY <3>1 DEF Awaits
  <2>2. Exhausted(t)
    BY <1>1, <1>3, <1>6, <2>1 DEF Thorough
  <2> QED BY <1>1, <1>5, <2>2 DEF Thorough, Scanning, Extending
<1> QED BY <1>3, <1>4, <1>6, OtherPackages

LEMMA LookupSearch ==
  ASSUME Inv, SearchInv, NEW t \in Threads, Lookup(t) PROVE SearchInv'
<1> DEFINE j == job[t]
           v == Content(j.data.pkg, j.item)
<1>1. Inv' /\ Typed /\ Typed' /\ Good(t)
  BY LookupInv DEF Inv
<1>2. /\ j.pc = "lookup" /\ UNCHANGED <<world, array, cache, tried, opens>>
      /\ \/ Finish(t, "found", j.data)
         \/ /\ Only(t)
            /\ Now(t, IF j.icu THEN "slot" ELSE "stage", j.stages, v = "bad", j.idx + 1, j.checked, j.data)
  BY <1>1, LookupNow
<1>3. Grows
  BY <1>1, <1>2, SameGrows
<1>4. CASE Finish(t, "found", j.data)
  <2> DEFINE k == [Idle EXCEPT !.item = j.item, !.icu = j.icu, !.had = j.had, !.result = "found",
                               !.data = j.data]
  <2>1. j.item \in Items /\ j.icu \in BOOLEAN /\ j.had \in SUBSET Headers /\ j.data \in Headers
    BY <1>1, JobTyped
  <2>2. k \in Job /\ k.pc = "idle" /\ k.result = "found"
    BY <2>1, IdleFacts DEF Job
  <2>3. Only(t) /\ job'[t] = k
    BY <1>1, <1>4, <2>2, SetJob DEF Finish
  <2> HIDE DEF k
  <2>4. Thorough(t)'
    BY <2>2, <2>3 DEF Thorough, Scanning, Extending
  <2> QED BY <1>1, <1>2, <1>3, <2>3, <2>4, SearchStep, TriedStays
<1>5. CASE /\ Only(t)
           /\ Now(t, IF j.icu THEN "slot" ELSE "stage", j.stages, v = "bad", j.idx + 1, j.checked, j.data)
  <2> SUFFICES ASSUME NoBad PROVE Thorough(t)'
    BY <1>1, <1>2, <1>3, <1>5, SearchStep, TriedStays
  <2>1. Thorough(t) /\ j.idx \in Nat /\ j.item \in Items
    BY <1>1, JobTyped DEF SearchInv
  <2>2. /\ job'[t].pc = IF j.icu THEN "slot" ELSE "stage"
        /\ job'[t].stages = j.stages /\ job'[t].err = (v = "bad") /\ job'[t].checked = j.checked
        /\ job'[t].idx = j.idx + 1 /\ job'[t].icu = j.icu /\ job'[t].item = j.item
        /\ job'[t].had = j.had /\ job'[t].result = j.result /\ j.result = "none"
    BY <1>1, <1>2, <1>5 DEF Now, Asked, Good
  <2>3. /\ (\A h \in j.had : Listed(h)) => \A h \in job'[t].had : Listed(h)'
        /\ Has("icudt") => Has("icudt")'
    BY <1>1, <1>3, <2>2, SearchKept
  <2>4. CASE ~j.icu
    BY <2>2, <2>4, OtherPackages
  <2>5. CASE j.icu
    <3>1. j.idx \in 1..Len(array) /\ j.data = array[j.idx]
      BY <1>1, <1>2, <2>1, <2>5 DEF Good, Scanning
    <3>2. j.data \in Packages
      BY <1>1, <3>1, SMTT(30) DEF Typed
    <3>3. v # "bad"
      BY <1>1, <2>1, <3>2, Acceptable
    <3> HIDE DEF v
    <3>4. ~job'[t].err /\ job'[t].pc = "slot"
      BY <2>2, <2>5, <3>3
    <3>5. /\ \A h \in j.had : Listed(h)
          /\ j.checked => Has("icudt")
          /\ \A i \in 1..Len(j.stages) : j.stages[i] # "common"
      BY <1>2, <2>1, <2>5, <3>1 DEF Thorough, Scanning
    <3> QED BY <2>2, <2>3, <2>5, <3>4, <3>5 DEF Thorough, Scanning, Extending
  <2> QED BY <2>4, <2>5
<1> QED BY <1>2, <1>4, <1>5

LEMMA LinkSearch ==
  ASSUME Inv, SearchInv, NEW t \in Threads, AddLinkedIn(t) PROVE SearchInv'
<1> DEFINE j == job[t]
<1>1. Inv' /\ Typed /\ Typed' /\ Good(t)
  BY LinkInv DEF Inv
<1>2. /\ Only(t) /\ j.pc = "link" /\ UNCHANGED <<world, cache, tried, opens>> /\ Grows
  BY LinkNow
<1>3. /\ job'[t].pc = "lookup" /\ job'[t].stages = j.stages /\ job'[t].err = j.err
      /\ job'[t].checked = j.checked /\ job'[t].idx = j.idx /\ job'[t].icu = j.icu
      /\ job'[t].item = j.item /\ job'[t].had = j.had /\ job'[t].result = j.result
  BY LinkNow DEF Now, Asked
<1> SUFFICES ASSUME NoBad PROVE Thorough(t)'
  BY <1>1, <1>2, SearchStep, TriedStays
<1>4. Thorough(t) /\ j.icu /\ j.result = "none" /\ j.idx > 0
  BY <1>1, <1>2, JobTyped, SMTT(30) DEF SearchInv, Good, Scanning
<1>5. /\ (\A h \in j.had : Listed(h)) => \A h \in job'[t].had : Listed(h)'
      /\ Has("icudt") => Has("icudt")'
  BY <1>1, <1>2, <1>3, SearchKept
<1> QED BY <1>2, <1>3, <1>4, <1>5 DEF Thorough, Scanning, Extending

LEMMA CacheSearch ==
  ASSUME Inv, SearchInv, NEW t \in Threads, CacheDataItem(t) PROVE SearchInv'
<1> DEFINE j == job[t]
<1>1. Inv' /\ Typed /\ Typed' /\ Good(t) /\ Grows
  BY CacheInv DEF Inv
<1>2. Only(t) /\ j.pc = "cache" /\ UNCHANGED <<world, array, tried, opens>>
  BY CacheNow
<1>3. /\ job'[t].pc = IF j.icu THEN "share" ELSE "lookup"
      /\ job'[t].stages = j.stages /\ job'[t].err = j.err
      /\ job'[t].checked = j.checked /\ job'[t].idx = j.idx /\ job'[t].icu = j.icu
      /\ job'[t].item = j.item /\ job'[t].had = j.had /\ job'[t].result = j.result
  BY CacheNow DEF Now, Asked
<1> SUFFICES ASSUME NoBad PROVE Thorough(t)'
  BY <1>1, <1>2, SearchStep, TriedStays
<1>4. Thorough(t) /\ j.result = "none"
  BY <1>1, <1>2 DEF SearchInv, Good
<1>5. /\ (\A h \in j.had : Listed(h)) => \A h \in job'[t].had : Listed(h)'
      /\ Scanned(t) => Scanned(t)'
  BY <1>1, <1>3, SearchKept
<1>6. CASE ~j.icu
  BY <1>3, <1>6, OtherPackages
<1>7. CASE j.icu
  BY <1>2, <1>3, <1>4, <1>5, <1>7 DEF Thorough, Scanning, Extending
<1> QED BY <1>6, <1>7

LEMMA ShareSearch ==
  ASSUME Inv, SearchInv, NEW t \in Threads, ShareExtended(t) PROVE SearchInv'
<1> DEFINE j == job[t]
<1>1. Inv' /\ Typed /\ Typed' /\ Good(t) /\ Grows /\ j.data \in Packages /\ j.data.pkg = "icudt"
  BY ShareInv DEF Inv
<1>2. /\ Only(t) /\ j.pc = "share" /\ UNCHANGED <<world, cache, tried, opens>>
      /\ SetCommonICUData(j.data) /\ Now(t, "tried", j.stages, j.err, j.idx, j.checked, j.data)
  BY <1>1, ShareNow
<1>3. /\ job'[t].pc = "tried" /\ job'[t].stages = j.stages /\ job'[t].err = j.err
      /\ job'[t].checked = j.checked /\ job'[t].idx = j.idx /\ job'[t].icu = j.icu
      /\ job'[t].item = j.item /\ job'[t].had = j.had /\ job'[t].result = j.result
  BY <1>2 DEF Now, Asked
<1> SUFFICES ASSUME NoBad PROVE Thorough(t)'
  BY <1>1, <1>2, SearchStep, TriedStays
<1>4. Thorough(t) /\ j.result = "none" /\ j.icu
  BY <1>1, <1>2 DEF SearchInv, Good
<1>5. /\ (\A h \in j.had : Listed(h)) => \A h \in job'[t].had : Listed(h)'
      /\ Scanned(t) => Scanned(t)'
  BY <1>1, <1>3, SearchKept
<1>6. Extended'
  <2>1. /\ Listed(j.data) \/ Full => array' = array
        /\ ~Listed(j.data) /\ ~Full => Len(array') = Len(array) + 1 /\ array'[Len(array) + 1] = j.data
    BY <1>1, <1>2, Appends
  <2>2. CASE Listed(j.data) \/ Full
    <3>1. Has("icudt") \/ Full
      BY <1>1, <2>2 DEF Listed, Has
    <3>2. Has("icudt")' \/ Full'
      BY <1>2, <2>1, <2>2, <3>1 DEF Has, Full, Slots
    <3> QED BY <3>2 DEF Extended
  <2>3. CASE ~Listed(j.data) /\ ~Full
    <3>1. Len(array) + 1 \in 1..Len(array') /\ array'[Len(array) + 1].pkg = "icudt"
      BY <1>1, <2>1, <2>3, SMTT(30) DEF Typed
    <3> QED BY <3>1 DEF Extended, Has
  <2> QED BY <2>2, <2>3
<1> QED BY <1>2, <1>3, <1>4, <1>5, <1>6 DEF Thorough, Scanning, Extending

LEMMA OpenChoiceSearch ==
  ASSUME Inv, SearchInv, NEW t \in Threads, NEW i \in Items, NEW b \in BOOLEAN, OpenChoice(t, i, b)
  PROVE  SearchInv'
<1> DEFINE k == job'[t]
<1>1. Inv' /\ Typed /\ Typed'
  BY OpenChoiceInv DEF Inv
<1>2. /\ Only(t) /\ UNCHANGED <<world, array, cache, tried>>
      /\ k.pc = "stage" /\ ~k.err /\ k.idx = 0 /\ k.result = "none" /\ k.had = Range(array)
      /\ Awaits(k.stages)
  BY <1>1, OpenChoiceNow, ZenonT(60)
<1>3. Grows
  BY <1>1, <1>2, SameGrows
<1>4. \A h \in k.had : Listed(h)'
  BY <1>1, <1>2, Lists DEF Listed
<1>5. Thorough(t)'
  BY <1>2, <1>4 DEF Thorough, Scanning, Extending
<1> QED BY <1>1, <1>2, <1>3, <1>5, SearchStep, TriedStays

(* The application's calls.                                                *)
LEMMA CallsSearch ==
  ASSUME Inv, SearchInv, SetCommonData \/ SetAppData PROVE SearchInv'
<1>1. Inv' /\ Typed /\ Typed' /\ UNCHANGED <<job, tried>>
  BY SetCommonDataInv, SetAppDataInv DEF Inv, SetCommonData, SetAppData
<1>2. Grows
  <2>1. CASE SetCommonData
    BY <1>1, <2>1, Appends, HeaderFacts DEF SetCommonData
  <2>2. CASE SetAppData
    BY <1>1, <2>2, SameGrows DEF SetAppData
  <2> QED BY <2>1, <2>2
<1>3. NoBad' <=> NoBad
  BY <1>1, <1>2, GrowthKeeps DEF NoBad
<1>4. NoBad => \A u \in Threads : Thorough(u)'
  BY <1>1, <1>2, OtherThorough DEF SearchInv
<1>5. NoBad => (tried' => Extended')
  BY <1>1, <1>2, TriedStays
<1> QED BY <1>3, <1>4, <1>5 DEF SearchInv

LEMMA FreshSearch == Unused => SearchInv
<1> SUFFICES ASSUME Unused PROVE SearchInv
  OBVIOUS
<1>1. ~tried /\ \A t \in Threads : job[t] = Idle
  BY DEF Unused
<1>2. ASSUME NEW t \in Threads PROVE Thorough(t)
  BY <1>1, IdleFacts DEF Thorough, Scanning, Extending
<1> QED BY <1>1, <1>2 DEF SearchInv

LEMMA CleanupSearch ==
  ASSUME Inv, Cleanup PROVE SearchInv'
<1>1. Unused'
  BY CleanupInv
<1> QED BY <1>1, FreshSearch, PTL

LEMMA NextSearch ==
  ASSUME Inv, SearchInv, [Next]_vars PROVE SearchInv'
<1>1. ASSUME NEW t \in Threads, Step(t) PROVE SearchInv'
  BY <1>1, FilesSearch, CommonSearch, NotFoundSearch, OpenSlotSearch, LinkSearch, LookupSearch,
     ExtendSearch, FindSearch, MapFileSearch, CacheSearch, ShareSearch, RememberSearch,
     ConfirmSearch DEF Step
<1>2. CASE Next
  BY <1>1, <1>2, OpenChoiceSearch, CallsSearch, CleanupSearch DEF Next
<1>3. CASE UNCHANGED vars
  <2>1. UNCHANGED <<world, array, cache, tried, job, opens>>
    BY <1>3 DEF vars
  <2>2. Typed /\ Typed' /\ Grows
    BY <1>3, <2>1, NextInv, SameGrows DEF Inv
  <2>3. NoBad' <=> NoBad
    BY <2>2, GrowthKeeps DEF NoBad
  <2>4. NoBad => \A u \in Threads : Thorough(u)'
    BY <2>1, <2>2, OtherThorough DEF SearchInv
  <2>5. NoBad => (tried' => Extended')
    BY <1>3, <2>1, <2>2, NextInv, TriedStays
  <2> QED BY <2>3, <2>4, <2>5 DEF SearchInv
<1> QED BY <1>2, <1>3

LEMMA NothingMissed ==
  ASSUME Inv, SearchInv PROVE NoSpuriousMiss
<1> SUFFICES ASSUME NoBad, NEW t \in Threads, Misses(t) PROVE FALSE
  BY DEF NoSpuriousMiss, NoBad
<1>1. job[t].icu /\ job[t].result = "missing"
  BY DEF Misses
<1>2. Exhausted(t)
  BY <1>1 DEF SearchInv, Thorough
<1>3. PICK p \in Reachable(t) : Content(p, job[t].item) = "good"
  BY DEF Misses
<1>4. \A h \in job[t].had : Content(h.pkg, job[t].item) # "good"
  BY <1>2 DEF Exhausted, Scanned
<1>5. /\ p \in {"linked"} \cup (world.onDisk \cap {"icudt"})
      /\ Len(array) < Slots \/ \E h \in Range(array) : h.pkg = p
  BY <1>3, <1>4 DEF Reachable
<1>6. Clear(t, p)
  BY <1>2, <1>5 DEF Exhausted, Scanned
<1>7. Full /\ ~Has(p)
  BY <1>3, <1>6 DEF Clear
<1>8. Len(array) \in Nat /\ Slots \in Nat
  BY WorldFacts, SMTT(30) DEF Inv, Typed
<1>9. ~(Len(array) < Slots)
  BY <1>7, <1>8 DEF Full
<1>10. PICK h \in Range(array) : h.pkg = p
  BY <1>5, <1>9
<1>11. Listed(h)
  BY Lists DEF Inv
<1> QED BY <1>7, <1>10, <1>11 DEF Listed, Has

(***************************************************************************)
(* Where every item is acceptable, udata_open reports an item missing only *)
(* if no package it could search has it: a package file that another       *)
(* thread is mapping, listing or marking as tried is never overlooked.     *)
(***************************************************************************)
THEOREM NothingIsOverlooked == Spec => []NoSpuriousMiss
<1>1. Init => Inv /\ SearchInv
  <2>1. Init => Unused
    BY DEF Init, Unused
  <2> QED BY <2>1, Fresh, FreshSearch
<1>2. Inv /\ SearchInv /\ [Next]_vars => Inv' /\ SearchInv'
  BY NextInv, NextSearch
<1>3. Inv /\ SearchInv => NoSpuriousMiss
  BY NothingMissed
<1> QED BY <1>1, <1>2, <1>3, PTL DEF Spec
=============================================================================
