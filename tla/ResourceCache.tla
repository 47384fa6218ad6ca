--------------------------- MODULE ResourceCache ----------------------------
(***************************************************************************)
(* The cache of resource bundle data (uresbund.cpp): entries are shared by *)
(* all open bundles, linked to their fallback parents, to the entry that   *)
(* an alias stands for and to the pool of shared keys, and counted.        *)
(*                                                                         *)
(* Every operation runs under resbMutex from its first read to its last    *)
(* write, so each is one step; what is hard is the sequence of operations, *)
(* because links made for one caller are found by the next.                *)
(* An entry is named by its path and locale: there is never more than one. *)
(***************************************************************************)
EXTENDS Integers, Sequences, FiniteSets

CONSTANTS
  Locales,    \* names of bundles, "root" and "pool" among them
  Chop,       \* [Locales -> Locales \cup {""}]: chopLocale, "" when it fails
  Data,       \* [Paths \X Locales -> Bundle]: what res_load finds in the data
  Bundles,    \* the UResourceBundle objects of the callers
  Requests,   \* SUBSET (Paths \X Locales): what callers open
  Directs,    \* SUBSET Requests: what they open with ures_openDirect as well
  Defaults,   \* values of the default locale
  Faults,     \* SUBSET ({"malloc", "put"} \X (Paths \X Locales)): allocations
              \* that may fail, when the entry is made and when it is cached
  MaxFailures \* bound: allocations that fail in a behaviour

(* The data package of ICU and the one with the user's overrides.          *)
Paths == {"dat", "usr"}
NoEntry == <<"", "">>
Bundle == [real : BOOLEAN, alias : Locales \cup {""}, pooled : BOOLEAN,
           parent : Locales \cup {""}, parentIsRoot : BOOLEAN, noFallback : BOOLEAN]

VARIABLES
  cache,      \* the entries by path and name
  bundles,    \* [Bundles -> what the object refers to]: fData, fHasFallback;
              \* history: the request and the status it ended with
  default,    \* uloc_getDefault()
  leaked,     \* history: entries that u_cleanup left behind
  failures    \* history: allocations that failed

vars == <<cache, bundles, default, leaked, failures>>

Closed == [entry |-> NoEntry, fallback |-> FALSE, request |-> NoEntry, status |-> "ok"]
Failure(st) == st \in {"nomem", "invalid", "missing"}

(* fCountExisting is unsigned: below zero it is a large number, which like *)
(* the negative number here is not zero.                                   *)
Entry == [count : Int, parent : Paths \X Locales \cup {NoEntry},
          alias : Paths \X Locales \cup {NoEntry},
          pool : Paths \X Locales \cup {NoEntry},
          bogus : {"ok", "fallback", "invalid", "nomem"}]

(* Types; every link and every open bundle leads to an entry in the cache. *)
TypeOK ==
  /\ DOMAIN cache \subseteq Paths \X Locales
  /\ \A e \in DOMAIN cache :
       /\ cache[e] \in Entry
       /\ {cache[e].parent, cache[e].alias, cache[e].pool} \subseteq DOMAIN cache \cup {NoEntry}
  /\ \A b \in Bundles : bundles[b].entry \in DOMAIN cache \cup {NoEntry}
  /\ default \in Defaults
  /\ leaked \subseteq Paths \X Locales
  /\ failures \in 0 .. MaxFailures

Init ==
  /\ cache = <<>>
  /\ bundles = [b \in Bundles |-> Closed]
  /\ default = CHOOSE d \in Defaults : TRUE
  /\ leaked = {}
  /\ failures = 0

-----------------------------------------------------------------------------
(* Pieces of the cache c.                                                  *)

Count(c, e, n) == [c EXCEPT ![e].count = @ + n]

RECURSIVE Chain(_, _)
Chain(c, e) == IF e = NoEntry THEN <<>> ELSE <<e>> \o Chain(c, c[e].parent)

RECURSIVE CountChain(_, _, _)
CountChain(c, e, n) ==
  IF e = NoEntry THEN c ELSE CountChain(Count(c, e, n), c[e].parent, n)

RECURSIVE Prefixes(_)
Prefixes(n) == IF n = "" THEN {} ELSE {n} \cup Prefixes(Chop[n])

RECURSIVE RealEnd(_, _)
RealEnd(c, e) == IF c[e].alias = NoEntry THEN e ELSE RealEnd(c, c[e].alias)

(* free_entry gives up the pool and the real end of the alias chain.       *)
FreeEntry(c, pool, alias) ==
  LET c1 == IF pool = NoEntry THEN c ELSE Count(c, pool, -1)
  IN IF alias = NoEntry THEN c1 ELSE Count(c1, RealEnd(c1, alias), -1)

(* Mutant: one pass only.                                                  *)
FlushOnePass(c) == [e \in {x \in DOMAIN c : c[x].count # 0} |-> c[e]]

(* ures_flushCache: entries that nothing counts go, and again while that   *)
(* uncounts others.                                                        *)
RECURSIVE Flush(_)
Flush(c) ==
  LET unused == {e \in DOMAIN c : c[e].count = 0}
      e == CHOOSE x \in unused : TRUE
      rest == [x \in DOMAIN c \ {e} |-> c[x]]
  IN IF unused = {} THEN c ELSE Flush(FreeEntry(rest, c[e].pool, c[e].alias))

-----------------------------------------------------------------------------
(* init_entry: find or load an entry, and count it.  The failing           *)
(* allocation of this call, if any, is nomem.                              *)

Counted(c, key, st) ==
  LET r == RealEnd(c, key)
      b == c[r].bogus
  IN [c |-> Count(c, r, 1), r |-> r, st |-> IF b # "ok" /\ ~Failure(st) THEN b ELSE st]

RECURSIVE InitEntry(_, _, _)

(* The new entry, with its pool p and the end of its alias a, is cached.   *)
PutEntry(key, nomem, p, a) ==
  LET d == Data[key]
      new == [count |-> 0, parent |-> NoEntry, alias |-> a.r, pool |-> p.r,
              bogus |-> IF d.real THEN p.st ELSE "fallback"]
      put == [x \in DOMAIN a.c \cup {key} |-> IF x = key THEN new ELSE a.c[x]]
  IN IF nomem = <<"put", key>>
     THEN [c |-> FreeEntry(a.c, p.r, a.r), r |-> NoEntry, st |-> "nomem"]
     ELSE Counted(put, key, IF d.real THEN a.st ELSE "fallback")

(* getPoolEntry takes only a pool that has data.                           *)
PoolEntry(p) ==
  LET bogus == ~Failure(p.st) /\ p.c[p.r].bogus # "ok"
  IN IF bogus THEN [p EXCEPT !.st = "invalid"] ELSE p

AliasEntry(key, nomem, p) ==
  LET d == Data[key]
      a == IF d.real /\ d.alias # "" /\ p.st = "ok"
           THEN InitEntry(p.c, <<key[1], d.alias>>, nomem)
           ELSE [p EXCEPT !.r = NoEntry]
  IN PutEntry(key, nomem, p, a)

InitEntry(c, key, nomem) ==
  LET none == [c |-> c, r |-> NoEntry, st |-> "ok"]
      p == IF Data[key].real /\ Data[key].pooled
           THEN PoolEntry(InitEntry(c, <<key[1], "pool">>, nomem)) ELSE none
  IN CASE key \in DOMAIN c -> Counted(c, key, "ok")
       [] key \notin DOMAIN c /\ nomem = <<"malloc", key>> -> [none EXCEPT !.st = "nomem"]
       [] OTHER -> AliasEntry(key, nomem, p)

(* findFirstExisting: chop the name until there is data for it.            *)
RECURSIVE FindFirstExisting(_, _, _)

(* s with the entry i of its name, or else with that of a shorter name.    *)
Existing(s, path, nomem, i) ==
  LET real == i.c[i.r].bogus = "ok"
      name == IF real THEN i.r[2] ELSE s.name
      s1 == [s EXCEPT !.c = IF real THEN i.c ELSE Count(i.c, i.r, -1),
                      !.r = IF real THEN i.r ELSE NoEntry,
                      !.st = IF ~real THEN "fallback" ELSE IF i.st = "ok" THEN @ ELSE i.st,
                      !.isDefault = s.name \in Prefixes(default),
                      !.isRoot = name = "root",
                      !.chopped = Chop[name] # "",
                      !.name = IF Chop[name] = "" THEN name ELSE Chop[name]]
  IN CASE Failure(i.st) ->
            [s EXCEPT !.c = i.c, !.r = NoEntry, !.chopped = TRUE, !.st = i.st]
       [] ~Failure(i.st) /\ Chop[name] # "" /\ ~real -> FindFirstExisting(s1, path, nomem)
       [] OTHER -> s1

FindFirstExisting(s, path, nomem) ==
  IF Failure(s.st) THEN [s EXCEPT !.r = NoEntry, !.chopped = TRUE]
  ELSE Existing(s, path, nomem, InitEntry(s.c, <<path, s.name>>, nomem))

(* loadParentsExceptRoot: link e1 to its parents until one has a parent.   *)
RECURSIVE LoadParents(_, _, _, _, _)

(* Mutant: the explicit parent is not looked for.                          *)
LoadParentsByName(c, e1, name, usr, nomem) ==
  LET e2 == InitEntry(c, <<e1[1], name>>, nomem)
  IN CASE name = "" \/ c[e1].parent # NoEntry \/ Data[e1].noFallback \/ Data[e1].parentIsRoot ->
            [c |-> c, e1 |-> e1, st |-> "ok"]
       [] Failure(e2.st) -> [c |-> e2.c, e1 |-> e1, st |-> e2.st]
       [] OTHER -> LoadParents([e2.c EXCEPT ![e1].parent = e2.r], e2.r, Chop[name], usr, nomem)

(* Mutant: an override found later is put into links that are in use.      *)
LoadParentsAgain(c, e1, name, usr, nomem) ==
  LET e2 == InitEntry(c, <<e1[1], name>>, nomem)
      u2 == InitEntry(e2.c, <<"usr", name>>, nomem)
  IN CASE name = "" \/ Failure(e2.st) -> [c |-> c, e1 |-> e1, st |-> "ok"]
       [] name # "" /\ usr /\ u2.c[u2.r].bogus = "ok" ->
            LoadParents([u2.c EXCEPT ![e1].parent = u2.r, ![u2.r].parent = e2.r], e2.r, Chop[name], usr, nomem)
       [] OTHER -> LoadParents([e2.c EXCEPT ![e1].parent = e2.r], e2.r, Chop[name], usr, nomem)

(* The override u2, if there is one, goes between e1 and its parent e2.    *)
LinkParent(e1, e2, u2, usr) ==
  CASE ~usr -> [e2.c EXCEPT ![e1].parent = e2.r]
    [] usr /\ u2.c[u2.r].bogus = "ok" /\ ~Failure(u2.st) ->
         [u2.c EXCEPT ![e1].parent = u2.r, ![u2.r].parent = e2.r]
    [] OTHER -> [u2.c EXCEPT ![e1].parent = e2.r, ![u2.r].count = 0]

LoadMoreParents(e1, e2, n, usr, nomem) ==
  LET u2 == IF usr THEN InitEntry(e2.c, <<"usr", n>>, nomem) ELSE e2
  IN IF Failure(e2.st) THEN [c |-> e2.c, e1 |-> e1, st |-> e2.st]
     ELSE LoadParents(LinkParent(e1, e2, u2, usr), e2.r, Chop[n], usr, nomem)

LoadParents(c, e1, name, usr, nomem) ==
  LET d == Data[e1]
      n == IF d.parent # "" THEN d.parent ELSE name
  IN IF name = "" \/ c[e1].parent # NoEntry \/ d.noFallback \/ d.parentIsRoot \/ d.parent = "root"
     THEN [c |-> c, e1 |-> e1, st |-> "ok"]
     ELSE LoadMoreParents(e1, InitEntry(c, <<e1[1], n>>, nomem), n, usr, nomem)

InsertRootBundle(p, nomem) ==
  LET e2 == InitEntry(p.c, <<p.e1[1], "root">>, nomem)
  IN IF Failure(e2.st) THEN [p EXCEPT !.c = e2.c, !.st = e2.st]
     ELSE [p EXCEPT !.c = [e2.c EXCEPT ![p.e1].parent = e2.r], !.e1 = e2.r]

(* The user's override of the first bundle goes in front of it.            *)
InsertOverride(s, path, nomem) ==
  LET u1 == InitEntry(s.c, <<"usr", s.r[2]>>, nomem)
  IN CASE path # "dat" -> s
       [] path = "dat" /\ u1.r = NoEntry -> [s EXCEPT !.c = u1.c]
       [] path = "dat" /\ u1.r # NoEntry ->
            IF u1.c[u1.r].bogus = "ok"
            THEN [s EXCEPT !.c = [u1.c EXCEPT ![u1.r].parent = s.r], !.r = u1.r]
            ELSE [s EXCEPT !.c = [u1.c EXCEPT ![u1.r].count = 0]]

(* The rest of entryOpen for a bundle with data: parents, the root bundle, *)
(* and the count of the links that were there before.  e1 is the bundle    *)
(* found, s.r the one to return.                                           *)
Failed(c, st) == [c |-> c, r |-> NoEntry, st |-> st]

(* Mutants: links that were there before are not counted; the status of    *)
(* the search is not reported.                                             *)
CompleteChainUncounted(s, e1, path, nomem) ==
  LET p == IF s.chopped /\ ~s.isRoot
           THEN LoadParents(s.c, e1, s.name, path = "dat", nomem)
           ELSE [c |-> s.c, e1 |-> e1, st |-> "ok"]
      q == IF ~s.isRoot /\ p.e1[2] # "root" /\ p.c[p.e1].parent = NoEntry
           THEN InsertRootBundle(p, nomem) ELSE p
  IN IF Failure(q.st) THEN Failed(q.c, q.st) ELSE [c |-> q.c, r |-> s.r, st |-> s.st]

CompleteChainSilent(s, e1, path, nomem) ==
  [CompleteChainUncounted(s, e1, path, nomem) EXCEPT !.st = "ok"]

(* The root bundle ends a chain p that has no end yet.                     *)
AddRoot(s, p, nomem) ==
  IF /\ ~Failure(p.st)
     /\ ~s.isRoot /\ p.e1[2] # "root" /\ p.c[p.e1].parent = NoEntry /\ ~Data[s.r].noFallback
  THEN InsertRootBundle(p, nomem)
  ELSE p

(* Links below the last one made here were there before.                   *)
CountLinks(s, q) ==
  IF Failure(q.st) THEN Failed(q.c, q.st)
  ELSE [c |-> IF s.isRoot THEN q.c ELSE CountChain(q.c, q.c[q.e1].parent, 1),
        r |-> s.r, st |-> s.st]

CompleteChain(s, e1, path, nomem) ==
  LET p == IF s.chopped /\ ~s.isRoot
           THEN LoadParents(s.c, e1, s.name, path = "dat", nomem)
           ELSE [c |-> s.c, e1 |-> e1, st |-> "ok"]
  IN CountLinks(s, AddRoot(s, p, nomem))

(* entryOpen: the search for the locale, for the default locale and for    *)
(* the root bundle, each only if the one before found nothing.             *)
OpenRoot(s, path, nomem) ==
  LET s3 == FindFirstExisting([s EXCEPT !.name = "root"], path, nomem)
  IN IF s3.r = NoEntry THEN Failed(s3.c, "missing")
     ELSE [c |-> s3.c, r |-> s3.r, st |-> "default"]

OpenDefault(s2, path, nomem) ==
  IF s2.r # NoEntry THEN CompleteChain(s2, s2.r, path, nomem) ELSE OpenRoot(s2, path, nomem)

OpenFirst(s1, path, useDefault, nomem) ==
  LET tryDefault == useDefault /\ ~s1.isDefault /\ ~s1.isRoot
      s2 == FindFirstExisting([s1 EXCEPT !.name = default], path, nomem)
  IN CASE s1.r # NoEntry ->
            CompleteChain(InsertOverride(s1, path, nomem), s1.r, path, nomem)
       [] s1.r = NoEntry /\ tryDefault -> OpenDefault([s2 EXCEPT !.st = "default"], path, nomem)
       [] OTHER -> OpenRoot(s1, path, nomem)

EntryOpen(c, path, locale, useDefault, nomem) ==
  LET s0 == [c |-> c, r |-> NoEntry, name |-> locale, chopped |-> TRUE,
             isRoot |-> FALSE, isDefault |-> FALSE, st |-> "ok"]
  IN OpenFirst(FindFirstExisting(s0, path, nomem), path, useDefault, nomem)

(* entryOpenDirect: the bundle of that name or none, with its parents.     *)
OpenParents(i, locale, nomem) ==
  LET s == [isRoot |-> FALSE, r |-> i.r, st |-> "ok"]
      p == IF Chop[locale] \in {"", "root"} THEN [c |-> i.c, e1 |-> i.r, st |-> "ok"]
           ELSE LoadParents(i.c, i.r, Chop[locale], FALSE, nomem)
  IN IF locale # "root" /\ i.c[i.r].parent = NoEntry /\ ~Data[i.r].noFallback
     THEN CountLinks(s, AddRoot(s, p, nomem))
     ELSE CountLinks(s, [c |-> i.c, e1 |-> i.r, st |-> "ok"])

OpenNamed(i, locale, nomem) ==
  CASE Failure(i.st) -> Failed(i.c, i.st)
    [] ~Failure(i.st) /\ i.c[i.r].bogus # "ok" -> Failed(Count(i.c, i.r, -1), "missing")
    [] OTHER -> OpenParents(i, locale, nomem)

EntryOpenDirect(c, path, locale, nomem) ==
  OpenNamed(InitEntry(c, <<path, locale>>, nomem), locale, nomem)

-----------------------------------------------------------------------------
(* The operations of the API.                                              *)

NoMem == {<<"", NoEntry>>} \cup IF failures < MaxFailures THEN Faults ELSE {}

(* ures_openWithType, with a new object (a closed b) or one to fill in;    *)
(* what a filled-in object held is closed after the new entry is open.     *)
OpenWithType(b, key, type, nomem) ==
  LET o == IF type = "direct" THEN EntryOpenDirect(cache, key[1], key[2], nomem)
           ELSE EntryOpen(cache, key[1], key[2], type = "default", nomem)
  IN /\ type = "default" \/ bundles[b] = Closed
     /\ type = "direct" => key \in Directs
     /\ failures' = failures + IF nomem[1] = "" THEN 0 ELSE 1
     /\ IF o.r = NoEntry
        THEN cache' = o.c /\ UNCHANGED bundles
        ELSE /\ cache' = CountChain(o.c, bundles[b].entry, -1)
             /\ bundles' = [bundles EXCEPT ![b] =
                  [entry |-> o.r, request |-> key, status |-> o.st,
                   fallback |-> type # "direct" /\ ~Data[o.r].noFallback]]
     /\ UNCHANGED <<default, leaked>>

(* ures_close.                                                             *)
Close(b) ==
  /\ bundles[b] # Closed
  /\ cache' = CountChain(cache, bundles[b].entry, -1)
  /\ bundles' = [bundles EXCEPT ![b] = Closed]
  /\ UNCHANGED <<default, leaked, failures>>

(* ures_copyResb.                                                          *)
CopyResb(b, original) ==
  /\ b # original /\ bundles[original] # Closed
  /\ cache' = CountChain(CountChain(cache, bundles[b].entry, -1), bundles[original].entry, 1)
  /\ bundles' = [bundles EXCEPT ![b] = bundles[original]]
  /\ UNCHANGED <<default, leaked, failures>>

(* init_resb_result: b becomes an item of parent (b itself perhaps), found *)
(* in parent's entry or, where it has fallback, in a parent of that.       *)
GetItem(b, parent, realData) ==
  LET chain == Chain(cache, bundles[parent].entry)
  IN /\ bundles[parent] # Closed
     /\ \E i \in 1 .. Len(chain) :
          /\ realData = chain[i] /\ cache[realData].bogus = "ok"
          /\ i > 1 => bundles[parent].fallback
     /\ cache' = CountChain(CountChain(cache, bundles[b].entry, -1), realData, 1)
     /\ bundles' = [bundles EXCEPT ![b] = [Closed EXCEPT !.entry = realData]]
     /\ UNCHANGED <<default, leaked, failures>>

(* ures_cleanup, from u_cleanup, which callers make with nothing open.     *)
Cleanup ==
  /\ bundles = [b \in Bundles |-> Closed] /\ cache # <<>>
  /\ leaked' = DOMAIN Flush(cache)
  /\ cache' = <<>>
  /\ UNCHANGED <<bundles, default, failures>>

SetDefault(d) ==
  /\ d # default
  /\ default' = d
  /\ UNCHANGED <<cache, bundles, leaked, failures>>

Next ==
  \/ \E b \in Bundles, key \in Requests, type \in {"default", "root", "direct"}, nomem \in NoMem :
       OpenWithType(b, key, type, nomem)
  \/ \E b \in Bundles : Close(b)
  \/ \E b, original \in Bundles : CopyResb(b, original)
  \/ \E b, parent \in Bundles, realData \in DOMAIN cache : GetItem(b, parent, realData)
  \/ Cleanup
  \/ \E d \in Defaults : SetDefault(d)

Spec == Init /\ [][Next]_vars

-----------------------------------------------------------------------------
(* The counts are accurate, as the comment in ures_flushCache relies on:   *)
(* while no allocation failed, fCountExisting of an entry is the number of *)
(* open bundles whose chain of parents goes through it, plus the entries   *)
(* it is alias or pool for.                                                *)
CountsAccurate == failures = 0 =>
  \A e \in DOMAIN cache :
    cache[e].count =
      Cardinality({b \in Bundles : \E i \in DOMAIN Chain(cache, bundles[b].entry) :
                                    Chain(cache, bundles[b].entry)[i] = e})
      + Cardinality({x \in DOMAIN cache : cache[x].alias = e})
      + Cardinality({x \in DOMAIN cache : cache[x].pool = e})

(* What u_cleanup frees: with every bundle closed and no allocation failed *)
(* before, no entry stays behind, in whatever order aliases, pools and     *)
(* parents were cached.                                                    *)
CleanupFreesAll == failures = 0 => leaked = {}

(* The fallback of a bundle as its data states it: the explicit parent or  *)
(* the chopped name, and the root bundle last.                             *)
RECURSIVE Inherits(_, _)
Inherits(path, n) ==
  LET d == Data[<<path, n>>]
      up == IF d.parent # "" THEN d.parent ELSE Chop[n]
      next == Data[<<path, up>>].alias
  IN CASE n = "root" -> <<n>>
       [] Chop[n] = "" \/ d.noFallback \/ d.parentIsRoot \/ up = "root" -> <<n, "root">>
       [] OTHER -> <<n>> \o Inherits(path, IF next # "" THEN next ELSE up)

(* An open bundle with fallback looks through exactly the bundles its data *)
(* says, root last, and finds the user's override of one just before it,   *)
(* whatever was opened, how and in which order before: the links are those *)
(* entryOpen and entryOpenDirect left in the cache.                        *)
ProperFallback ==
  \A b \in Bundles : bundles[b].fallback =>
    LET chain == Chain(cache, bundles[b].entry)
        ofPath(e) == e[1] = bundles[b].request[1]
        own == SelectSeq(chain, ofPath)
    IN /\ [i \in DOMAIN own |-> own[i][2]] = Inherits(own[1][1], own[1][2])
       /\ \A i \in DOMAIN chain : ~ofPath(chain[i]) =>
            i < Len(chain) /\ chain[i + 1] = <<bundles[b].request[1], chain[i][2]>>

(* The chain of an open bundle never changes while it is open: the lookups *)
(* of getFallbackData follow fParent without resbMutex, and ures_close     *)
(* counts down along the links of that moment.                             *)
ChainsStable ==
  [][\A b \in Bundles : bundles[b] # Closed /\ bundles'[b] = bundles[b] =>
       Chain(cache', bundles[b].entry) = Chain(cache, bundles[b].entry)]_vars

(* A bundle opened by name without a warning is the one asked for, or the  *)
(* one its alias names: a bundle known to be missing is not passed over    *)
(* silently when its bogus entry is found in the cache.                    *)
TellsFallback ==
  \A b \in Bundles : bundles[b] # Closed /\ bundles[b].request # NoEntry /\ bundles[b].status = "ok" =>
    LET asked == bundles[b].request
        real == IF Data[asked].alias = "" THEN asked[2] ELSE Data[asked].alias
    IN bundles[b].entry[2] = real
=============================================================================
