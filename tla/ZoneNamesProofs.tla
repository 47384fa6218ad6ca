-------------------------- MODULE ZoneNamesProofs ---------------------------
(* The cache of time zone names never drops what a delegate uses, for any  *)
(* set of locales, any number of delegates, any sweep interval and any     *)
(* expiration: the count of an entry is the number of its delegates, so    *)
(* that the sweep, which takes entries whose count is not positive, takes  *)
(* only entries that nobody has.                                           *)
EXTENDS ZoneNames, FiniteSetTheorems, TLAPS

Users(f, l) == {d \in Delegates : f[d] = l}

Entries == [Delegates -> Locales \cup {"deleted", Null}]

LEMMA UsersFinite ==
  ASSUME NamesAssumption, NEW f, NEW l
  PROVE  /\ IsFiniteSet(Users(f, l)) /\ Cardinality(Users(f, l)) \in Nat
         /\ Cardinality(Users(f, l)) = 0 <=> Users(f, l) = {}
<1>1. Users(f, l) \subseteq Delegates
  BY DEF Users
<1>2. IsFiniteSet(Users(f, l))
  BY <1>1, FS_Subset DEF NamesAssumption
<1> QED BY <1>2, FS_CardinalityType, FS_EmptySet

(* A delegate that takes up an entry, or gives it up, changes the number   *)
(* of users of this entry and of no other.                                 *)
LEMMA Gains ==
  ASSUME NamesAssumption, NEW f \in Entries, NEW d \in Delegates, f[d] = "deleted",
         NEW m \in Locales, NEW l \in Locales
  PROVE  Cardinality(Users([f EXCEPT ![d] = m], l)) =
           Cardinality(Users(f, l)) + IF l = m THEN 1 ELSE 0
<1> DEFINE g == [f EXCEPT ![d] = m]
<1>1. l # "deleted"
  BY DEF NamesAssumption
<1>2. CASE l = m
  <2>1. Users(g, l) = Users(f, l) \cup {d} /\ d \notin Users(f, l)
    BY <1>1, <1>2 DEF Users, Entries
  <2> QED BY <1>2, <2>1, UsersFinite, FS_AddElement
<1>3. CASE l # m
  <2>1. Users(g, l) = Users(f, l)
    BY <1>1, <1>3 DEF Users, Entries
  <2> QED BY <1>3, <2>1, UsersFinite
<1> QED BY <1>2, <1>3

LEMMA Loses ==
  ASSUME NamesAssumption, NEW f \in Entries, NEW d \in Delegates, NEW l \in Locales
  PROVE  Cardinality(Users([f EXCEPT ![d] = "deleted"], l)) =
           Cardinality(Users(f, l)) - IF l = f[d] THEN 1 ELSE 0
<1> DEFINE g == [f EXCEPT ![d] = "deleted"]
<1>1. l # "deleted"
  BY DEF NamesAssumption
<1>2. CASE l = f[d]
  <2>1. Users(g, l) = Users(f, l) \ {d} /\ d \in Users(f, l)
    BY <1>1, <1>2 DEF Users, Entries
  <2> QED BY <1>2, <2>1, UsersFinite, FS_RemoveElement
<1>3. CASE l # f[d]
  <2>1. Users(g, l) = Users(f, l)
    BY <1>1, <1>3 DEF Users, Entries
  <2> QED BY <1>3, <2>1, UsersFinite
<1> QED BY <1>2, <1>3

-----------------------------------------------------------------------------
(* The inductive invariant, stated of any cache and any delegates: a       *)
(* construction passes through a cache it has not yet swept.               *)
Counted(cache, f) ==
  /\ DOMAIN cache \subseteq Locales
  /\ cache \in [DOMAIN cache -> [refCount : Int, lastAccess : Int]]
  /\ f \in Entries
  /\ \A d \in Delegates : f[d] \in DOMAIN cache \cup {"deleted", Null}
  /\ \A l \in DOMAIN cache : cache[l].refCount = Cardinality(Users(f, l))

LEMMA CountedIsInvariant ==
  Counted(gTimeZoneNamesCache, fTZnamesCacheEntry) /\ gAccessCount \in Int /\ now \in Int
    <=> TypeOK /\ NamesInUseStay
BY DEF Counted, TypeOK, NamesInUseStay, Users, Entries

LEMMA CountedTyped ==
  ASSUME NEW c, NEW f, Counted(c, f), NEW l \in DOMAIN c
  PROVE  c[l] \in [refCount : Int, lastAccess : Int] /\ c[l].refCount \in Int /\ l \in Locales
BY DEF Counted

LEMMA SweepKeeps ==
  ASSUME NamesAssumption, NEW c, NEW f, Counted(c, f)
  PROVE  Counted(SweepCache(c), f)
<1> DEFINE s == SweepCache(c)
<1>1. /\ DOMAIN s \subseteq DOMAIN c
      /\ s = [l \in DOMAIN s |-> c[l]]
  BY DEF SweepCache
<1>2. ASSUME NEW l \in DOMAIN c, l \notin DOMAIN s
      PROVE  Users(f, l) = {}
  <2>1. c[l].refCount <= 0
    BY <1>2 DEF SweepCache
  <2>2. c[l].refCount = Cardinality(Users(f, l))
    BY DEF Counted
  <2>3. Cardinality(Users(f, l)) = 0
    BY <2>1, <2>2, UsersFinite
  <2> QED BY <2>3, UsersFinite
<1>3. ASSUME NEW d \in Delegates, f[d] \notin {"deleted", Null}
      PROVE  f[d] \in DOMAIN s
  <2>1. f[d] \in DOMAIN c /\ d \in Users(f, f[d])
    BY <1>3 DEF Counted, Users
  <2> QED BY <1>2, <2>1
<1>4. /\ \A l \in DOMAIN s : s[l] = c[l]
      /\ s \in [DOMAIN s -> [refCount : Int, lastAccess : Int]]
  BY <1>1, CountedTyped
<1> HIDE DEF s
<1>5. Counted(s, f)
  BY <1>1, <1>3, <1>4 DEF Counted
<1> QED BY <1>5 DEF s

(* One more delegate of an entry whose count has been raised with it.      *)
LEMMA AddUser ==
  ASSUME NamesAssumption, NEW c, NEW f, Counted(c, f),
         NEW d \in Delegates, f[d] = "deleted", NEW m \in Locales, NEW n,
         DOMAIN n = DOMAIN c \cup {m},
         n \in [DOMAIN n -> [refCount : Int, lastAccess : Int]],
         \A l \in DOMAIN c : l # m => n[l] = c[l],
         n[m].refCount = (IF m \in DOMAIN c THEN c[m].refCount ELSE 0) + 1
  PROVE  Counted(n, [f EXCEPT ![d] = m])
<1> DEFINE g == [f EXCEPT ![d] = m]
<1>1. f \in Entries /\ DOMAIN c \subseteq Locales
  BY DEF Counted
<1>2. g \in Entries /\ \A e \in Delegates : g[e] = IF e = d THEN m ELSE f[e]
  BY <1>1 DEF Entries
<1>3. \A e \in Delegates : g[e] \in DOMAIN n \cup {"deleted", Null}
  BY <1>2 DEF Counted
<1>4. ASSUME NEW l \in DOMAIN n PROVE n[l].refCount = Cardinality(Users(g, l))
  <2>1. l \in Locales
    BY <1>1
  <2>2. Cardinality(Users(g, l)) = Cardinality(Users(f, l)) + IF l = m THEN 1 ELSE 0
    BY <1>1, <2>1, Gains
  <2>3. CASE l \in DOMAIN c
    <3>1. c[l].refCount = Cardinality(Users(f, l)) /\ Cardinality(Users(f, l)) \in Nat
      BY <2>3, UsersFinite DEF Counted
    <3> HIDE DEF g
    <3> QED BY <2>2, <2>3, <3>1
  <2>4. CASE l \notin DOMAIN c
    <3>1. l = m
      BY <2>4
    <3>2. Users(f, l) = {}
      BY <2>1, <2>4 DEF Counted, Users, NamesAssumption
    <3>3. Cardinality(Users(f, l)) = 0
      BY <3>2, UsersFinite
    <3> HIDE DEF g
    <3> QED BY <2>2, <2>4, <3>1, <3>3
  <2> QED BY <2>3, <2>4
<1>5. DOMAIN n \subseteq Locales
  BY <1>1
<1> HIDE DEF g
<1>6. Counted(n, g)
  BY <1>2, <1>3, <1>4, <1>5 DEF Counted
<1> QED BY <1>6 DEF g

-----------------------------------------------------------------------------
LEMMA ConstructKeeps ==
  ASSUME NamesAssumption, Counted(gTimeZoneNamesCache, fTZnamesCacheEntry),
         gAccessCount \in Int, now \in Int,
         NEW d \in Delegates, NEW l \in Locales, NEW loads \in BOOLEAN, Construct(d, l, loads)
  PROVE  Counted(gTimeZoneNamesCache, fTZnamesCacheEntry)' /\ gAccessCount' \in Int /\ now' \in Int
<1> DEFINE c == gTimeZoneNamesCache
           f == fTZnamesCacheEntry
           n == Entered(l, loads)
           g == [f EXCEPT ![d] = IF l \in DOMAIN n THEN l ELSE Null]
<1>0. /\ f[d] = "deleted" /\ f' = g /\ c' \in {n, SweepCache(n)}
      /\ gAccessCount' \in Int /\ now' \in Int
  BY DEF Construct
<1>1. Counted(n, g)
  <2>1. CASE l \in DOMAIN c
    <3>1. n = [c EXCEPT ![l] = [refCount |-> c[l].refCount + 1, lastAccess |-> now]]
      BY <2>1 DEF Entered
    <3>2. /\ DOMAIN n = DOMAIN c \cup {l} /\ l \in DOMAIN n
          /\ n \in [DOMAIN n -> [refCount : Int, lastAccess : Int]]
          /\ \A k \in DOMAIN c : k # l => n[k] = c[k]
          /\ n[l].refCount = c[l].refCount + 1
      <4>1. c = [k \in DOMAIN c |-> c[k]] /\ c[l].refCount + 1 \in Int
        BY <2>1, CountedTyped DEF Counted
      <4>2. [refCount |-> c[l].refCount + 1, lastAccess |-> now] \in [refCount : Int, lastAccess : Int]
        BY <4>1
      <4>3. DOMAIN n = DOMAIN c /\ n[l] = [refCount |-> c[l].refCount + 1, lastAccess |-> now]
        BY <2>1, <3>1, <4>1
      <4>4. \A k \in DOMAIN c : k # l => n[k] = c[k]
        BY <3>1, <4>1
      <4>5. n \in [DOMAIN n -> [refCount : Int, lastAccess : Int]]
        <5>1. \A k \in DOMAIN n : n[k] \in [refCount : Int, lastAccess : Int]
          BY <4>2, <4>3, <4>4, CountedTyped
        <5> QED BY <3>1, <5>1
      <4>6. n[l].refCount = c[l].refCount + 1
        BY <4>3
      <4> QED BY <2>1, <4>3, <4>4, <4>5, <4>6
    <3> HIDE DEF n
    <3> QED BY <1>0, <2>1, <3>2, AddUser
  <2>2. CASE l \notin DOMAIN c /\ loads
    <3>1. n = [k \in DOMAIN c \cup {l} |->
                 IF k = l THEN [refCount |-> 1, lastAccess |-> now] ELSE c[k]]
      BY <2>2 DEF Entered
    <3>2. /\ DOMAIN n = DOMAIN c \cup {l} /\ l \in DOMAIN n
          /\ n \in [DOMAIN n -> [refCount : Int, lastAccess : Int]]
          /\ \A k \in DOMAIN c : k # l => n[k] = c[k]
          /\ n[l].refCount = 0 + 1
      <4>1. [refCount |-> 1, lastAccess |-> now] \in [refCount : Int, lastAccess : Int]
        OBVIOUS
      <4>2. \A k \in DOMAIN c : c[k] \in [refCount : Int, lastAccess : Int]
        BY CountedTyped
      <4>3. n \in [DOMAIN c \cup {l} -> [refCount : Int, lastAccess : Int]]
        BY <3>1, <4>1, <4>2
      <4>4. DOMAIN n = DOMAIN c \cup {l} /\ n[l] = [refCount |-> 1, lastAccess |-> now]
        BY <3>1
      <4>5. n[l].refCount = 0 + 1
        BY <4>4
      <4>6. \A k \in DOMAIN c : k # l => n[k] = c[k]
        BY <3>1
      <4> QED BY <4>3, <4>4, <4>5, <4>6
    <3> HIDE DEF n
    <3> QED BY <1>0, <2>2, <3>2, AddUser
  <2>3. CASE l \notin DOMAIN c /\ ~loads
    <3>1. n = c
      BY <2>3 DEF Entered
    <3>2. g = [f EXCEPT ![d] = Null]
      BY <2>3, <3>1
    <3>3. ASSUME NEW k \in DOMAIN c PROVE Users(g, k) = Users(f, k)
      BY <1>0, <3>2 DEF Counted, Users, Entries, NamesAssumption
    <3>4. g \in Entries /\ \A e \in Delegates : g[e] \in DOMAIN c \cup {"deleted", Null}
      BY <3>2 DEF Counted, Entries
    <3> HIDE DEF n, g
    <3> QED BY <3>1, <3>3, <3>4 DEF Counted
  <2> QED BY <2>1, <2>2, <2>3
<1>2. Counted(SweepCache(n), g)
  BY <1>1, SweepKeeps
<1> HIDE DEF n, g
<1>3. c' = n \/ c' = SweepCache(n)
  BY <1>0
<1>4. Counted(c', f')
  BY <1>0, <1>1, <1>2, <1>3
<1> QED BY <1>0, <1>4

LEMMA CloneKeeps ==
  ASSUME NamesAssumption, Counted(gTimeZoneNamesCache, fTZnamesCacheEntry),
         NEW d \in Delegates, NEW e \in Delegates, Clone(d, e)
  PROVE  Counted(gTimeZoneNamesCache, fTZnamesCacheEntry)'
<1> DEFINE c == gTimeZoneNamesCache
           f == fTZnamesCacheEntry
           m == f[d]
<1>1. m \in DOMAIN c /\ m \in Locales /\ f[e] = "deleted"
  BY DEF Clone, Counted
<1>2. f' = [f EXCEPT ![e] = m] /\ c' = [c EXCEPT ![m].refCount = @ + 1]
  BY DEF Clone
<1>3. /\ DOMAIN c' = DOMAIN c \cup {m}
      /\ c' \in [DOMAIN c' -> [refCount : Int, lastAccess : Int]]
      /\ \A k \in DOMAIN c : k # m => c'[k] = c[k]
      /\ c'[m].refCount = c[m].refCount + 1
  <2>1. c = [k \in DOMAIN c |-> c[k]] /\ c[m] \in [refCount : Int, lastAccess : Int]
    BY <1>1, CountedTyped DEF Counted
  <2>2. DOMAIN c' = DOMAIN c /\ c'[m] = [c[m] EXCEPT !.refCount = @ + 1]
    BY <1>1, <1>2, <2>1
  <2>3. \A k \in DOMAIN c : k # m => c'[k] = c[k]
    BY <1>2, <2>1
  <2>4. c'[m] \in [refCount : Int, lastAccess : Int] /\ c'[m].refCount = c[m].refCount + 1
    BY <2>1, <2>2
  <2>5. \A k \in DOMAIN c : c'[k] \in [refCount : Int, lastAccess : Int]
    BY <2>3, <2>4, CountedTyped
  <2>6. c' \in [DOMAIN c' -> [refCount : Int, lastAccess : Int]]
    BY <1>2, <2>2, <2>5
  <2> QED BY <1>1, <2>2, <2>3, <2>4, <2>6
<1>4. Counted(c', [f EXCEPT ![e] = m])
  BY <1>1, <1>3, AddUser
<1> QED BY <1>2, <1>4

LEMMA DeleteKeeps ==
  ASSUME NamesAssumption, Counted(gTimeZoneNamesCache, fTZnamesCacheEntry),
         NEW d \in Delegates, Delete(d)
  PROVE  Counted(gTimeZoneNamesCache, fTZnamesCacheEntry)'
<1> DEFINE c == gTimeZoneNamesCache
           f == fTZnamesCacheEntry
           g == [f EXCEPT ![d] = "deleted"]
<1>0. f \in Entries /\ DOMAIN c \subseteq Locales /\ f' = g
  BY DEF Counted, Delete
<1>1. g \in Entries /\ \A e \in Delegates : g[e] \in DOMAIN c \cup {"deleted", Null}
  BY DEF Counted, Entries
<1>2. /\ DOMAIN c' = DOMAIN c
      /\ c' \in [DOMAIN c -> [refCount : Int, lastAccess : Int]]
      /\ \A k \in DOMAIN c : c'[k].refCount = c[k].refCount - IF k = f[d] THEN 1 ELSE 0
  <2>1. CASE f[d] = Null
    <3>1. c' = c /\ f[d] \notin DOMAIN c
      BY <1>0, <2>1 DEF Delete, NamesAssumption
    <3> QED BY <3>1, CountedTyped DEF Counted
  <2>2. CASE f[d] # Null
    <3>1. f[d] \in DOMAIN c /\ c' = [c EXCEPT ![f[d]].refCount = @ - 1]
      BY <2>2 DEF Delete, Counted
    <3> QED BY <3>1, CountedTyped DEF Counted
  <2> QED BY <2>1, <2>2
<1>3. ASSUME NEW k \in DOMAIN c PROVE c'[k].refCount = Cardinality(Users(g, k))
  <2>1. k \in Locales /\ c[k].refCount = Cardinality(Users(f, k))
    BY <1>0 DEF Counted
  <2>2. Cardinality(Users(g, k)) = Cardinality(Users(f, k)) - IF k = f[d] THEN 1 ELSE 0
    BY <1>0, <2>1, Loses
  <2> HIDE DEF g
  <2> QED BY <1>2, <2>1, <2>2
<1> HIDE DEF g
<1> QED BY <1>0, <1>1, <1>2, <1>3 DEF Counted

LEMMA CleanupKeeps ==
  ASSUME Counted(gTimeZoneNamesCache, fTZnamesCacheEntry), Cleanup
  PROVE  Counted(gTimeZoneNamesCache, fTZnamesCacheEntry)'
BY DEF Cleanup, Counted

LEMMA InitCounted ==
  ASSUME NamesAssumption, Init
  PROVE  Counted(gTimeZoneNamesCache, fTZnamesCacheEntry) /\ gAccessCount \in Int /\ now \in Int
BY DEF Init, Counted, Entries

(* No entry of the cache of time zone names is dropped while a delegate    *)
(* uses it, and its count is the number of its delegates, clones included  *)
(* (TimeZoneNamesDelegate, sweepCache, tznames.cpp).                       *)
THEOREM NamesStay ==
  ASSUME NamesAssumption
  PROVE  Spec => [](TypeOK /\ NamesInUseStay)
<1> DEFINE Inv == /\ Counted(gTimeZoneNamesCache, fTZnamesCacheEntry)
                  /\ gAccessCount \in Int /\ now \in Int
<1>1. Init => Inv
  BY InitCounted
<1>2. Inv /\ [Next]_vars => Inv'
  <2> SUFFICES ASSUME Inv, [Next]_vars PROVE Inv'
    OBVIOUS
  <2>1. ASSUME NEW d \in Delegates, NEW l \in Locales, NEW loads \in BOOLEAN,
               Construct(d, l, loads)
        PROVE  Inv'
    BY <2>1, ConstructKeeps
  <2>2. ASSUME NEW d \in Delegates, NEW e \in Delegates, Clone(d, e) PROVE Inv'
    BY <2>2, CloneKeeps DEF Clone
  <2>3. ASSUME NEW d \in Delegates, Delete(d) PROVE Inv'
    BY <2>3, DeleteKeeps DEF Delete
  <2>4. CASE Cleanup
    BY <2>4, CleanupKeeps DEF Cleanup
  <2>5. CASE Tick
    BY <2>5 DEF Tick, Counted
  <2>6. CASE UNCHANGED vars
    BY <2>6 DEF vars, Counted
  <2> HIDE DEF Inv
  <2> QED BY <2>1, <2>2, <2>3, <2>4, <2>5, <2>6 DEF Next
<1>3. Inv => TypeOK /\ NamesInUseStay
  BY CountedIsInvariant
<1> HIDE DEF Inv
<1> QED BY <1>1, <1>2, <1>3, PTL DEF Spec
=============================================================================
