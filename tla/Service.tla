------------------------------ MODULE Service ------------------------------
(***************************************************************************)
(* ICUService and ICULocaleService (serv.cpp, servls.cpp, servlk.cpp,      *)
(* servlkf.cpp) with the ICUNotifier they extend (servnotf.cpp): factories *)
(* are registered and unregistered while other threads ask for objects,    *)
(* for the visible IDs and for display names, all three cached, and        *)
(* listeners are told of every change.                                     *)
(***************************************************************************)
EXTENDS Integers, Sequences, FiniteSets, FiniteSetsExt

CONSTANTS
  Threads,
  Ids,          \* canonical locale IDs, Root among them
  Root,         \* the empty ID
  Truncated,    \* [Ids -> Ids]: the ID before the last underscore, else Root
  Factories,
  Handles,      \* [Factories -> SUBSET Ids]: the supported IDs
  Visible,      \* SUBSET Factories
  Delegates,    \* SUBSET Factories: factories that ask the service again
  Defaults,     \* SUBSET Ids: default locales
  Changers,     \* SUBSET Threads: those that register and unregister
  Namers,       \* SUBSET Threads: those that call getDisplayNames
  Listeners,
  MaxChanges    \* bound on the timestamp

None == "none"

ASSUME ServiceAssumption ==
  /\ Root \in Ids /\ Truncated \in [Ids -> Ids] /\ Defaults \subseteq Ids
  /\ Handles \in [Factories -> SUBSET Ids]
  /\ None \notin Ids \cup Threads /\ MaxChanges \in Nat

VARIABLES
  factories,    \* Seq(Factories), the last registered first
  default,      \* Locale::getDefault()
  fallback,     \* fallbackLocale, as last validated
  cache,        \* serviceCache: descriptor -> actualDescriptor of its entry
  entries,      \* the CacheEntry of each actualDescriptor: [svc, refs]
  idCache,      \* the visible IDs; {None} when NULL
  dnCache,      \* the display name cache: "built" or None
  timestamp,
  listeners,    \* Seq(Listeners)
  seen,         \* history: the timestamp at which a listener last looked
  notifyLock,   \* the thread in notifyChanged, or None
  pc,           \* [Threads -> Loc]
  key,          \* [Threads -> Seq(Ids)]: the descriptors of a key, in order
  enum,         \* [Threads -> [stamp, ids]]: a ServiceEnumeration
  names         \* [Threads -> {"none", "valid", "deleted"}]: the dnCache iterated

caches == <<cache, entries, idCache, dnCache>>
notifier == <<listeners, seen, notifyLock>>
vars == <<factories, default, fallback, caches, timestamp, notifier, pc, key, enum, names>>

Loc == {"idle", "get", "notify", "notifying", "list", "names"}

-----------------------------------------------------------------------------
(* The first index from start at which a list passes a test, 0 if at none, *)
(* and a list without the first occurrence of one of its elements.         *)
FirstIn(s, start, Test(_)) ==
  LET at == {i \in start..Len(s) : Test(s[i])} IN IF at # {} THEN Min(at) ELSE 0

RemoveFirst(s, e) ==
  LET i == FirstIn(s, 1, LAMBDA x : x = e) IN SubSeq(s, 1, i - 1) \o SubSeq(s, i + 1, Len(s))

Truncations[id \in Ids] == IF id = Root THEN <<>> ELSE <<id>> \o Truncations[Truncated[id]]

(* Each truncation makes an ID shorter, so the recursion ends.             *)
ASSUME TruncationsAssumption ==
  \A id \in Ids :
    /\ Truncations[id] \in Seq(Ids)
    /\ Truncations[id] = IF id = Root THEN <<>> ELSE <<id>> \o Truncations[Truncated[id]]

(* LocaleKey: the descriptors in the order fallback() visits them: the     *)
(* primary ID and its truncations, those of the default locale, the root.  *)
Chain(id, fb) ==
  Truncations[id] \o (IF id \in {Root, fb} THEN <<>> ELSE Truncations[fb]) \o <<Root>>

FirstHandling(start, id) ==
  FirstIn(factories, start, LAMBDA f : id \in Handles[f])

(* The loop of getKey over a key's descriptors, the first of them chain[   *)
(* from], with the factories from start.  A factory that delegates calls   *)
(* getKey again, for the later factories and with the same key, which that *)
(* call uses up: there, after a fallback, "putInCache && !cacheResult"     *)
(* deletes the entry it found.                                             *)
Nothing == [found |-> FALSE]

Loop(chain, start, from, getKey) ==
  LET i == FirstIn(chain, from,
             LAMBDA x : x \in DOMAIN cache \/ FirstHandling(start, x) # 0)
      id == chain[i]
      at == FirstHandling(start, id)
      tried == SubSeq(chain, from, i - 1)
  IN IF i = 0 THEN Nothing
     ELSE IF id \in DOMAIN cache
     THEN [found |-> TRUE, svc |-> entries[cache[id]].svc, actual |-> cache[id],
           tried |-> tried, hit |-> TRUE, deleted |-> {}]
     ELSE IF factories[at] \notin Delegates
     THEN [found |-> TRUE, svc |-> <<factories[at], id>>, actual |-> id,
           tried |-> tried, hit |-> FALSE, deleted |-> {}]
     ELSE LET again == getKey[at + 1, i] IN
          IF ~again.found THEN Nothing
          ELSE [again EXCEPT !.actual = id, !.tried = tried, !.hit = FALSE,
                  !.deleted = @ \cup IF again.hit /\ again.tried # <<>>
                                     THEN {again.actual} ELSE {}]

Again(chain) ==
  LET getKey[start \in 1..Len(factories) + 1, from \in 1..Len(chain)] ==
        Loop(chain, start, from, getKey)
  IN getKey

Search(chain) == Loop(chain, 1, 1, Again(chain))

(* delete serviceCache: each descriptor gives up its reference to its      *)
(* entry, and one that is counted too often stays behind, out of reach.    *)
Referring(a) == {id \in DOMAIN cache : cache[id] = a}
NoEntries == [a \in Ids |-> [svc |-> <<None, a>>, refs |-> 0]]
ClearServiceCache == cache' = <<>> /\ entries' = NoEntries

ClearCachesKeepsIds ==
  /\ timestamp' = timestamp + 1
  /\ ClearServiceCache
  /\ dnCache' = None /\ UNCHANGED idCache
  /\ names' = [t \in Threads |-> IF names[t] = "valid" THEN "deleted" ELSE names[t]]

ClearCachesKeepsNames ==
  /\ timestamp' = timestamp + 1
  /\ ClearServiceCache
  /\ idCache' = {None} /\ UNCHANGED <<dnCache, names>>

ClearCaches ==
  /\ timestamp' = timestamp + 1
  /\ ClearServiceCache
  /\ idCache' = {None} /\ dnCache' = None
  /\ names' = [t \in Threads |-> IF names[t] = "valid" THEN "deleted" ELSE names[t]]

(* getVisibleIDMap: from the last factory to the first, each adds its IDs  *)
(* or hides them.                                                          *)
UpdateVisibleIDs(f, ids) ==
  IF f \in Visible THEN ids \cup Handles[f] ELSE ids \ Handles[f]

VisibleIDMap ==
  LET ids[n \in 0..Len(factories)] ==
        IF n = 0 THEN {} ELSE UpdateVisibleIDs(factories[Len(factories) + 1 - n], ids[n - 1])
  IN IF idCache # {None} THEN idCache ELSE ids[Len(factories)]
-----------------------------------------------------------------------------
NoNames == [t \in Threads |-> "none"]

Init ==
  /\ factories = <<>> /\ default \in Defaults /\ fallback = default
  /\ cache = <<>> /\ entries = NoEntries
  /\ idCache = {None} /\ dnCache = None /\ timestamp = 0
  /\ listeners = <<>> /\ seen = [l \in Listeners |-> 0] /\ notifyLock = None
  /\ pc = [t \in Threads |-> "idle"] /\ key = [t \in Threads |-> <<>>]
  /\ enum = [t \in Threads |-> [stamp |-> -1, ids |-> {}]]
  /\ names = NoNames

Goto(t, from, to) == pc[t] = from /\ pc' = [pc EXCEPT ![t] = to]

CreateKeyKeepsCache(t, id) ==
  /\ Goto(t, "idle", "get")
  /\ fallback' = default
  /\ key' = [key EXCEPT ![t] = Chain(id, default)]
  /\ UNCHANGED <<factories, default, caches, timestamp, notifier, enum, names>>

(* createKey, with validateFallbackLocale.                                 *)
ValidateFallbackLocale ==
  /\ fallback' = default
  /\ IF default # fallback THEN ClearServiceCache ELSE UNCHANGED <<cache, entries>>

CreateKey(t, id) ==
  /\ Goto(t, "idle", "get")
  /\ ValidateFallbackLocale
  /\ key' = [key EXCEPT ![t] = Chain(id, default)]
  /\ UNCHANGED <<factories, default, idCache, dnCache, timestamp, notifier, enum, names>>

GetKeyUncounted(t) ==
  LET r == Search(key[t])
      stored == {r.actual} \cup Range(r.tried)
  IN
  /\ Goto(t, "get", "idle") /\ key' = [key EXCEPT ![t] = <<>>]
  /\ IF ~r.found \/ (r.hit /\ r.tried = <<>>) THEN UNCHANGED <<cache, entries>>
     ELSE /\ cache' = [id \in DOMAIN cache \cup stored |->
                         IF id \in stored THEN r.actual ELSE cache[id]]
          /\ entries' = [entries EXCEPT ![r.actual] = [svc |-> r.svc, refs |-> 1]]
  /\ UNCHANGED <<factories, default, fallback, idCache, dnCache, timestamp, notifier, enum, names>>

(* getKey: what was found, and every ID tried before, go into the cache.   *)
GetKey(t) ==
  LET r == Search(key[t])
      stored == {r.actual} \cup Range(r.tried)
      refs == (IF r.hit THEN entries[r.actual].refs ELSE 1) + Len(r.tried)
  IN
  /\ Goto(t, "get", "idle") /\ key' = [key EXCEPT ![t] = <<>>]
  /\ IF ~r.found \/ (r.hit /\ r.tried = <<>>) THEN UNCHANGED <<cache, entries>>
     ELSE /\ cache' = [id \in DOMAIN cache \cup stored |->
                         IF id \in stored THEN r.actual ELSE cache[id]]
          /\ entries' = [a \in Ids |->
               IF a \in r.deleted THEN [entries[a] EXCEPT !.refs = 0]
               ELSE IF a = r.actual THEN [svc |-> r.svc, refs |-> refs] ELSE entries[a]]
  /\ UNCHANGED <<factories, default, fallback, idCache, dnCache, timestamp, notifier, enum, names>>

Idle == \A t \in Threads : pc[t] = "idle"

(* Locale::setDefault, for which callers wait until nobody uses ICU.       *)
SetDefault(id) ==
  /\ Idle /\ default' = id /\ id # default
  /\ UNCHANGED <<factories, fallback, caches, timestamp, notifier, pc, key, enum, names>>

(* registerFactory, unregister and reset: the change and clearCaches under *)
(* the lock, then notifyChanged.                                           *)
Change(t, fs) ==
  /\ Goto(t, "idle", "notify") /\ t \in Changers /\ timestamp < MaxChanges
  /\ factories' = fs
  /\ ClearCaches
  /\ UNCHANGED <<default, fallback, notifier, key, enum>>

RegisterFactory(t, f) == f \notin Range(factories) /\ Change(t, <<f>> \o factories)
Unregister(t, f) == f \in Range(factories) /\ Change(t, RemoveFirst(factories, f))
Reset(t) == Change(t, <<>>)

-----------------------------------------------------------------------------
AddListener(l) ==
  /\ notifyLock = None
  /\ l \notin Range(listeners)
  /\ listeners' = Append(listeners, l) /\ seen' = [seen EXCEPT ![l] = timestamp]
  /\ UNCHANGED <<factories, default, fallback, caches, timestamp, notifyLock, pc, key, enum, names>>

RemoveListenerUnlocked(l) ==
  /\ l \in Range(listeners)
  /\ listeners' = RemoveFirst(listeners, l) /\ seen' = [seen EXCEPT ![l] = 0]
  /\ UNCHANGED <<factories, default, fallback, caches, timestamp, notifyLock, pc, key, enum, names>>

RemoveListener(l) ==
  /\ notifyLock = None
  /\ l \in Range(listeners)
  /\ listeners' = RemoveFirst(listeners, l) /\ seen' = [seen EXCEPT ![l] = 0]
  /\ UNCHANGED <<factories, default, fallback, caches, timestamp, notifyLock, pc, key, enum, names>>

NotifyUnlessBusy(t) ==
  /\ Goto(t, "notify", IF listeners = <<>> \/ notifyLock # None THEN "idle" ELSE "notifying")
  /\ UNCHANGED <<factories, default, fallback, caches, timestamp, notifier, key, enum, names>>

(* notifyChanged looks at listeners before it takes the lock.              *)
NotifyTests(t) ==
  /\ Goto(t, "notify", IF listeners = <<>> THEN "idle" ELSE "notifying")
  /\ UNCHANGED <<factories, default, fallback, caches, timestamp, notifier, key, enum, names>>

NotifyLocks(t) ==
  /\ pc[t] = "notifying" /\ notifyLock = None
  /\ notifyLock' = t /\ key' = [key EXCEPT ![t] = listeners]
  /\ UNCHANGED <<factories, default, fallback, caches, timestamp, listeners, seen, pc, enum, names>>

(* The loop over the listeners, each called in the caller's thread.        *)
NotifyListener(t) ==
  /\ pc[t] = "notifying" /\ notifyLock = t /\ key[t] # <<>>
  /\ seen' = [seen EXCEPT ![Head(key[t])] = timestamp]
  /\ key' = [key EXCEPT ![t] = Tail(@)]
  /\ UNCHANGED <<factories, default, fallback, caches, timestamp, listeners, notifyLock, pc, enum, names>>

NotifyUnlocks(t) ==
  /\ notifyLock = t /\ key[t] = <<>>
  /\ Goto(t, "notifying", "idle") /\ notifyLock' = None
  /\ UNCHANGED <<factories, default, fallback, caches, timestamp, listeners, seen, key, enum, names>>

-----------------------------------------------------------------------------
(* A ServiceEnumeration takes the timestamp before the visible IDs.  Here  *)
(* and for display names a key is made of the ID to match, if only NULL.   *)
TakeTimestamp(t) ==
  /\ Goto(t, "idle", "list") /\ enum' = [enum EXCEPT ![t] = [stamp |-> timestamp, ids |-> {}]]
  /\ UNCHANGED <<factories, default, fallback, caches, timestamp, notifier, key, names>>

GetVisibleIDs(t) ==
  /\ Goto(t, "list", "idle")
  /\ idCache' = VisibleIDMap
  /\ enum' = [enum EXCEPT ![t].ids = VisibleIDMap]
  /\ ValidateFallbackLocale
  /\ UNCHANGED <<factories, default, dnCache, timestamp, notifier, key, names>>

(* getDisplayNames fills dnCache under the lock, a cache for another       *)
(* locale being deleted first, and iterates after it.                      *)
FillNames(t, sameLocale) ==
  LET build == dnCache = None \/ ~sameLocale IN
  /\ Goto(t, "idle", "names") /\ t \in Namers
  /\ idCache' = (IF build THEN VisibleIDMap ELSE idCache) /\ dnCache' = "built"
  /\ names' = [u \in Threads |-> IF u = t THEN "valid"
                                ELSE IF build /\ names[u] = "valid" THEN "deleted"
                                ELSE names[u]]
  /\ UNCHANGED <<factories, default, fallback, cache, entries, timestamp, notifier, key, enum>>

IterateNames(t) ==
  /\ Goto(t, "names", "idle")
  /\ names' = [names EXCEPT ![t] = "none"]
  /\ ValidateFallbackLocale
  /\ UNCHANGED <<factories, default, idCache, dnCache, timestamp, notifier, key, enum>>

-----------------------------------------------------------------------------
Step(t) ==
  \/ \E id \in Ids : CreateKey(t, id)
  \/ GetKey(t)
  \/ \E f \in Factories : RegisterFactory(t, f) \/ Unregister(t, f)
  \/ Reset(t)
  \/ NotifyTests(t) \/ NotifyLocks(t) \/ NotifyListener(t) \/ NotifyUnlocks(t)
  \/ TakeTimestamp(t) \/ GetVisibleIDs(t)
  \/ (\E sameLocale \in BOOLEAN : FillNames(t, sameLocale)) \/ IterateNames(t)

Next ==
  \/ \E t \in Threads : Step(t)
  \/ \E l \in Listeners : AddListener(l) \/ RemoveListener(l)
  \/ \E id \in Defaults : SetDefault(id)

Spec == Init /\ [][Next]_vars

-----------------------------------------------------------------------------
(* Types of the state that several methods write.                          *)
TypeOK ==
  /\ Range(factories) \subseteq Factories /\ {default, fallback} \subseteq Defaults
  /\ DOMAIN cache \subseteq Ids /\ (idCache = {None} \/ idCache \subseteq Ids)
  /\ \A a \in Ids : entries[a].refs >= 0
  /\ timestamp \in 0..MaxChanges /\ Range(listeners) \subseteq Listeners
  /\ notifyLock \in Threads \cup {None} /\ \A t \in Threads : pc[t] \in Loc

(* What a descriptor stands for: the first of its fallbacks that a factory *)
(* handles, from the factory registered last.                              *)
Resolved(id) ==
  LET chain == Chain(id, fallback)
      i == FirstIn(chain, 1, LAMBDA x : \E f \in Range(factories) : x \in Handles[f])
      x == chain[i]
  IN <<factories[FirstIn(factories, 1, LAMBDA f : x \in Handles[f])], x>>

(* "The cache has to stay in synch with the factory list" (getKey): each   *)
(* cached descriptor, the ones stored for fallbacks too, gives the object  *)
(* that the factories and the default locale of now would.                 *)
CacheCoherent ==
  TypeOK /\ \A id \in DOMAIN cache : entries[cache[id]].svc = Resolved(id)

(* An entry is not released while a descriptor of the cache points to it:  *)
(* CacheEntry::ref and unref, over fallbacks stored at different times.    *)
EntriesAlive == \A a \in Ids : entries[a].refs >= Cardinality(Referring(a))

(* An enumeration that finds the timestamp it took says it is up to date:  *)
(* then it has the visible IDs of now, an invisible factory hiding those   *)
(* of the factories registered before it (ServiceEnumeration::upToDate).   *)
UpToDate ==
  \A t \in Threads :
    pc[t] # "list" /\ enum[t].stamp = timestamp =>
      enum[t].ids = {id \in Ids :
        LET i == FirstIn(factories, 1, LAMBDA f : id \in Handles[f])
        IN i # 0 /\ factories[i] \in Visible}

(* When no thread is about to notify, every listener has looked at the     *)
(* service after the last change: none is lost, although notifyChanged     *)
(* looks at the list without the lock and listeners come and go.           *)
NoLostChange ==
  (\A t \in Threads : pc[t] \notin {"notify", "notifying"}) =>
    \A l \in Range(listeners) : seen[l] = timestamp

(* removeListener is final: a listener is called only while registered.    *)
RemovedNotCalled ==
  \A t \in Threads : notifyLock = t => Range(key[t]) \subseteq Range(listeners)

(* The display name cache points to the IDs of idCache ("share pointer     *)
(* with visibleIDMap", getDisplayNames): the map they are in is there as   *)
(* long as that cache, and is the one of the factories of now.             *)
NamesShareIds ==
  dnCache # None =>
    /\ idCache # {None}
    /\ \A id \in idCache : \E f \in Visible \cap Range(factories) : id \in Handles[f]

(* getDisplayNames iterates a display name cache that nobody deleted: "we  *)
(* single-thread everything using this service" (getKey).                  *)
NamesValid == \A t \in Threads : pc[t] = "names" => names[t] = "valid"
=============================================================================
