--------------------------- MODULE ServiceProofs ---------------------------
(***************************************************************************)
(* What the service promises (module Service), for any number of threads,  *)
(* factories, IDs and listeners.  Three invariants carry it: NotifyInv,    *)
(* for the notifier, ListInv, for the visible IDs and what is made from    *)
(* them, and Coherent with KeysMade, for the cache of objects, which holds *)
(* as long as no factory asks the service again (Delegates = {}).          *)
(***************************************************************************)
EXTENDS Service, WellFoundedInduction, FiniteSetTheorems, SequenceTheorems, TLAPS

(* Most leaves are first-order: Zenon first, then Z3. *)
USE ZenonT(20), SMTT(20)

(* Induction over the naturals: a set of them that is not empty has a     *)
(* least element.                                                          *)
LEMMA LeastNat ==
  ASSUME NEW S, S \subseteq Nat, S # {}
  PROVE  \E m \in S : \A n \in S : m <= n
<1>1. PICK m \in S : \A n \in S : ~(<<n, m>> \in OpToRel(<, Nat))
  BY WFMin, NatLessThanWellFounded
<1>2. \A n \in S : ~(n < m)
  BY <1>1 DEF OpToRel
<1> QED BY <1>2, SMTT(30)

LEMMA MinIs ==
  ASSUME NEW S, S \subseteq Nat, S # {}
  PROVE  Min(S) \in S /\ \A n \in S : Min(S) <= n
BY LeastNat DEF Min

-----------------------------------------------------------------------------
(* The notifier.  What a thread that has changed the factories still owes  *)
(* to a listener: it has not looked at the list yet, it waits for the      *)
(* lock, or it has the lock and the listener is still to be called.        *)
Owes(t, l) ==
  \/ pc[t] = "notify"
  \/ pc[t] = "notifying" /\ (notifyLock # t \/ l \in Range(key[t]))

NotifyTyped ==
  /\ timestamp \in Nat /\ listeners \in Seq(Listeners) /\ seen \in [Listeners -> Nat]
  /\ notifyLock \in Threads \cup {None}
  /\ pc \in [Threads -> Loc] /\ key \in [Threads -> Seq(Ids \cup Listeners)]

NotifyInv ==
  /\ NotifyTyped /\ IsInjective(listeners)
  /\ \A t \in Threads :
       notifyLock = t => pc[t] = "notifying" /\ Range(key[t]) \subseteq Range(listeners)
  /\ \A l \in Range(listeners) : seen[l] = timestamp \/ \E t \in Threads : Owes(t, l)

(* Sequences.                                                              *)
LEMMA HeadTailRange ==
  ASSUME NEW S, NEW s \in Seq(S), s # <<>>
  PROVE  /\ Tail(s) \in Seq(S) /\ Head(s) \in Range(s)
         /\ Range(Tail(s)) \subseteq Range(s)
         /\ Range(s) \subseteq {Head(s)} \cup Range(Tail(s))
<1>1. Len(s) \in Nat \ {0} /\ DOMAIN s = 1..Len(s) /\ Head(s) = s[1]
  OBVIOUS
<1>2. /\ Tail(s) \in Seq(S) /\ Len(Tail(s)) = Len(s) - 1 /\ DOMAIN Tail(s) = 1..(Len(s) - 1)
      /\ \A i \in 1..(Len(s) - 1) : Tail(s)[i] = s[i + 1]
  OBVIOUS
<1>3. Range(Tail(s)) \subseteq Range(s)
  BY <1>1, <1>2, SMT DEF Range
<1>4. ASSUME NEW i \in 1..Len(s), i # 1 PROVE s[i] \in Range(Tail(s))
  <2>1. i - 1 \in 1..(Len(s) - 1) /\ Tail(s)[i - 1] = s[i]
    BY <1>1, <1>2, <1>4, SMT
  <2> QED BY <2>1, <1>2 DEF Range
<1> QED BY <1>1, <1>2, <1>3, <1>4, SMTT(30) DEF Range

LEMMA AppendRange ==
  ASSUME NEW S, NEW s \in Seq(S), NEW e \in S, e \notin Range(s), IsInjective(s)
  PROVE  /\ Append(s, e) \in Seq(S) /\ Range(Append(s, e)) \subseteq Range(s) \cup {e}
         /\ IsInjective(Append(s, e))
<1>1. Len(s) \in Nat /\ DOMAIN s = 1..Len(s)
  OBVIOUS
<1>2. /\ Append(s, e) \in Seq(S) /\ DOMAIN Append(s, e) = 1..(Len(s) + 1)
      /\ Append(s, e)[Len(s) + 1] = e
      /\ \A i \in 1..Len(s) : Append(s, e)[i] = s[i]
  OBVIOUS
<1>3. \A i \in 1..(Len(s) + 1) : i = Len(s) + 1 \/ i \in 1..Len(s)
  BY <1>1, SMT
<1>4. \A i \in 1..Len(s) : s[i] \in Range(s)
  BY <1>1 DEF Range
<1> HIDE DEF Range
<1>5. IsInjective(Append(s, e))
  BY <1>1, <1>2, <1>3, <1>4, SMTT(30) DEF IsInjective
<1> QED BY <1>1, <1>2, <1>3, <1>5 DEF Range

LEMMA RemoveRange ==
  ASSUME NEW S, NEW s \in Seq(S), NEW e \in Range(s)
  PROVE  /\ RemoveFirst(s, e) \in Seq(S)
         /\ Range(RemoveFirst(s, e)) \subseteq Range(s)
         /\ IsInjective(s) => /\ e \notin Range(RemoveFirst(s, e))
                             /\ IsInjective(RemoveFirst(s, e))
<1> DEFINE at == {i \in 1..Len(s) : s[i] = e}
           n == Min(at)
           r == RemoveFirst(s, e)
<1>1. Len(s) \in Nat /\ DOMAIN s = 1..Len(s)
  OBVIOUS
<1>2. at # {} /\ at \subseteq Nat
  BY <1>1 DEF Range
<1>3. n \in 1..Len(s) /\ s[n] = e
  BY <1>2, MinIs
<1>4. r = SubSeq(s, 1, n - 1) \o SubSeq(s, n + 1, Len(s))
  BY <1>2 DEF RemoveFirst, FirstIn
<1> HIDE DEF n
<1>5. /\ r \in Seq(S) /\ DOMAIN r = 1..(Len(s) - 1)
      /\ \A i \in 1..(Len(s) - 1) : r[i] = IF i < n THEN s[i] ELSE s[i + 1]
  <2> DEFINE a == SubSeq(s, 1, n - 1)
             b == SubSeq(s, n + 1, Len(s))
  <2>1. /\ a \in Seq(S) /\ Len(a) = n - 1
        /\ \A i \in 1..(n - 1) : a[i] = s[i]
    BY <1>1, <1>3, SubSeqProperties, SMT
  <2>2. /\ b \in Seq(S) /\ Len(b) = Len(s) - n
        /\ \A i \in 1..(Len(s) - n) : b[i] = s[n + i]
    BY <1>1, <1>3, SubSeqProperties, SMT
  <2>3. r = a \o b
    BY <1>4
  <2> HIDE DEF a, b, r
  <2>4. /\ r \in Seq(S) /\ Len(r) = Len(s) - 1
        /\ \A i \in 1..(Len(s) - 1) : r[i] = IF i <= n - 1 THEN a[i] ELSE b[i - (n - 1)]
    <3>1. /\ r \in Seq(S) /\ Len(r) = Len(a) + Len(b)
          /\ \A i \in 1..Len(a) + Len(b) : r[i] = IF i <= Len(a) THEN a[i] ELSE b[i - Len(a)]
      BY <2>1, <2>2, <2>3, ConcatProperties
    <3> QED BY <1>1, <1>3, <2>1, <2>2, <3>1, SMT
  <2> QED BY <1>1, <1>3, <2>1, <2>2, <2>4, SMT
<1> HIDE DEF r
<1> DEFINE Old(i) == IF i < n THEN i ELSE i + 1
<1>6. /\ \A i \in 1..(Len(s) - 1) : Old(i) \in 1..Len(s) /\ Old(i) # n
      /\ \A i, j \in 1..(Len(s) - 1) : Old(i) = Old(j) => i = j
  <2>1. n \in 1..Len(s)
    BY <1>3
  <2> QED BY <1>1, <2>1, SMT
<1>7. \A i \in 1..(Len(s) - 1) : r[i] = s[Old(i)]
  BY <1>5
<1> HIDE DEF Old
<1>8. Range(r) \subseteq Range(s)
  BY <1>1, <1>5, <1>6, <1>7, SMTT(30) DEF Range
<1>9. ASSUME IsInjective(s) PROVE e \notin Range(r) /\ IsInjective(r)
  <2>1. \A i, j \in 1..Len(s) : s[i] = s[j] => i = j
    BY <1>1, <1>9 DEF IsInjective
  <2>2. \A i \in 1..(Len(s) - 1) : r[i] # e
    BY <1>3, <1>6, <1>7, <2>1
  <2>3. \A i, j \in 1..(Len(s) - 1) : r[i] = r[j] => i = j
    BY <1>6, <1>7, <2>1
  <2> QED BY <1>5, <2>2, <2>3 DEF IsInjective, Range
<1> QED BY <1>5, <1>8, <1>9 DEF r

LEMMA ChainTyped ==
  ASSUME NEW id \in Ids, NEW fb \in Ids
  PROVE  Chain(id, fb) \in Seq(Ids)
<1>1. Truncations[id] \in Seq(Ids) /\ Truncations[fb] \in Seq(Ids) /\ Root \in Ids
  BY ServiceAssumption, TruncationsAssumption
<1> HIDE DEF Truncations
<1> QED BY <1>1 DEF Chain

(* A step of a thread that is not notifying.                               *)
LEMMA AsideNotify ==
  ASSUME NotifyInv, NEW t \in Threads, NEW from, NEW to,
         from \notin {"notify", "notifying"}, to \in Loc \ {"notify", "notifying"},
         Goto(t, from, to),
         key' \in [Threads -> Seq(Ids \cup Listeners)],
         \A u \in Threads \ {t} : key'[u] = key[u],
         UNCHANGED <<timestamp, notifier>>
  PROVE  NotifyInv'
<1>1. UNCHANGED <<timestamp, listeners, seen, notifyLock>> /\ None \notin Threads
  BY ServiceAssumption DEF notifier
<1>2. pc[t] = from /\ pc' = [pc EXCEPT ![t] = to]
  BY DEF Goto
<1>3. NotifyTyped'
  BY <1>1, <1>2 DEF NotifyInv, NotifyTyped
<1>4. notifyLock # t
  BY <1>2 DEF NotifyInv
<1>5. \A u \in Threads \ {t} : pc'[u] = pc[u] /\ key'[u] = key[u]
  BY <1>2 DEF NotifyInv, NotifyTyped
<1>6. \A u \in Threads : notifyLock = u => pc'[u] = "notifying" /\ Range(key'[u]) \subseteq Range(listeners)
  BY <1>4, <1>5 DEF NotifyInv
<1>7. ASSUME NEW l, NEW u \in Threads, Owes(u, l) PROVE Owes(u, l)'
  BY <1>1, <1>2, <1>5, <1>7 DEF Owes
<1> QED BY <1>1, <1>3, <1>6, <1>7 DEF NotifyInv

LEMMA ChangeNotify ==
  ASSUME NotifyInv, NEW t \in Threads, NEW fs, Change(t, fs)
  PROVE  NotifyInv'
<1>1. pc[t] = "idle" /\ pc' = [pc EXCEPT ![t] = "notify"]
  BY DEF Change, Goto
<1>2. timestamp' = timestamp + 1 /\ UNCHANGED <<listeners, seen, notifyLock, key>>
  BY DEF Change, ClearCaches, notifier
<1>3. NotifyTyped'
  BY <1>1, <1>2, SMTT(30) DEF NotifyInv, NotifyTyped, Loc
<1>4. pc'[t] = "notify"
  BY <1>1 DEF NotifyInv, NotifyTyped
<1>5. \A u \in Threads : notifyLock = u => pc'[u] = "notifying" /\ Range(key[u]) \subseteq Range(listeners)
  BY <1>1 DEF NotifyInv, NotifyTyped
<1>6. \A l : Owes(t, l)'
  BY <1>4 DEF Owes
<1> QED BY <1>2, <1>3, <1>5, <1>6 DEF NotifyInv

LEMMA TestsNotify ==
  ASSUME NotifyInv, NEW t \in Threads, NotifyTests(t)
  PROVE  NotifyInv'
<1> DEFINE to == IF listeners = <<>> THEN "idle" ELSE "notifying"
<1>1. pc[t] = "notify" /\ pc' = [pc EXCEPT ![t] = to]
  BY DEF NotifyTests, Goto
<1>2. UNCHANGED <<timestamp, listeners, seen, notifyLock, key>>
  BY DEF NotifyTests, notifier
<1>3. to \in Loc
  BY DEF Loc
<1>4. NotifyTyped'
  BY <1>1, <1>2, <1>3 DEF NotifyInv, NotifyTyped
<1>5. notifyLock # t
  BY <1>1 DEF NotifyInv
<1>6. \A u \in Threads \ {t} : pc'[u] = pc[u]
  BY <1>1 DEF NotifyInv, NotifyTyped
<1>7. \A u \in Threads : notifyLock = u => pc'[u] = "notifying" /\ Range(key[u]) \subseteq Range(listeners)
  BY <1>5, <1>6 DEF NotifyInv
<1>8. ASSUME NEW l \in Range(listeners) PROVE Owes(t, l)'
  <2>1. listeners # <<>>
    BY <1>8 DEF Range
  <2>2. pc'[t] = "notifying"
    BY <1>1, <2>1 DEF NotifyInv, NotifyTyped
  <2> QED BY <2>2, <1>2, <1>5 DEF Owes
<1> QED BY <1>2, <1>4, <1>7, <1>8 DEF NotifyInv

LEMMA LocksNotify ==
  ASSUME NotifyInv, NEW t \in Threads, NotifyLocks(t)
  PROVE  NotifyInv'
<1>1. /\ pc[t] = "notifying" /\ notifyLock = None /\ notifyLock' = t
      /\ key' = [key EXCEPT ![t] = listeners]
      /\ UNCHANGED <<timestamp, listeners, seen, pc>>
  BY DEF NotifyLocks
<1>2. listeners \in Seq(Ids \cup Listeners)
  BY SMTT(30) DEF NotifyInv, NotifyTyped
<1>3. NotifyTyped'
  BY <1>1, <1>2 DEF NotifyInv, NotifyTyped
<1>4. key'[t] = listeners
  BY <1>1 DEF NotifyInv, NotifyTyped
<1>5. \A l \in Range(listeners) : Owes(t, l)'
  BY <1>1, <1>4 DEF Owes
<1> QED BY <1>1, <1>3, <1>4, <1>5 DEF NotifyInv

LEMMA ListenerNotify ==
  ASSUME NotifyInv, NEW t \in Threads, NotifyListener(t)
  PROVE  NotifyInv'
<1>1. /\ pc[t] = "notifying" /\ notifyLock = t /\ key[t] # <<>>
      /\ seen' = [seen EXCEPT ![Head(key[t])] = timestamp]
      /\ key' = [key EXCEPT ![t] = Tail(key[t])]
      /\ UNCHANGED <<timestamp, listeners, notifyLock, pc>>
  BY DEF NotifyListener
<1>2. key[t] \in Seq(Ids \cup Listeners) /\ Range(key[t]) \subseteq Range(listeners)
  BY <1>1 DEF NotifyInv, NotifyTyped
<1>3. /\ Tail(key[t]) \in Seq(Ids \cup Listeners)
      /\ Head(key[t]) \in Range(key[t])
      /\ Range(Tail(key[t])) \subseteq Range(key[t])
      /\ Range(key[t]) \subseteq {Head(key[t])} \cup Range(Tail(key[t]))
  BY <1>1, <1>2, HeadTailRange
<1>4. NotifyTyped'
  BY <1>1, <1>3 DEF NotifyInv, NotifyTyped
<1>5. key'[t] = Tail(key[t]) /\ \A u \in Threads \ {t} : key'[u] = key[u]
  BY <1>1 DEF NotifyInv, NotifyTyped
<1>6. \A u \in Threads : notifyLock = u => pc[u] = "notifying" /\ Range(key'[u]) \subseteq Range(listeners)
  BY <1>1, <1>2, <1>3, <1>5
<1>7. Range(listeners) \subseteq Listeners
  BY SMTT(30) DEF NotifyInv, NotifyTyped, Range
<1>8. ASSUME NEW l \in Range(listeners) PROVE seen'[l] = timestamp \/ \E u \in Threads : Owes(u, l)'
  <2>1. CASE l = Head(key[t])
    BY <1>1, <1>7, <2>1 DEF NotifyInv, NotifyTyped
  <2>2. CASE l # Head(key[t])
    <3>1. seen'[l] = seen[l]
      BY <1>1, <1>7, <2>2 DEF NotifyInv, NotifyTyped
    <3>2. ASSUME NEW u \in Threads, Owes(u, l) PROVE Owes(u, l)'
      BY <1>1, <1>3, <1>5, <2>2, <3>2 DEF Owes
    <3> QED BY <3>1, <3>2 DEF NotifyInv
  <2> QED BY <2>1, <2>2
<1> QED BY <1>1, <1>4, <1>6, <1>8 DEF NotifyInv

LEMMA UnlocksNotify ==
  ASSUME NotifyInv, NEW t \in Threads, NotifyUnlocks(t)
  PROVE  NotifyInv'
<1>1. /\ pc[t] = "notifying" /\ notifyLock = t /\ key[t] = <<>> /\ notifyLock' = None
      /\ pc' = [pc EXCEPT ![t] = "idle"]
      /\ UNCHANGED <<timestamp, listeners, seen, key>>
  BY DEF NotifyUnlocks, Goto
<1>2. NotifyTyped'
  BY <1>1 DEF NotifyInv, NotifyTyped, Loc
<1>3. None \notin Threads
  BY ServiceAssumption
<1>4. Range(key[t]) = {}
  BY <1>1 DEF Range
<1>5. \A u \in Threads \ {t} : pc'[u] = pc[u]
  BY <1>1 DEF NotifyInv, NotifyTyped
<1>6. ASSUME NEW l, NEW u \in Threads, Owes(u, l) PROVE Owes(u, l)'
  BY <1>1, <1>3, <1>4, <1>5, <1>6 DEF Owes
<1> QED BY <1>1, <1>2, <1>3, <1>6 DEF NotifyInv

LEMMA AddListenerNotify ==
  ASSUME NotifyInv, NEW l \in Listeners, AddListener(l)
  PROVE  NotifyInv'
<1>1. /\ notifyLock = None /\ l \notin Range(listeners) /\ listeners' = Append(listeners, l)
      /\ seen' = [seen EXCEPT ![l] = timestamp]
      /\ UNCHANGED <<timestamp, notifyLock, pc, key>>
  BY DEF AddListener
<1>2. listeners' \in Seq(Listeners) /\ Range(listeners') \subseteq Range(listeners) \cup {l}
      /\ IsInjective(listeners')
  <2>1. listeners \in Seq(Listeners) /\ IsInjective(listeners)
    BY DEF NotifyInv, NotifyTyped
  <2>2. /\ Append(listeners, l) \in Seq(Listeners) /\ IsInjective(Append(listeners, l))
        /\ Range(Append(listeners, l)) \subseteq Range(listeners) \cup {l}
    BY <1>1, <2>1, AppendRange
  <2> QED BY <1>1, <2>2
<1>3. NotifyTyped'
  BY <1>1, <1>2 DEF NotifyInv, NotifyTyped
<1>4. None \notin Threads
  BY ServiceAssumption
<1>5. ASSUME NEW m, NEW u \in Threads, Owes(u, m) PROVE Owes(u, m)'
  BY <1>1, <1>5 DEF Owes
<1>6. Range(listeners) \subseteq Listeners
  BY SMTT(30) DEF NotifyInv, NotifyTyped, Range
<1>7. ASSUME NEW m \in Range(listeners') PROVE seen'[m] = timestamp \/ \E u \in Threads : Owes(u, m)'
  <2>1. CASE m = l
    BY <1>1, <2>1 DEF NotifyInv, NotifyTyped
  <2>2. CASE m # l
    <3>1. m \in Range(listeners) /\ seen'[m] = seen[m]
      BY <1>1, <1>2, <1>6, <2>2 DEF NotifyInv, NotifyTyped
    <3> QED BY <3>1, <1>5 DEF NotifyInv
  <2> QED BY <2>1, <2>2
<1> QED BY <1>1, <1>2, <1>3, <1>4, <1>7 DEF NotifyInv

LEMMA RemoveListenerNotify ==
  ASSUME NotifyInv, NEW l \in Listeners, RemoveListener(l)
  PROVE  NotifyInv'
<1>1. /\ notifyLock = None /\ l \in Range(listeners) /\ listeners' = RemoveFirst(listeners, l)
      /\ seen' = [seen EXCEPT ![l] = 0]
      /\ UNCHANGED <<timestamp, notifyLock, pc, key>>
  BY DEF RemoveListener
<1>2. listeners' \in Seq(Listeners) /\ Range(listeners') \subseteq Range(listeners) \ {l}
      /\ IsInjective(listeners')
  BY <1>1, RemoveRange DEF NotifyInv, NotifyTyped
<1>3. NotifyTyped'
  BY <1>1, <1>2 DEF NotifyInv, NotifyTyped
<1>4. None \notin Threads
  BY ServiceAssumption
<1>5. ASSUME NEW m, NEW u \in Threads, Owes(u, m) PROVE Owes(u, m)'
  BY <1>1, <1>5 DEF Owes
<1>6. Range(listeners) \subseteq Listeners
  BY SMTT(30) DEF NotifyInv, NotifyTyped, Range
<1>7. ASSUME NEW m \in Range(listeners') PROVE seen'[m] = timestamp \/ \E u \in Threads : Owes(u, m)'
  <2>1. m \in Range(listeners) /\ seen'[m] = seen[m]
    BY <1>1, <1>2, <1>6 DEF NotifyInv, NotifyTyped
  <2> QED BY <2>1, <1>5 DEF NotifyInv
<1> QED BY <1>1, <1>2, <1>3, <1>4, <1>7 DEF NotifyInv

LEMMA InitNotify == Init => NotifyInv
<1> SUFFICES ASSUME Init PROVE NotifyInv
  OBVIOUS
<1>1. /\ timestamp = 0 /\ listeners = <<>> /\ seen = [l \in Listeners |-> 0] /\ notifyLock = None
      /\ pc = [t \in Threads |-> "idle"] /\ key = [t \in Threads |-> <<>>]
  BY DEF Init
<1>2. NotifyTyped
  BY <1>1 DEF NotifyTyped, Loc
<1>3. Range(listeners) = {} /\ IsInjective(listeners)
  BY <1>1, SMTT(30) DEF Range, IsInjective
<1> QED BY <1>1, <1>2, <1>3, ServiceAssumption DEF NotifyInv

(* Both locales are IDs, and the timestamp keeps its bound.                *)
LocaleTyped == {default, fallback} \subseteq Defaults /\ timestamp \in 0..MaxChanges

LEMMA InitLocale == Init => LocaleTyped
BY ServiceAssumption, SMTT(30) DEF Init, LocaleTyped

LEMMA NextLocale ==
  ASSUME LocaleTyped, [Next]_vars
  PROVE  LocaleTyped'
<1>1. default' \in Defaults
  BY DEF LocaleTyped, Next, Step, vars, CreateKey, GetKey, RegisterFactory, Unregister, Reset, Change,
         NotifyTests, NotifyLocks, NotifyListener, NotifyUnlocks, TakeTimestamp, GetVisibleIDs,
         FillNames, IterateNames, AddListener, RemoveListener, SetDefault
<1>2. fallback' = fallback \/ fallback' = default
  BY DEF ValidateFallbackLocale, Next, Step, vars, CreateKey, GetKey, RegisterFactory, Unregister,
         Reset, Change, NotifyTests, NotifyLocks, NotifyListener, NotifyUnlocks, TakeTimestamp,
         GetVisibleIDs, FillNames, IterateNames, AddListener, RemoveListener, SetDefault
<1>3. timestamp' = timestamp \/ (timestamp < MaxChanges /\ timestamp' = timestamp + 1)
  BY DEF ClearCaches, Next, Step, vars, CreateKey, GetKey, RegisterFactory, Unregister, Reset, Change,
         NotifyTests, NotifyLocks, NotifyListener, NotifyUnlocks, TakeTimestamp, GetVisibleIDs,
         FillNames, IterateNames, AddListener, RemoveListener, SetDefault
<1>4. MaxChanges \in Nat
  BY ServiceAssumption
<1>5. timestamp' \in 0..MaxChanges
  BY <1>3, <1>4, SMT DEF LocaleTyped
<1> QED BY <1>1, <1>2, <1>5 DEF LocaleTyped

LEMMA NextNotify ==
  ASSUME NotifyInv, LocaleTyped, [Next]_vars
  PROVE  NotifyInv'
<1> DEFINE SameNotifier ==
       /\ timestamp' = timestamp /\ listeners' = listeners /\ seen' = seen
       /\ notifyLock' = notifyLock /\ pc' = pc /\ key' = key
<1>2. ASSUME NEW t \in Threads, Step(t) PROVE NotifyInv'
  <2>1. CASE \E id \in Ids : CreateKey(t, id)
    <3>1. PICK id \in Ids : CreateKey(t, id)
      BY <2>1
    <3>2. Chain(id, default) \in Seq(Ids \cup Listeners)
      BY ChainTyped, ServiceAssumption, SMTT(30) DEF LocaleTyped
    <3>3. key' = [key EXCEPT ![t] = Chain(id, default)]
      BY <3>1 DEF CreateKey
    <3>4. /\ key' \in [Threads -> Seq(Ids \cup Listeners)]
          /\ \A u \in Threads \ {t} : key'[u] = key[u]
      BY <3>2, <3>3 DEF NotifyInv, NotifyTyped
    <3>5. Goto(t, "idle", "get") /\ UNCHANGED <<timestamp, notifier>>
      BY <3>1 DEF CreateKey
    <3>6. "get" \in Loc \ {"notify", "notifying"}
      BY DEF Loc
    <3> QED BY <3>4, <3>5, <3>6, AsideNotify
  <2>2. CASE GetKey(t)
    <3>1. /\ Goto(t, "get", "idle") /\ UNCHANGED <<timestamp, notifier>>
          /\ key' = [key EXCEPT ![t] = <<>>]
      BY <2>2 DEF GetKey
    <3>2. /\ key' \in [Threads -> Seq(Ids \cup Listeners)]
          /\ \A u \in Threads \ {t} : key'[u] = key[u]
      BY <3>1, SMTT(30) DEF NotifyInv, NotifyTyped
    <3>3. "idle" \in Loc \ {"notify", "notifying"}
      BY DEF Loc
    <3> QED BY <3>1, <3>2, <3>3, AsideNotify
  <2>3. CASE TakeTimestamp(t) \/ GetVisibleIDs(t) \/ (\E b \in BOOLEAN : FillNames(t, b)) \/ IterateNames(t)
    <3>1. UNCHANGED <<timestamp, notifier, key>>
      BY <2>3 DEF TakeTimestamp, GetVisibleIDs, FillNames, IterateNames
    <3>2. \E from \in Loc \ {"notify", "notifying"}, to \in Loc \ {"notify", "notifying"} : Goto(t, from, to)
      BY <2>3 DEF TakeTimestamp, GetVisibleIDs, FillNames, IterateNames, Loc
    <3>3. key \in [Threads -> Seq(Ids \cup Listeners)]
      BY DEF NotifyInv, NotifyTyped
    <3> QED BY <3>1, <3>2, <3>3, AsideNotify
  <2>4. CASE \/ \E f \in Factories : RegisterFactory(t, f) \/ Unregister(t, f)
             \/ Reset(t)
    BY <2>4, ChangeNotify DEF RegisterFactory, Unregister, Reset
  <2>5. CASE NotifyTests(t) \/ NotifyLocks(t) \/ NotifyListener(t) \/ NotifyUnlocks(t)
    BY <2>5, TestsNotify, LocksNotify, ListenerNotify, UnlocksNotify
  <2> QED BY <1>2, <2>1, <2>2, <2>3, <2>4, <2>5 DEF Step
<1>3. ASSUME NEW l \in Listeners, AddListener(l) \/ RemoveListener(l) PROVE NotifyInv'
  BY <1>3, AddListenerNotify, RemoveListenerNotify
<1>4. ASSUME SameNotifier PROVE NotifyInv'
  BY <1>4 DEF NotifyInv, NotifyTyped, Owes
<1>5. ASSUME NEW id \in Defaults, SetDefault(id) PROVE NotifyInv'
  BY <1>4, <1>5 DEF SetDefault, notifier
<1>6. CASE UNCHANGED vars
  <2>1. SameNotifier
    BY <1>6 DEF vars, notifier
  <2> QED BY <1>4, <2>1
<1> QED BY <1>2, <1>3, <1>5, <1>6 DEF Next

(* When no thread is about to notify, every listener has looked at the     *)
(* service after the last change, whatever the number of threads and       *)
(* listeners (ICUNotifier::notifyChanged, addListener, removeListener).    *)
THEOREM ChangesReachListeners == Spec => []NoLostChange
<1>1. NotifyInv => NoLostChange
  BY DEF NotifyInv, NoLostChange, Owes
<1> QED BY <1>1, InitLocale, NextLocale, InitNotify, NextNotify, PTL DEF Spec

(* A listener is called only while it is registered, whatever the number   *)
(* of threads and listeners (ICUNotifier::removeListener).                 *)
THEOREM RemovalIsFinal == Spec => []RemovedNotCalled
<1>1. NotifyInv => RemovedNotCalled
  BY DEF NotifyInv, RemovedNotCalled
<1> QED BY <1>1, InitLocale, NextLocale, InitNotify, NextNotify, PTL DEF Spec

-----------------------------------------------------------------------------
(* The visible IDs.  Those of the factories from the m-th: the first that  *)
(* handles the ID is visible.                                              *)
ShownFrom(m) ==
  {id \in Ids : \E i \in m..Len(factories) :
     /\ id \in Handles[factories[i]] /\ factories[i] \in Visible
     /\ \A j \in m..(i - 1) : id \notin Handles[factories[j]]}

Shown ==
  {id \in Ids :
     LET i == FirstIn(factories, 1, LAMBDA f : id \in Handles[f])
     IN i # 0 /\ factories[i] \in Visible}

LEMMA ShownIsFromFirst ==
  ASSUME factories \in Seq(Factories)
  PROVE  Shown = ShownFrom(1)
<1> SUFFICES ASSUME NEW id \in Ids PROVE id \in Shown <=> id \in ShownFrom(1)
  BY DEF Shown, ShownFrom
<1> DEFINE at == {i \in 1..Len(factories) : id \in Handles[factories[i]]}
           first == FirstIn(factories, 1, LAMBDA f : id \in Handles[f])
<1>1. first = IF at # {} THEN Min(at) ELSE 0
  BY DEF FirstIn
<1>2. id \in Shown <=> first # 0 /\ factories[first] \in Visible
  BY DEF Shown
<1>3. Len(factories) \in Nat /\ at \subseteq Nat
  OBVIOUS
<1> HIDE DEF first
<1>4. CASE at = {}
  BY <1>1, <1>2, <1>4 DEF ShownFrom
<1>5. CASE at # {}
  <2>1. first \in at /\ \A i \in at : first <= i
    BY <1>1, <1>3, <1>5, MinIs
  <2>2. ASSUME NEW i \in 1..Len(factories), id \in Handles[factories[i]],
               \A j \in 1..(i - 1) : id \notin Handles[factories[j]]
        PROVE  i = first
    <3>1. first <= i
      BY <2>1, <2>2
    <3>2. ~(first < i)
      BY <1>3, <2>1, <2>2, SMTT(30)
    <3> QED BY <1>3, <2>1, <3>1, <3>2, SMTT(30)
  <2>3. \A j \in 1..(first - 1) : id \notin Handles[factories[j]]
    BY <1>3, <2>1, SMT
  <2>4. first # 0
    BY <2>1, SMTT(30)
  <2> QED BY <1>2, <2>1, <2>2, <2>3, <2>4 DEF ShownFrom
<1> QED BY <1>4, <1>5

LEMMA ShownStep ==
  ASSUME factories \in Seq(Factories), NEW m \in 1..Len(factories)
  PROVE  ShownFrom(m) = UpdateVisibleIDs(factories[m], ShownFrom(m + 1))
<1>1. Len(factories) \in Nat /\ m \in m..Len(factories)
  OBVIOUS
<1>2. Handles[factories[m]] \subseteq Ids
  BY ServiceAssumption, SMTT(30)
<1> SUFFICES ASSUME NEW id \in Ids
             PROVE  id \in ShownFrom(m) <=> id \in UpdateVisibleIDs(factories[m], ShownFrom(m + 1))
  BY <1>2 DEF ShownFrom, UpdateVisibleIDs
<1>3. CASE id \in Handles[factories[m]]
  <2>1. id \in ShownFrom(m) => factories[m] \in Visible
    <3>1. ASSUME NEW i \in m..Len(factories), \A j \in m..(i - 1) : id \notin Handles[factories[j]]
          PROVE  i = m
      BY <1>1, <1>3, <3>1, SMT
    <3> QED BY <3>1 DEF ShownFrom
  <2>2. factories[m] \in Visible => id \in ShownFrom(m)
    <3>1. \A j \in m..(m - 1) : FALSE
      BY <1>1, SMT
    <3> QED BY <1>1, <1>3, <3>1 DEF ShownFrom
  <2> QED BY <1>3, <2>1, <2>2 DEF UpdateVisibleIDs
<1>4. CASE id \notin Handles[factories[m]]
  <2>1. \A i \in m..Len(factories) : id \in Handles[factories[i]] => i \in (m + 1)..Len(factories)
    BY <1>1, <1>4, SMT
  <2>2. \A i \in (m + 1)..Len(factories) :
          /\ i \in m..Len(factories)
          /\ (\A j \in m..(i - 1) : id \notin Handles[factories[j]]) <=>
             (\A j \in (m + 1)..(i - 1) : id \notin Handles[factories[j]])
    BY <1>1, <1>4, SMT
  <2>3. id \in ShownFrom(m) <=> id \in ShownFrom(m + 1)
    BY <2>1, <2>2 DEF ShownFrom
  <2> QED BY <1>4, <2>3 DEF UpdateVisibleIDs
<1> QED BY <1>3, <1>4

(* What getVisibleIDMap computes, from the last factory to the first.      *)
LEMMA VisibleIDMapIs ==
  ASSUME factories \in Seq(Factories), idCache = {None}
  PROVE  VisibleIDMap = Shown
<1> DEFINE L == Len(factories)
           body(f) == [n \in 0..L |-> IF n = 0 THEN {}
                                      ELSE UpdateVisibleIDs(factories[L + 1 - n], f[n - 1])]
           g == [n \in 0..L |-> ShownFrom(L + 1 - n)]
           ids == CHOOSE f : f = body(f)
<1>1. VisibleIDMap = ids[L]
  BY DEF VisibleIDMap
<1>2. L \in Nat
  OBVIOUS
<1>3. ShownFrom(L + 1) = {}
  <2>1. \A i \in (L + 1)..L : FALSE
    BY <1>2, SMT
  <2> QED BY <2>1 DEF ShownFrom
<1>4. ASSUME NEW n \in 1..L
      PROVE  ShownFrom(L + 1 - n) = UpdateVisibleIDs(factories[L + 1 - n], ShownFrom(L + 1 - (n - 1)))
  <2>1. L + 1 - n \in 1..L /\ (L + 1 - n) + 1 = L + 1 - (n - 1)
    BY <1>2, SMT
  <2> HIDE DEF L
  <2>2. ShownFrom(L + 1 - n) = UpdateVisibleIDs(factories[L + 1 - n], ShownFrom((L + 1 - n) + 1))
    BY <2>1, ShownStep DEF L
  <2> QED BY <2>1, <2>2
<1>5. \A n \in 0..L : n # 0 => n \in 1..L /\ n - 1 \in 0..L
  BY <1>2, SMT
<1>6. L + 1 - 0 = L + 1
  BY <1>2, SMT
<1> HIDE DEF L
<1>7. g = body(g)
  <2>1. ASSUME NEW n \in 0..L PROVE g[n] = body(g)[n]
    <3>1. CASE n = 0
      BY <1>3, <1>6, <3>1
    <3>2. CASE n # 0
      <4>1. g[n] = ShownFrom(L + 1 - n) /\ g[n - 1] = ShownFrom(L + 1 - (n - 1))
        BY <1>5, <3>2
      <4>2. body(g)[n] = UpdateVisibleIDs(factories[L + 1 - n], g[n - 1])
        BY <3>2
      <4> QED BY <1>4, <1>5, <3>2, <4>1, <4>2
    <3> QED BY <3>1, <3>2
  <2> QED BY <2>1
<1>8. ids = body(ids)
  BY <1>7
<1> HIDE DEF ids
<1>9. /\ 0 \in 0..L => ids[0] = {}
      /\ \A n \in 0..L : n # 0 => ids[n] = UpdateVisibleIDs(factories[L + 1 - n], ids[n - 1])
  BY <1>8
<1> DEFINE wrong == {n \in 0..L : ids[n] # ShownFrom(L + 1 - n)}
<1>10. ASSUME wrong # {} PROVE FALSE
  <2>1. PICK m \in wrong : \A n \in wrong : m <= n
    <3>1. wrong \subseteq Nat
      BY <1>2
    <3> HIDE DEF wrong
    <3> QED BY <1>10, <3>1, LeastNat
  <2>2. m # 0
    BY <1>3, <1>6, <1>9, <2>1
  <2>3. m - 1 \notin wrong
    <3>1. m \in Nat
      BY <1>2, <2>1, SMTT(30)
    <3>2. ~(m <= m - 1)
      BY <3>1, SMT
    <3> QED BY <2>1, <3>2
  <2>4. ids[m - 1] = ShownFrom(L + 1 - (m - 1))
    BY <1>5, <2>1, <2>2, <2>3, ZenonT(60)
  <2> QED BY <1>4, <1>5, <1>9, <2>1, <2>2, <2>4
<1>11. L \in 0..L /\ L + 1 - L = 1
  BY <1>2, SMT
<1>12. ids[L] = ShownFrom(1)
  BY <1>10, <1>11
<1> QED BY <1>1, <1>12, ShownIsFromFirst

(* The caches of lists and the enumerations.                               *)
ListInv ==
  /\ factories \in Seq(Factories) /\ timestamp \in Nat /\ pc \in [Threads -> Loc]
  /\ enum \in [Threads -> [stamp : Int, ids : SUBSET Ids]]
  /\ idCache = {None} \/ idCache = Shown
  /\ dnCache # None => idCache # {None}
  /\ \A t \in Threads : enum[t].stamp <= timestamp
  /\ \A t \in Threads : pc[t] # "list" /\ enum[t].stamp = timestamp => enum[t].ids = Shown

LEMMA ShownIds == Shown \in SUBSET Ids /\ Shown # {None}
BY ServiceAssumption DEF Shown

LEMMA ShownSame ==
  ASSUME factories' = factories PROVE Shown' = Shown
BY DEF Shown, FirstIn

LEMMA MapIsShown ==
  ASSUME ListInv PROVE VisibleIDMap = Shown
<1>1. CASE idCache = {None}
  BY <1>1, VisibleIDMapIs DEF ListInv
<1>2. CASE idCache # {None}
  BY <1>2 DEF ListInv, VisibleIDMap
<1> QED BY <1>1, <1>2

(* A step that leaves the lists alone.                                     *)
LEMMA AsideList ==
  ASSUME ListInv, pc' \in [Threads -> Loc],
         \A t \in Threads : pc'[t] # "list" => pc[t] # "list",
         factories' = factories, idCache' = idCache, dnCache' = dnCache,
         timestamp' = timestamp, enum' = enum
  PROVE  ListInv'
<1>1. Shown' = Shown
  BY ShownSame
<1> QED BY <1>1 DEF ListInv

LEMMA ChangeList ==
  ASSUME ListInv, NEW t \in Threads, NEW fs \in Seq(Factories), Change(t, fs)
  PROVE  ListInv'
<1>1. /\ pc' = [pc EXCEPT ![t] = "notify"] /\ factories' = fs /\ timestamp' = timestamp + 1
      /\ idCache' = {None} /\ dnCache' = None /\ enum' = enum
  BY DEF Change, Goto, ClearCaches
<1>2. timestamp' \in Nat /\ pc' \in [Threads -> Loc]
  BY <1>1, SMTT(30) DEF ListInv, Loc
<1>3. \A u \in Threads : enum[u].stamp \in Int /\ enum[u].stamp <= timestamp
  BY DEF ListInv
<1>4. timestamp \in Nat
  BY DEF ListInv
<1>5. \A u \in Threads : enum[u].stamp <= timestamp + 1 /\ enum[u].stamp # timestamp + 1
  BY <1>3, <1>4, SMT
<1>6. enum \in [Threads -> [stamp : Int, ids : SUBSET Ids]]
  BY DEF ListInv
<1> QED BY <1>1, <1>2, <1>5, <1>6 DEF ListInv

LEMMA TakeTimestampList ==
  ASSUME ListInv, NEW t \in Threads, TakeTimestamp(t)
  PROVE  ListInv'
<1>1. /\ pc' = [pc EXCEPT ![t] = "list"]
      /\ enum' = [enum EXCEPT ![t] = [stamp |-> timestamp, ids |-> {}]]
      /\ UNCHANGED <<factories, timestamp>> /\ idCache' = idCache /\ dnCache' = dnCache
  BY DEF TakeTimestamp, Goto, caches
<1>2. Shown' = Shown
  BY <1>1, ShownSame
<1>3. pc' \in [Threads -> Loc] /\ pc'[t] = "list" /\ \A u \in Threads \ {t} : pc'[u] = pc[u]
  BY <1>1 DEF ListInv, Loc
<1>4. [stamp |-> timestamp, ids |-> {}] \in [stamp : Int, ids : SUBSET Ids]
  BY SMTT(30) DEF ListInv
<1>5. enum' \in [Threads -> [stamp : Int, ids : SUBSET Ids]]
  BY <1>1, <1>4 DEF ListInv
<1>6. enum'[t].stamp = timestamp /\ \A u \in Threads \ {t} : enum'[u] = enum[u]
  BY <1>1 DEF ListInv
<1>7. timestamp <= timestamp
  BY DEF ListInv
<1>8. \A u \in Threads : enum'[u].stamp <= timestamp
  BY <1>6, <1>7 DEF ListInv
<1>9. ASSUME NEW u \in Threads, pc'[u] # "list", enum'[u].stamp = timestamp
      PROVE  enum'[u].ids = Shown
  BY <1>3, <1>6, <1>9 DEF ListInv
<1> QED BY <1>1, <1>2, <1>3, <1>5, <1>8, <1>9 DEF ListInv

LEMMA GetVisibleIDsList ==
  ASSUME ListInv, NEW t \in Threads, GetVisibleIDs(t)
  PROVE  ListInv'
<1>1. /\ pc' = [pc EXCEPT ![t] = "idle"] /\ idCache' = VisibleIDMap
      /\ enum' = [enum EXCEPT ![t].ids = VisibleIDMap]
      /\ UNCHANGED <<factories, timestamp, dnCache>>
  BY DEF GetVisibleIDs, Goto
<1>2. Shown' = Shown
  BY <1>1, ShownSame
<1>3. idCache' = Shown /\ enum' = [enum EXCEPT ![t].ids = Shown]
  BY <1>1, MapIsShown
<1>4. pc' \in [Threads -> Loc] /\ \A u \in Threads \ {t} : pc'[u] = pc[u]
  BY <1>1 DEF ListInv, Loc
<1>5. /\ enum' \in [Threads -> [stamp : Int, ids : SUBSET Ids]]
      /\ enum'[t].ids = Shown /\ enum'[t].stamp = enum[t].stamp
      /\ \A u \in Threads \ {t} : enum'[u] = enum[u]
  BY <1>3, ShownIds DEF ListInv
<1>6. \A u \in Threads : enum'[u].stamp <= timestamp
  BY <1>5 DEF ListInv
<1>7. ASSUME NEW u \in Threads, pc'[u] # "list", enum'[u].stamp = timestamp
      PROVE  enum'[u].ids = Shown
  BY <1>4, <1>5, <1>7 DEF ListInv
<1> QED BY <1>1, <1>2, <1>3, <1>4, <1>5, <1>6, <1>7, ShownIds DEF ListInv

LEMMA FillNamesList ==
  ASSUME ListInv, NEW t \in Threads, NEW same \in BOOLEAN, FillNames(t, same)
  PROVE  ListInv'
<1>1. /\ pc' = [pc EXCEPT ![t] = "names"] /\ pc[t] = "idle"
      /\ idCache' = VisibleIDMap \/ (dnCache # None /\ idCache' = idCache)
      /\ UNCHANGED <<factories, timestamp, enum>>
  BY DEF FillNames, Goto
<1>2. Shown' = Shown
  BY <1>1, ShownSame
<1>3. idCache' = Shown
  BY <1>1, MapIsShown, SMTT(30) DEF ListInv
<1>4. pc' \in [Threads -> Loc] /\ \A u \in Threads : pc'[u] # "list" => pc[u] # "list"
  BY <1>1 DEF ListInv, Loc
<1> QED BY <1>1, <1>2, <1>3, <1>4, ShownIds DEF ListInv

LEMMA InitList == Init => ListInv
<1> SUFFICES ASSUME Init PROVE ListInv
  OBVIOUS
<1>1. /\ factories = <<>> /\ timestamp = 0 /\ pc = [t \in Threads |-> "idle"]
      /\ enum = [t \in Threads |-> [stamp |-> -1, ids |-> {}]]
      /\ idCache = {None} /\ dnCache = None
  BY DEF Init
<1>2. /\ enum \in [Threads -> [stamp : Int, ids : SUBSET Ids]]
      /\ \A t \in Threads : enum[t].stamp = -1
  BY <1>1
<1>3. -1 <= 0 /\ -1 # 0
  OBVIOUS
<1> QED BY <1>1, <1>2, <1>3, SMTT(30) DEF ListInv, Loc

LEMMA NextList ==
  ASSUME ListInv, [Next]_vars PROVE ListInv'
<1> DEFINE Same == /\ factories' = factories /\ idCache' = idCache /\ dnCache' = dnCache
                   /\ timestamp' = timestamp /\ enum' = enum
<1>1. ASSUME NEW t \in Threads, Step(t) PROVE ListInv'
  <2>1. CASE \/ \E id \in Ids : CreateKey(t, id)
             \/ GetKey(t) \/ NotifyTests(t) \/ NotifyUnlocks(t) \/ IterateNames(t)
    <3>1. Same
      BY <2>1 DEF CreateKey, GetKey, NotifyTests, NotifyUnlocks, IterateNames, caches, notifier
    <3>2. \E from \in Loc \ {"list"}, to \in Loc \ {"list"} : Goto(t, from, to)
      BY <2>1 DEF CreateKey, GetKey, NotifyTests, NotifyUnlocks, IterateNames, Loc
    <3>3. pc' \in [Threads -> Loc] /\ \A u \in Threads : pc'[u] # "list" => pc[u] # "list"
      BY <3>2 DEF Goto, ListInv
    <3> QED BY <3>1, <3>3, AsideList
  <2>2. CASE NotifyLocks(t) \/ NotifyListener(t)
    <3>1. Same /\ pc' = pc
      BY <2>2 DEF NotifyLocks, NotifyListener, caches
    <3>2. pc \in [Threads -> Loc]
      BY DEF ListInv
    <3> QED BY <3>1, <3>2, AsideList
  <2>3. ASSUME NEW f \in Factories, RegisterFactory(t, f) PROVE ListInv'
    <3>1. <<f>> \o factories \in Seq(Factories)
      BY SMTT(30) DEF ListInv
    <3> QED BY <2>3, <3>1, ChangeList DEF RegisterFactory
  <2>4. ASSUME NEW f \in Factories, Unregister(t, f) PROVE ListInv'
    <3>1. factories \in Seq(Factories) /\ f \in Range(factories)
      BY <2>4 DEF ListInv, Unregister
    <3>2. RemoveFirst(factories, f) \in Seq(Factories)
      BY <3>1, RemoveRange
    <3> QED BY <2>4, <3>2, ChangeList DEF Unregister
  <2>5. CASE Reset(t)
    <3>1. <<>> \in Seq(Factories)
      OBVIOUS
    <3> QED BY <2>5, <3>1, ChangeList DEF Reset
  <2>6. CASE TakeTimestamp(t) \/ GetVisibleIDs(t) \/ \E same \in BOOLEAN : FillNames(t, same)
    BY <2>6, TakeTimestampList, GetVisibleIDsList, FillNamesList
  <2> QED BY <1>1, <2>1, <2>2, <2>3, <2>4, <2>5, <2>6 DEF Step
<1>2. CASE \/ \E l \in Listeners : AddListener(l) \/ RemoveListener(l)
           \/ \E id \in Defaults : SetDefault(id)
           \/ UNCHANGED vars
  <2>1. Same /\ pc' = pc
    BY <1>2 DEF AddListener, RemoveListener, SetDefault, vars, caches
  <2>2. pc \in [Threads -> Loc]
    BY DEF ListInv
  <2> QED BY <2>1, <2>2, AsideList
<1> QED BY <1>1, <1>2 DEF Next

(* An enumeration whose timestamp is the service's has the visible IDs of  *)
(* now, for any factories and threads (ServiceEnumeration::upToDate,       *)
(* ICUService::getVisibleIDMap).                                           *)
THEOREM EnumerationsUpToDate == Spec => []UpToDate
<1>1. ListInv => UpToDate
  BY DEF ListInv, UpToDate, Shown
<1> QED BY <1>1, InitList, NextList, PTL DEF Spec

(* The IDs that the display name cache points to are those of a visible    *)
(* factory that is registered, for any factories and threads (ICUService:: *)
(* getDisplayNames, clearCaches).                                          *)
THEOREM NamesKeepTheirIds == Spec => []NamesShareIds
<1>1. ASSUME ListInv PROVE NamesShareIds
  <2> SUFFICES ASSUME dnCache # None PROVE idCache # {None} /\
          \A id \in idCache : \E f \in Visible \cap Range(factories) : id \in Handles[f]
    BY DEF NamesShareIds
  <2>1. idCache = ShownFrom(1) /\ idCache # {None}
    BY <1>1, ShownIsFromFirst DEF ListInv
  <2>2. \A i \in 1..Len(factories) : factories[i] \in Range(factories)
    BY <1>1, SMTT(30) DEF ListInv, Range
  <2> QED BY <2>1, <2>2 DEF ShownFrom
<1> QED BY <1>1, InitList, NextList, PTL DEF Spec

-----------------------------------------------------------------------------
(* The search.  Whether a factory handles an ID; the first ID of a list    *)
(* that one handles; a list without such an ID.                            *)
Handled(x) == \E n \in 1..Len(factories) : x \in Handles[factories[n]]

FirstOf(s, x) ==
  \E i \in 1..Len(s) : s[i] = x /\ Handled(x) /\ \A j \in 1..(i - 1) : ~Handled(s[j])

NoneOf(s) == \A i \in 1..Len(s) : ~Handled(s[i])

LEMMA NoneNotFirst ==
  ASSUME NEW s, NoneOf(s), NEW x
  PROVE  ~FirstOf(s, x)
BY DEF NoneOf, FirstOf

(* A list and its rest, none of what comes before being handled.           *)
LEMMA RestFirst ==
  ASSUME NEW s, NEW u, Len(s) \in Nat, NEW j \in 1..Len(s), Len(u) = Len(s) - j + 1,
         \A k \in 1..Len(u) : u[k] = s[j + k - 1],
         \A i \in 1..(j - 1) : ~Handled(s[i])
  PROVE  /\ NoneOf(u) <=> NoneOf(s)
         /\ \A x : FirstOf(u, x) <=> FirstOf(s, x)
<1>1. \A k \in 1..Len(u) : j + k - 1 \in 1..Len(s)
  BY SMT
<1>2. \A i \in 1..Len(s) : i \in 1..(j - 1) \/ (i - j + 1 \in 1..Len(u) /\ j + (i - j + 1) - 1 = i)
  BY SMT
<1>3. ASSUME NoneOf(s) PROVE NoneOf(u)
  BY <1>1, <1>3 DEF NoneOf
<1>4. ASSUME NoneOf(u) PROVE NoneOf(s)
  <2> SUFFICES ASSUME NEW i \in 1..Len(s) PROVE ~Handled(s[i])
    BY DEF NoneOf
  <2>1. CASE i \in 1..(j - 1)
    BY <2>1
  <2>2. CASE i \notin 1..(j - 1)
    <3>1. i - j + 1 \in 1..Len(u) /\ j + (i - j + 1) - 1 = i
      BY <1>2, <2>2
    <3>2. u[i - j + 1] = s[i]
      BY <3>1
    <3> QED BY <1>4, <3>1, <3>2 DEF NoneOf
  <2> QED BY <2>1, <2>2
<1>5. ASSUME NEW x, FirstOf(u, x) PROVE FirstOf(s, x)
  <2>1. PICK k \in 1..Len(u) : u[k] = x /\ Handled(x) /\ \A i \in 1..(k - 1) : ~Handled(u[i])
    BY <1>5 DEF FirstOf
  <2>2. j + k - 1 \in 1..Len(s) /\ s[j + k - 1] = x
    BY <1>1, <2>1
  <2>3. ASSUME NEW i \in 1..(j + k - 2), i \notin 1..(j - 1) PROVE ~Handled(s[i])
    <3>1. i - j + 1 \in 1..Len(u) /\ i - j + 1 \in 1..(k - 1) /\ j + (i - j + 1) - 1 = i
      BY <2>3, SMT
    <3>2. u[i - j + 1] = s[i]
      BY <3>1
    <3> QED BY <2>1, <3>1, <3>2
  <2>4. (j + k - 1) - 1 = j + k - 2
    BY SMT
  <2>5. \A i \in 1..((j + k - 1) - 1) : ~Handled(s[i])
    BY <2>3, <2>4
  <2> QED BY <2>1, <2>2, <2>5 DEF FirstOf
<1>6. ASSUME NEW x, FirstOf(s, x) PROVE FirstOf(u, x)
  <2>1. PICK i \in 1..Len(s) : s[i] = x /\ Handled(x) /\ \A k \in 1..(i - 1) : ~Handled(s[k])
    BY <1>6 DEF FirstOf
  <2>2. i \notin 1..(j - 1)
    BY <2>1
  <2>3. i - j + 1 \in 1..Len(u) /\ j + (i - j + 1) - 1 = i
    BY <1>2, <2>2
  <2>4. u[i - j + 1] = x
    BY <2>1, <2>3
  <2>5. ASSUME NEW k \in 1..((i - j + 1) - 1) PROVE ~Handled(u[k])
    <3>1. k \in 1..Len(u) /\ j + k - 1 \in 1..(i - 1)
      BY SMT
    <3>2. u[k] = s[j + k - 1]
      BY <3>1
    <3> QED BY <2>1, <3>1, <3>2
  <2> QED BY <2>1, <2>3, <2>4, <2>5 DEF FirstOf
<1> QED BY <1>3, <1>4, <1>5, <1>6

LEMMA ConcatFirst ==
  ASSUME NEW a \in Seq(Ids), NEW b \in Seq(Ids)
  PROVE  /\ NoneOf(a \o b) <=> NoneOf(a) /\ NoneOf(b)
         /\ \A x : FirstOf(a \o b, x) <=> FirstOf(a, x) \/ (NoneOf(a) /\ FirstOf(b, x))
<1> DEFINE c == a \o b
<1>1. Len(a) \in Nat /\ Len(b) \in Nat
  OBVIOUS
<1>2. /\ Len(c) = Len(a) + Len(b)
      /\ \A i \in 1..Len(c) : c[i] = IF i <= Len(a) THEN a[i] ELSE b[i - Len(a)]
  <2>1. /\ Len(c) = Len(a) + Len(b)
        /\ \A i \in 1..Len(a) + Len(b) : c[i] = IF i <= Len(a) THEN a[i] ELSE b[i - Len(a)]
    BY ConcatProperties
  <2> QED BY <2>1
<1> HIDE DEF c
<1>3. \A i \in 1..Len(a) : i \in 1..Len(c) /\ i <= Len(a)
  BY <1>1, <1>2, SMT
<1>4. \A i \in 1..Len(a) : c[i] = a[i]
  BY <1>2, <1>3
<1>5. CASE NoneOf(a)
  <2>1. CASE Len(b) = 0
    <3>1. Len(c) = Len(a)
      BY <1>1, <1>2, <2>1, SMT
    <3>2. NoneOf(c)
      BY <1>4, <1>5, <3>1 DEF NoneOf
    <3>3. \A i \in 1..Len(b) : FALSE
      BY <2>1, SMT
    <3>4. NoneOf(b)
      BY <3>3 DEF NoneOf
    <3> QED BY <1>5, <3>2, <3>4, NoneNotFirst DEF c
  <2>2. CASE Len(b) # 0
    <3>1. /\ Len(a) + 1 \in 1..Len(c) /\ Len(b) = Len(c) - (Len(a) + 1) + 1
          /\ (Len(a) + 1) - 1 = Len(a) /\ Len(c) \in Nat
      BY <1>1, <1>2, <2>2, SMT
    <3>2. ASSUME NEW k \in 1..Len(b) PROVE b[k] = c[(Len(a) + 1) + k - 1]
      <4>1. /\ (Len(a) + 1) + k - 1 \in 1..Len(c) /\ ~((Len(a) + 1) + k - 1 <= Len(a))
            /\ ((Len(a) + 1) + k - 1) - Len(a) = k
        BY <1>1, <1>2, SMT
      <4> QED BY <1>2, <4>1
    <3>3. \A i \in 1..((Len(a) + 1) - 1) : ~Handled(c[i])
      BY <1>4, <1>5, <3>1 DEF NoneOf
    <3>4. (NoneOf(b) <=> NoneOf(c)) /\ \A x : FirstOf(b, x) <=> FirstOf(c, x)
      BY <3>1, <3>2, <3>3, RestFirst
    <3> QED BY <1>5, <3>4, NoneNotFirst DEF c
  <2> QED BY <2>1, <2>2
<1>6. CASE ~NoneOf(a)
  <2>1. ~NoneOf(c)
    BY <1>3, <1>4, <1>6 DEF NoneOf
  <2>2. ASSUME NEW x, FirstOf(a, x) PROVE FirstOf(c, x)
    <3>1. PICK i \in 1..Len(a) : a[i] = x /\ Handled(x) /\ \A j \in 1..(i - 1) : ~Handled(a[j])
      BY <2>2 DEF FirstOf
    <3>2. \A j \in 1..(i - 1) : j \in 1..Len(a)
      BY <1>1, SMT
    <3> QED BY <1>3, <1>4, <3>1, <3>2 DEF FirstOf
  <2>3. ASSUME NEW x, FirstOf(c, x) PROVE FirstOf(a, x)
    <3>1. PICK i \in 1..Len(c) : c[i] = x /\ Handled(x) /\ \A j \in 1..(i - 1) : ~Handled(c[j])
      BY <2>3 DEF FirstOf
    <3>2. PICK k \in 1..Len(a) : Handled(a[k])
      BY <1>6 DEF NoneOf
    <3>3. k \notin 1..(i - 1)
      BY <1>4, <3>1, <3>2
    <3>4. i \in 1..Len(a) /\ \A j \in 1..(i - 1) : j \in 1..Len(a)
      BY <1>1, <1>2, <3>3, SMT
    <3> QED BY <1>4, <3>1, <3>4 DEF FirstOf
  <2> QED BY <1>6, <2>1, <2>2, <2>3 DEF c
<1> QED BY <1>5, <1>6

LEMMA OneFirst ==
  ASSUME NEW y
  PROVE  /\ NoneOf(<<y>>) <=> ~Handled(y)
         /\ \A x : FirstOf(<<y>>, x) <=> x = y /\ Handled(y)
         /\ NoneOf(<<>>) /\ \A x : ~FirstOf(<<>>, x)
<1>1. Len(<<y>>) = 1 /\ <<y>>[1] = y /\ \A i \in 1..1 : i = 1
  OBVIOUS
<1>2. 1 \in 1..1 /\ \A j \in 1..(1 - 1) : FALSE
  OBVIOUS
<1>3. \A i \in 1..Len(<<>>) : FALSE
  OBVIOUS
<1>4. NoneOf(<<y>>) <=> ~Handled(y)
  BY <1>1, <1>2 DEF NoneOf
<1>5. ASSUME NEW x PROVE FirstOf(<<y>>, x) <=> x = y /\ Handled(y)
  BY <1>1, <1>2 DEF FirstOf
<1>6. NoneOf(<<>>) /\ \A x : ~FirstOf(<<>>, x)
  BY <1>3 DEF NoneOf, FirstOf
<1> QED BY <1>4, <1>5, <1>6

(* The truncations of an ID.                                               *)
LEMMA Truncate ==
  ASSUME NEW id \in Ids
  PROVE  /\ Truncations[id] \in Seq(Ids) /\ Len(Truncations[id]) \in Nat
         /\ id = Root => Truncations[id] = <<>>
         /\ id # Root =>
              /\ Truncated[id] \in Ids /\ Truncations[id][1] = id
              /\ Len(Truncations[id]) = Len(Truncations[Truncated[id]]) + 1
              /\ \A k \in 1..Len(Truncations[Truncated[id]]) :
                   Truncations[id][k + 1] = Truncations[Truncated[id]][k]
<1> HIDE DEF Truncations
<1>1. Truncations[id] \in Seq(Ids) /\ Len(Truncations[id]) \in Nat
  <2>1. Truncations[id] \in Seq(Ids)
    BY TruncationsAssumption
  <2> QED BY <2>1, LenProperties
<1>2. ASSUME id # Root
      PROVE  /\ Truncated[id] \in Ids /\ Truncations[id][1] = id
             /\ Len(Truncations[id]) = Len(Truncations[Truncated[id]]) + 1
             /\ \A k \in 1..Len(Truncations[Truncated[id]]) :
                  Truncations[id][k + 1] = Truncations[Truncated[id]][k]
  <2> DEFINE u == Truncations[Truncated[id]]
  <2>1. Truncated[id] \in Ids
    BY ServiceAssumption
  <2>2. u \in Seq(Ids) /\ Truncations[id] = <<id>> \o u
    BY <1>2, <2>1, TruncationsAssumption
  <2> HIDE DEF u
  <2>3. /\ (<<id>> \o u)[1] = id /\ Len(<<id>> \o u) = Len(u) + 1
        /\ \A k \in 1..Len(u) : (<<id>> \o u)[k + 1] = u[k]
    BY <2>2, SMT
  <2> QED BY <2>1, <2>2, <2>3 DEF u
<1> QED BY <1>1, <1>2, TruncationsAssumption

(* Each ID of a list of truncations is followed by its own.                *)
LEMMA TruncationsNest ==
  ASSUME NEW id \in Ids, NEW j \in 1..Len(Truncations[id])
  PROVE  LET y == Truncations[id][j] IN
         /\ y \in Ids /\ y # Root
         /\ Len(Truncations[y]) = Len(Truncations[id]) - j + 1
         /\ \A k \in 1..Len(Truncations[y]) : Truncations[y][k] = Truncations[id][j + k - 1]
<1> HIDE DEF Truncations
<1> DEFINE s == Truncations[id]
           Good(i) == /\ s[i] \in Ids /\ s[i] # Root
                      /\ Len(Truncations[s[i]]) = Len(s) - i + 1
                      /\ \A k \in 1..Len(Truncations[s[i]]) : Truncations[s[i]][k] = s[i + k - 1]
           wrong == {i \in 1..Len(s) : ~Good(i)}
<1>1. s \in Seq(Ids) /\ Len(s) \in Nat /\ \A i \in 1..Len(s) : s[i] \in Ids
  BY Truncate, SMTT(30)
<1>2. ASSUME wrong # {} PROVE FALSE
  <2>1. PICK m \in wrong : \A n \in wrong : m <= n
    <3>1. wrong \subseteq Nat
      BY <1>1
    <3> HIDE DEF wrong
    <3> QED BY <1>2, <3>1, LeastNat
  <2>2. m \in 1..Len(s) /\ ~Good(m)
    BY <2>1
  <2> HIDE DEF s
  <2>3. m # 1
    <3>1. CASE m = 1
      <4>1. id # Root
        <5>1. id = Root => s = <<>>
          BY Truncate DEF s
        <5>2. Len(<<>>) = 0 /\ \A i \in 1..0 : FALSE
          OBVIOUS
        <5> QED BY <2>2, <5>1, <5>2
      <4>2. s[1] = id
        BY <4>1, Truncate DEF s
      <4>3. Len(s) = Len(s) - 1 + 1 /\ \A k \in 1..Len(s) : 1 + k - 1 = k
        BY <1>1, SMT
      <4>4. Good(1)
        BY <4>1, <4>2, <4>3 DEF s
      <4> QED BY <2>2, <3>1, <4>4
    <3> QED BY <3>1
  <2>4. m - 1 \in 1..Len(s) /\ ~(m <= m - 1) /\ m \in Nat
    BY <1>1, <2>2, <2>3, SMT
  <2>5. Good(m - 1)
    BY <2>1, <2>4
  <2> DEFINE x == s[m - 1]
             y == Truncated[x]
  <2>6. /\ x \in Ids /\ x # Root /\ Len(Truncations[x]) = Len(s) - (m - 1) + 1
        /\ \A k \in 1..Len(Truncations[x]) : Truncations[x][k] = s[(m - 1) + k - 1]
    BY <2>5
  <2> HIDE DEF x
  <2>7. /\ y \in Ids /\ Len(Truncations[x]) = Len(Truncations[y]) + 1
        /\ \A k \in 1..Len(Truncations[y]) : Truncations[x][k + 1] = Truncations[y][k]
        /\ Len(Truncations[y]) \in Nat
    BY <2>6, Truncate
  <2> HIDE DEF y
  <2>8. Len(Truncations[y]) = Len(s) - m + 1
    <3>1. \A L, p, q \in Nat : p = L - (m - 1) + 1 /\ p = q + 1 => q = L - m + 1
      BY <2>4, SMT
    <3>2. Len(Truncations[x]) \in Nat
      BY <2>6, Truncate
    <3> QED BY <1>1, <2>6, <2>7, <3>1, <3>2, ZenonT(60)
  <2>9. ASSUME NEW k \in 1..Len(Truncations[y]) PROVE Truncations[y][k] = s[m + k - 1]
    <3>1. k + 1 \in 1..Len(Truncations[x]) /\ (m - 1) + (k + 1) - 1 = m + k - 1
      <4>1. \A q \in Nat : k \in 1..q => k + 1 \in 1..(q + 1) /\ (m - 1) + (k + 1) - 1 = m + k - 1
        BY <2>4, SMT
      <4> QED BY <2>7, <4>1
    <3> QED BY <2>6, <2>7, <3>1
  <2>10. 1 \in 1..Len(Truncations[y]) /\ m + 1 - 1 = m
    BY <1>1, <2>2, <2>8, SMT
  <2>11. y # Root
    <3>1. y = Root => Truncations[y] = <<>>
      BY <2>7, Truncate
    <3>2. Len(<<>>) = 0 /\ 1 \notin 1..0
      OBVIOUS
    <3> QED BY <2>10, <3>1, <3>2
  <2>12. y = s[m]
    <3>1. Truncations[y][1] = y
      BY <2>7, <2>11, Truncate
    <3> QED BY <2>9, <2>10, <3>1
  <2>13. Good(m)
    BY <2>7, <2>8, <2>9, <2>11, <2>12
  <2> QED BY <2>2, <2>13
<1>3. Good(j)
  BY <1>2
<1> QED BY <1>3

(* The first handled ID of a key, by what it is made of.                   *)
LEMMA ChainFirst ==
  ASSUME NEW id \in Ids, NEW fb \in Ids, NEW x
  PROVE  FirstOf(Chain(id, fb), x) <=>
           \/ FirstOf(Truncations[id], x)
           \/ id # Root /\ NoneOf(Truncations[id]) /\ FirstOf(Truncations[fb], x)
           \/ /\ NoneOf(Truncations[id]) /\ (id = Root \/ NoneOf(Truncations[fb]))
              /\ x = Root /\ Handled(Root)
<1> HIDE DEF Truncations
<1> DEFINE s == Truncations[id]
           u == Truncations[fb]
           m == IF id \in {Root, fb} THEN <<>> ELSE u
<1>1. s \in Seq(Ids) /\ u \in Seq(Ids) /\ <<Root>> \in Seq(Ids) /\ <<>> \in Seq(Ids)
  BY Truncate, ServiceAssumption, SMTT(30)
<1>2. Chain(id, fb) = (s \o m) \o <<Root>>
  BY DEF Chain
<1>3. id = Root => s = <<>>
  BY Truncate
<1>4. id = fb => s = u
  OBVIOUS
<1> HIDE DEF s, u
<1>5. m \in Seq(Ids) /\ s \o m \in Seq(Ids)
  <2>1. m \in Seq(Ids)
    BY <1>1
  <2> QED BY <1>1, <2>1, ConcatProperties
<1>6. FirstOf(Chain(id, fb), x) <=>
        FirstOf(s \o m, x) \/ (NoneOf(s \o m) /\ x = Root /\ Handled(Root))
  <2> HIDE DEF m
  <2>1. FirstOf((s \o m) \o <<Root>>, x) <=>
          FirstOf(s \o m, x) \/ (NoneOf(s \o m) /\ FirstOf(<<Root>>, x))
    BY <1>1, <1>5, ConcatFirst
  <2> QED BY <1>2, <2>1, OneFirst
<1>7. /\ FirstOf(s \o m, x) <=> FirstOf(s, x) \/ (NoneOf(s) /\ FirstOf(m, x))
      /\ NoneOf(s \o m) <=> NoneOf(s) /\ NoneOf(m)
  <2> HIDE DEF m
  <2> QED BY <1>1, <1>5, ConcatFirst
<1>8. NoneOf(<<>>) /\ ~FirstOf(<<>>, x)
  BY OneFirst
<1>9. CASE id = Root
  BY <1>3, <1>6, <1>7, <1>8, <1>9 DEF s, u
<1>10. CASE id = fb /\ id # Root
  BY <1>4, <1>6, <1>7, <1>8, <1>10, NoneNotFirst DEF s, u
<1>11. CASE id # fb /\ id # Root
  BY <1>6, <1>7, <1>11 DEF s, u
<1> QED BY <1>9, <1>10, <1>11

(* A descriptor that a search comes to, none before it being handled,      *)
(* resolves as the one the search began with: the key of the fallback may  *)
(* go through the default locale again, and finds nothing new there.       *)
LEMMA ChainSame ==
  ASSUME NEW id \in Ids, NEW fb \in Ids, NEW j \in 1..Len(Chain(id, fb)),
         \A i \in 1..(j - 1) : ~Handled(Chain(id, fb)[i]), NEW x
  PROVE  FirstOf(Chain(id, fb), x) <=> FirstOf(Chain(Chain(id, fb)[j], fb), x)
<1> HIDE DEF Truncations
<1> DEFINE s == Truncations[id]
           u == Truncations[fb]
           m == IF id \in {Root, fb} THEN <<>> ELSE u
           c == Chain(id, fb)
           y == c[j]
<1>1. /\ s \in Seq(Ids) /\ u \in Seq(Ids) /\ m \in Seq(Ids) /\ <<Root>> \in Seq(Ids)
      /\ Root \in Ids
  BY Truncate, ServiceAssumption, SMTT(30)
<1>2. c = (s \o m) \o <<Root>>
  BY DEF Chain
<1>3. FirstOf(c, x) <=>
           \/ FirstOf(s, x)
           \/ id # Root /\ NoneOf(s) /\ FirstOf(u, x)
           \/ NoneOf(s) /\ (id = Root \/ NoneOf(u)) /\ x = Root /\ Handled(Root)
  BY ChainFirst
<1>4. ASSUME NEW z \in Ids, z # Root
      PROVE  FirstOf(Chain(z, fb), x) <=>
               \/ FirstOf(Truncations[z], x)
               \/ NoneOf(Truncations[z]) /\ FirstOf(u, x)
               \/ NoneOf(Truncations[z]) /\ NoneOf(u) /\ x = Root /\ Handled(Root)
  BY <1>4, ChainFirst
<1>5. FirstOf(Chain(Root, fb), x) <=> x = Root /\ Handled(Root)
  <2>1. Truncations[Root] = <<>>
    BY <1>1, Truncate
  <2> QED BY <1>1, <2>1, ChainFirst, OneFirst
<1>6. ASSUME NEW z \in Ids, NEW k \in 1..Len(Truncations[z]),
             \A i \in 1..(k - 1) : ~Handled(Truncations[z][i])
      PROVE  LET w == Truncations[z][k] IN
             /\ w \in Ids /\ w # Root /\ (NoneOf(Truncations[w]) <=> NoneOf(Truncations[z]))
             /\ FirstOf(Truncations[w], x) <=> FirstOf(Truncations[z], x)
  <2> DEFINE w == Truncations[z][k]
  <2>1. /\ w \in Ids /\ w # Root
        /\ Len(Truncations[w]) = Len(Truncations[z]) - k + 1
        /\ \A i \in 1..Len(Truncations[w]) : Truncations[w][i] = Truncations[z][k + i - 1]
    BY TruncationsNest
  <2>2. Len(Truncations[z]) \in Nat
    BY Truncate
  <2> HIDE DEF w
  <2>3. (NoneOf(Truncations[w]) <=> NoneOf(Truncations[z])) /\
        (FirstOf(Truncations[w], x) <=> FirstOf(Truncations[z], x))
    BY <1>6, <2>1, <2>2, RestFirst
  <2> QED BY <2>1, <2>3 DEF w
<1>7. Len(s) \in Nat /\ Len(m) \in Nat
  <2> HIDE DEF s, m
  <2> QED BY <1>1, LenProperties
<1>8. /\ Len(c) = Len(s) + Len(m) + 1
      /\ \A i \in 1..Len(s) : c[i] = s[i]
      /\ \A i \in 1..Len(m) : c[Len(s) + i] = m[i]
      /\ c[Len(s) + Len(m) + 1] = Root
  <2> HIDE DEF s, m, c
  <2>1. /\ s \o m \in Seq(Ids) /\ Len(s \o m) = Len(s) + Len(m)
        /\ \A i \in 1..Len(s) + Len(m) : (s \o m)[i] = IF i <= Len(s) THEN s[i] ELSE m[i - Len(s)]
    BY <1>1, ConcatProperties
  <2>2. Len(<<Root>>) = 1 /\ <<Root>>[1] = Root
    OBVIOUS
  <2>3. /\ Len(c) = Len(s \o m) + 1
        /\ \A i \in 1..Len(s \o m) + 1 : c[i] = IF i <= Len(s \o m) THEN (s \o m)[i]
                                               ELSE <<Root>>[i - Len(s \o m)]
    BY <1>1, <1>2, <2>1, <2>2, ConcatProperties, SMTT(30)
  <2> DEFINE p == Len(s)
             q == Len(m)
  <2>4. \A i \in 1..p : i \in 1..(p + q) + 1 /\ i <= p + q /\ i \in 1..p + q /\ i <= p
    BY <1>7, SMT
  <2>5. \A i \in 1..q : /\ p + i \in 1..(p + q) + 1 /\ p + i <= p + q /\ p + i \in 1..p + q
                        /\ ~(p + i <= p) /\ (p + i) - p = i
    BY <1>7, SMT
  <2>6. /\ (p + q) + 1 \in 1..(p + q) + 1 /\ ~((p + q) + 1 <= p + q)
        /\ ((p + q) + 1) - (p + q) = 1
    BY <1>7, SMT
  <2> HIDE DEF p, q
  <2>7. p = Len(s) /\ q = Len(m)
    BY DEF p, q
  <2>8. \A i \in 1..p : c[i] = s[i]
    BY <2>1, <2>3, <2>4, <2>7
  <2>9. \A i \in 1..q : c[p + i] = m[i]
    BY <2>1, <2>3, <2>5, <2>7, SMTT(30)
  <2>10. c[p + q + 1] = Root
    BY <2>1, <2>2, <2>3, <2>6, <2>7, ZenonT(60)
  <2> QED BY <2>1, <2>3, <2>7, <2>8, <2>9, <2>10
<1>9. j \in 1..(Len(s) + Len(m) + 1) /\ \A i \in 1..(j - 1) : ~Handled(c[i])
  BY <1>8
<1>10. CASE j \in 1..Len(s)
  <2>1. y = s[j]
    BY <1>8, <1>10
  <2>2. \A i \in 1..(j - 1) : i \in 1..Len(s)
    BY <1>7, <1>10, SMT
  <2>3. \A i \in 1..(j - 1) : ~Handled(s[i])
    BY <1>8, <1>9, <2>2
  <2>4. /\ y \in Ids /\ y # Root /\ (NoneOf(Truncations[y]) <=> NoneOf(s))
        /\ FirstOf(Truncations[y], x) <=> FirstOf(s, x)
    BY <1>6, <1>10, <2>1, <2>3
  <2>5. id # Root
    <3>1. id = Root => s = <<>>
      BY Truncate
    <3>2. Len(<<>>) = 0 /\ j \notin 1..0
      BY SMT
    <3> QED BY <1>10, <3>1, <3>2
  <2> HIDE DEF s, u, c, y
  <2> QED BY <1>3, <1>4, <2>4, <2>5 DEF c, y
<1>11. CASE j \notin 1..Len(s)
  <2>1. \A i \in 1..Len(s) : i \in 1..(j - 1)
    <3> HIDE DEF s, m, c
    <3> QED BY <1>7, <1>9, <1>11, SMT
  <2>2. NoneOf(s)
    BY <1>8, <1>9, <2>1 DEF NoneOf
  <2>3. CASE j - Len(s) \in 1..Len(m)
    <3> DEFINE k == j - Len(s)
    <3>1. id \notin {Root, fb} /\ m = u
      <4>1. Len(<<>>) = 0 /\ j - Len(s) \notin 1..0
        BY SMT
      <4> QED BY <2>3, <4>1
    <3>2. y = u[k]
      <4>1. Len(s) + k = j
        <5> HIDE DEF s, m, c
        <5> QED BY <1>7, <1>9, SMT
      <4> QED BY <1>8, <2>3, <3>1, <4>1
    <3>3. \A i \in 1..(k - 1) : i \in 1..Len(m) /\ Len(s) + i \in 1..(j - 1)
      <4> HIDE DEF s, m, c
      <4> QED BY <1>7, <1>9, <2>3, SMT
    <3>4. \A i \in 1..(k - 1) : ~Handled(u[i])
      BY <1>8, <1>9, <3>1, <3>3
    <3>5. /\ y \in Ids /\ y # Root /\ (NoneOf(Truncations[y]) <=> NoneOf(u))
          /\ FirstOf(Truncations[y], x) <=> FirstOf(u, x)
      <4>1. k \in 1..Len(u)
        BY <2>3, <3>1
      <4> HIDE DEF k
      <4> QED BY <1>6, <3>2, <3>4, <4>1
    <3>6. ~FirstOf(s, x)
      BY <2>2, NoneNotFirst
    <3>7. NoneOf(u) => ~FirstOf(u, x)
      BY NoneNotFirst
    <3> HIDE DEF s, u, c, y
    <3> QED BY <1>3, <1>4, <2>2, <3>1, <3>5, <3>6, <3>7 DEF c, y
  <2>4. CASE j - Len(s) \notin 1..Len(m)
    <3>1. j = Len(s) + Len(m) + 1 /\ \A i \in 1..Len(m) : Len(s) + i \in 1..(j - 1)
      <4> HIDE DEF s, m, c
      <4> QED BY <1>7, <1>9, <1>11, <2>4, SMT
    <3>2. y = Root
      BY <1>8, <3>1
    <3>3. NoneOf(m)
      BY <1>8, <1>9, <3>1 DEF NoneOf
    <3>4. id = Root \/ NoneOf(u)
      BY <2>2, <3>3
    <3>5. ~FirstOf(s, x) /\ (id # Root => ~FirstOf(u, x))
      BY <2>2, <3>4, NoneNotFirst
    <3> HIDE DEF s, u, c, y
    <3> QED BY <1>3, <1>5, <2>2, <3>2, <3>4, <3>5 DEF c, y
  <2> QED BY <2>3, <2>4
<1> QED BY <1>10, <1>11

(* What a factory makes of an ID: the first in the list that handles it.   *)
First(x) == FirstIn(factories, 1, LAMBDA f : x \in Handles[f])
Made(x) == <<factories[First(x)], x>>

LEMMA FirstHandlingIs ==
  ASSUME factories \in Seq(Factories), NEW x
  PROVE  /\ FirstHandling(1, x) # 0 <=> Handled(x)
         /\ FirstHandling(1, x) = First(x)
<1> DEFINE at == {n \in 1..Len(factories) : x \in Handles[factories[n]]}
<1>1. FirstHandling(1, x) = IF at # {} THEN Min(at) ELSE 0
  BY DEF FirstHandling, FirstIn
<1>2. First(x) = IF at # {} THEN Min(at) ELSE 0
  BY DEF First, FirstIn
<1>3. Handled(x) <=> at # {}
  BY DEF Handled
<1>4. at \subseteq Nat /\ 0 \notin at
  OBVIOUS
<1> HIDE DEF at
<1>5. at # {} => Min(at) # 0
  BY <1>4, MinIs
<1> QED BY <1>1, <1>2, <1>3, <1>5

LEMMA ResolvedIs ==
  ASSUME factories \in Seq(Factories), NEW id \in Ids, fallback \in Ids, NEW x,
         FirstOf(Chain(id, fallback), x)
  PROVE  Resolved(id) = Made(x)
<1> DEFINE c == Chain(id, fallback)
           at == {i \in 1..Len(c) : \E f \in Range(factories) : c[i] \in Handles[f]}
           first == FirstIn(c, 1, LAMBDA y : \E f \in Range(factories) : y \in Handles[f])
<1>1. first = IF at # {} THEN Min(at) ELSE 0
  BY DEF FirstIn
<1>2. \A y : Handled(y) <=> \E f \in Range(factories) : y \in Handles[f]
  <2>1. DOMAIN factories = 1..Len(factories)
    BY LenProperties
  <2> QED BY <2>1 DEF Handled, Range
<1>3. Resolved(id) = Made(c[first])
  BY DEF Resolved, Made, First
<1>4. \A i \in 1..Len(c) : i \in at <=> Handled(c[i])
  BY <1>2
<1>5. PICK k \in 1..Len(c) : c[k] = x /\ Handled(x) /\ \A j \in 1..(k - 1) : ~Handled(c[j])
  BY DEF FirstOf
<1>6. at \subseteq Nat /\ at \subseteq 1..Len(c) /\ Len(c) \in Nat
  <2>1. c \in Seq(Ids)
    BY ChainTyped
  <2>2. Len(c) \in Nat
    BY <2>1, LenProperties
  <2> QED BY <2>2
<1> HIDE DEF c, at, first
<1>7. k \in at
  BY <1>4, <1>5
<1>8. first \in at /\ first <= k
  BY <1>1, <1>6, <1>7, MinIs
<1>9. first \notin 1..(k - 1)
  BY <1>4, <1>5, <1>6, <1>8
<1>10. first = k
  BY <1>6, <1>8, <1>9, SMT
<1> QED BY <1>3, <1>5, <1>10

(* What the loop of getKey finds when no factory asks the service again:   *)
(* its key's first descriptor that is cached or handled.                   *)
FoundAt(c, i, r) ==
  /\ r.found /\ r.tried = SubSeq(c, 1, i - 1) /\ r.deleted = {}
  /\ \A j \in 1..(i - 1) : c[j] \notin DOMAIN cache /\ ~Handled(c[j])
  /\ \/ /\ c[i] \in DOMAIN cache /\ r.hit
        /\ r.actual = cache[c[i]] /\ r.svc = entries[cache[c[i]]].svc
     \/ /\ c[i] \notin DOMAIN cache /\ Handled(c[i]) /\ ~r.hit
        /\ r.actual = c[i] /\ r.svc = Made(c[i])

LEMMA SearchFinds ==
  ASSUME Delegates = {}, factories \in Seq(Factories), NEW c \in Seq(Ids)
  PROVE  ~Search(c).found \/ \E i \in 1..Len(c) : FoundAt(c, i, Search(c))
<1> DEFINE Stop(x) == x \in DOMAIN cache \/ FirstHandling(1, x) # 0
           at == {i \in 1..Len(c) : Stop(c[i])}
           i == IF at # {} THEN Min(at) ELSE 0
           n == FirstHandling(1, c[i])
           tried == SubSeq(c, 1, i - 1)
           hit == [found |-> TRUE, svc |-> entries[cache[c[i]]].svc, actual |-> cache[c[i]],
                   tried |-> tried, hit |-> TRUE, deleted |-> {}]
           miss == [found |-> TRUE, svc |-> <<factories[n], c[i]>>, actual |-> c[i],
                    tried |-> tried, hit |-> FALSE, deleted |-> {}]
           more(g) == LET again == g[n + 1, i] IN
                      IF ~again.found THEN Nothing
                      ELSE [again EXCEPT !.actual = c[i], !.tried = tried, !.hit = FALSE,
                              !.deleted = @ \cup IF again.hit /\ again.tried # <<>>
                                                 THEN {again.actual} ELSE {}]
           r == Search(c)
<1>1. \/ i = 0 /\ r = Nothing
      \/ i # 0 /\ c[i] \in DOMAIN cache /\ r = hit
      \/ i # 0 /\ c[i] \notin DOMAIN cache /\ r = miss
  <2> DEFINE g == Again(c)
  <2>1. r = Loop(c, 1, 1, g)
    BY DEF Search
  <2> HIDE DEF g
  <2>2. Loop(c, 1, 1, g) = IF i = 0 THEN Nothing ELSE IF c[i] \in DOMAIN cache THEN hit
                           ELSE IF factories[n] \notin Delegates THEN miss ELSE more(g)
    BY DEF Loop, FirstIn
  <2> HIDE DEF i, r, hit, miss, more, n
  <2> QED BY <2>1, <2>2
<1>2. Nothing.found = FALSE
  BY DEF Nothing
<1>3. ASSUME i # 0
      PROVE  i \in 1..Len(c) /\ Stop(c[i]) /\ \A j \in 1..(i - 1) : ~Stop(c[j])
  <2>1. at # {} /\ i = Min(at)
    BY <1>3
  <2>2. at \subseteq Nat /\ at \subseteq 1..Len(c) /\ Len(c) \in Nat
    OBVIOUS
  <2>3. i \in at /\ \A j \in at : i <= j
    <3> HIDE DEF at, i
    <3> QED BY <2>1, <2>2, MinIs
  <2> HIDE DEF i
  <2>4. \A j \in 1..(i - 1) : j \in 1..Len(c) /\ ~(i <= j)
    BY <2>2, <2>3, SMT
  <2> HIDE DEF Stop
  <2>5. i \in 1..Len(c) /\ Stop(c[i])
    BY <2>3
  <2>6. \A j \in 1..(i - 1) : j \notin at
    BY <2>3, <2>4
  <2>7. \A j \in 1..(i - 1) : ~Stop(c[j])
    BY <2>4, <2>6
  <2> QED BY <2>5, <2>7
<1> HIDE DEF i, r, at
<1>4. \A x : Stop(x) <=> x \in DOMAIN cache \/ Handled(x)
  BY FirstHandlingIs
<1> HIDE DEF Stop
<1>5. \A x : Stop(x) <=> x \in DOMAIN cache \/ Handled(x)
  BY <1>4
<1>6. CASE i = 0 /\ r = Nothing
  BY <1>2, <1>6 DEF r
<1>7. CASE i # 0 /\ c[i] \in DOMAIN cache /\ r = hit
  <2>1. FoundAt(c, i, r)
    BY <1>3, <1>5, <1>7 DEF FoundAt
  <2> QED BY <1>3, <1>7, <2>1 DEF r
<1>8. CASE i # 0 /\ c[i] \notin DOMAIN cache /\ r = miss
  <2>1. FoundAt(c, i, r)
    <3>1. miss.svc = Made(c[i])
      BY FirstHandlingIs DEF Made
    <3> QED BY <1>3, <1>5, <1>8, <3>1 DEF FoundAt
  <2> QED BY <1>3, <1>8, <2>1 DEF r
<1> QED BY <1>1, <1>6, <1>7, <1>8

LEMMA CountRange ==
  ASSUME NEW A, IsFiniteSet(A), NEW T, NEW s \in Seq(T), NEW S, S \subseteq A \cup Range(s)
  PROVE  /\ IsFiniteSet(A \cup Range(s)) /\ IsFiniteSet(S)
         /\ Cardinality(S) <= Cardinality(A) + Len(s)
<1>1. Len(s) \in Nat /\ s \in [1..Len(s) -> T] /\ DOMAIN s = 1..Len(s)
  BY LenProperties
<1>2. IsFiniteSet(1..Len(s)) /\ Cardinality(1..Len(s)) = Len(s)
  <2>1. 1 \in Int /\ Len(s) \in Int
    BY <1>1
  <2>2. IsFiniteSet(1..Len(s)) /\ Cardinality(1..Len(s)) = IF 1 > Len(s) THEN 0 ELSE Len(s) - 1 + 1
    BY <2>1, FS_Interval
  <2> QED BY <1>1, <2>2, SMT
<1>3. s \in Surjection(1..Len(s), Range(s))
  BY <1>1 DEF Surjection, Range
<1>4. IsFiniteSet(Range(s)) /\ Cardinality(Range(s)) <= Len(s)
  BY <1>2, <1>3, FS_Surjection, SMTT(30)
<1> DEFINE U == A \cup Range(s)
<1>5. /\ IsFiniteSet(U)
      /\ Cardinality(U) = Cardinality(A) + Cardinality(Range(s)) - Cardinality(A \cap Range(s))
  BY <1>4, FS_Union
<1>6. IsFiniteSet(A \cap Range(s))
  BY FS_Subset
<1>7. IsFiniteSet(S) /\ Cardinality(S) <= Cardinality(U)
  BY <1>5, FS_Subset
<1>8. /\ Cardinality(A) \in Nat /\ Cardinality(Range(s)) \in Nat /\ Cardinality(S) \in Nat
      /\ Cardinality(A \cap Range(s)) \in Nat /\ Cardinality(U) \in Nat
  BY <1>4, <1>5, <1>6, <1>7, FS_CardinalityType
<1> QED BY <1>1, <1>4, <1>5, <1>7, <1>8, SMT

(* The service cache.  Each descriptor points to the first of its          *)
(* fallbacks that is handled, which points to itself.                      *)
CacheTyped ==
  /\ factories \in Seq(Factories) /\ default \in Defaults /\ fallback \in Defaults
  /\ pc \in [Threads -> Loc] /\ DOMAIN key = Threads

Coherent ==
  /\ DOMAIN cache \subseteq Ids /\ IsFiniteSet(DOMAIN cache)
  /\ DOMAIN entries = Ids /\ \A a \in Ids : entries[a].refs \in Nat
  /\ \A id \in DOMAIN cache :
       /\ cache[id] \in DOMAIN cache /\ cache[cache[id]] = cache[id]
       /\ FirstOf(Chain(id, fallback), cache[id])
       /\ entries[cache[id]].svc = Made(cache[id])
  /\ EntriesAlive

KeysMade ==
  \A t \in Threads :
    pc[t] = "get" => fallback = default /\ \E id \in Ids : key[t] = Chain(id, fallback)

LEMMA FactoriesSame ==
  ASSUME factories' = factories
  PROVE  /\ \A s, x : FirstOf(s, x)' <=> FirstOf(s, x)
         /\ \A x : Made(x)' = Made(x)
<1>1. ASSUME NEW x PROVE Handled(x)' <=> Handled(x)
  BY DEF Handled
<1>2. ASSUME NEW s, NEW x PROVE FirstOf(s, x)' <=> FirstOf(s, x)
  BY <1>1 DEF FirstOf
<1>3. ASSUME NEW x PROVE Made(x)' = Made(x)
  BY DEF Made, First, FirstIn
<1> QED BY <1>2, <1>3

LEMMA CoherentSame ==
  ASSUME Coherent, factories' = factories, fallback' = fallback, cache' = cache, entries' = entries
  PROVE  Coherent'
<1>1. EntriesAlive'
  BY DEF Coherent, EntriesAlive, Referring
<1> QED BY <1>1, FactoriesSame DEF Coherent

LEMMA CoherentCleared ==
  ASSUME ClearServiceCache PROVE Coherent'
<1>1. cache' = <<>> /\ entries' = [a \in Ids |-> [svc |-> <<None, a>>, refs |-> 0]]
  BY DEF ClearServiceCache, NoEntries
<1>2. DOMAIN cache' = {}
  BY <1>1, SMTT(30)
<1>3. IsFiniteSet({}) /\ Cardinality({}) = 0
  BY FS_EmptySet
<1>4. \A a \in Ids : Referring(a)' = {}
  BY <1>2 DEF Referring
<1>5. DOMAIN entries' = Ids /\ \A a \in Ids : entries'[a].refs = 0
  BY <1>1
<1>6. EntriesAlive'
  <2>1. 0 >= 0
    BY SMT
  <2> QED BY <1>3, <1>4, <1>5, <2>1 DEF EntriesAlive
<1>7. 0 \in Nat
  OBVIOUS
<1> QED BY <1>2, <1>3, <1>5, <1>6, <1>7 DEF Coherent

LEMMA ValidateCoherent ==
  ASSUME Coherent, ValidateFallbackLocale, factories' = factories
  PROVE  Coherent'
<1>1. CASE default # fallback
  BY <1>1, CoherentCleared DEF ValidateFallbackLocale
<1>2. CASE default = fallback
  BY <1>2, CoherentSame DEF ValidateFallbackLocale
<1> QED BY <1>1, <1>2

(* getKey stores what it found.                                            *)
LEMMA GetKeyCoherent ==
  ASSUME Delegates = {}, CacheTyped, Coherent, KeysMade, NEW t \in Threads, GetKey(t)
  PROVE  Coherent'
<1> DEFINE r == Search(key[t])
<1>0. PICK x : x = r.actual
  OBVIOUS
<1> DEFINE tried == r.tried
           stored == {x} \cup Range(tried)
           refs == (IF r.hit THEN entries[x].refs ELSE 1) + Len(tried)
<1>1. /\ factories' = factories /\ fallback' = fallback /\ pc[t] = "get"
      /\ \/ cache' = cache /\ entries' = entries
         \/ /\ r.found
            /\ cache' = [id \in DOMAIN cache \cup stored |-> IF id \in stored THEN x ELSE cache[id]]
            /\ entries' = [a \in Ids |->
                 IF a \in r.deleted THEN [entries[a] EXCEPT !.refs = 0]
                 ELSE IF a = x THEN [svc |-> r.svc, refs |-> refs] ELSE entries[a]]
  BY <1>0 DEF GetKey, Goto
<1>2. CASE cache' = cache /\ entries' = entries
  BY <1>1, <1>2, CoherentSame
<1>3. CASE ~(cache' = cache /\ entries' = entries)
  <2>1. PICK id0 \in Ids : key[t] = Chain(id0, fallback)
    BY <1>1 DEF KeysMade
  <2> DEFINE c == key[t]
  <2>2. fallback \in Ids /\ factories \in Seq(Factories)
    BY ServiceAssumption DEF CacheTyped
  <2>3. c \in Seq(Ids)
    BY <2>1, <2>2, ChainTyped
  <2>4. PICK i \in 1..Len(c) : FoundAt(c, i, r)
    BY <1>1, <1>3, <2>2, <2>3, SearchFinds, ZenonT(60)
  <2> HIDE DEF r
  <2>5. /\ tried = SubSeq(c, 1, i - 1) /\ r.deleted = {}
        /\ \A j \in 1..(i - 1) : c[j] \notin DOMAIN cache /\ ~Handled(c[j])
    BY <2>4 DEF FoundAt
  <2>6. \/ c[i] \in DOMAIN cache /\ r.hit /\ x = cache[c[i]] /\ r.svc = entries[x].svc
        \/ c[i] \notin DOMAIN cache /\ Handled(c[i]) /\ ~r.hit /\ x = c[i] /\ r.svc = Made(x)
    BY <1>0, <2>4 DEF FoundAt
  <2>7. /\ tried \in Seq(Ids) /\ Len(tried) \in Nat
        /\ \A y \in Range(tried) : \E j \in 1..(i - 1) : y = c[j]
    <3>1. Len(c) \in Nat /\ \A j \in 1..(i - 1) : j \in 1..Len(c)
      BY <2>3, SMT
    <3>2. \A j \in 1..(i - 1) : c[j] \in Ids
      BY <2>3, <3>1, SMTT(30)
    <3>3. 1 \in Int /\ i - 1 \in Int
      BY SMT
    <3> HIDE DEF c
    <3>4. /\ SubSeq(c, 1, i - 1) \in Seq(Ids)
          /\ Len(SubSeq(c, 1, i - 1)) = IF 1 <= i - 1 THEN (i - 1) - 1 + 1 ELSE 0
          /\ \A k \in 1..((i - 1) - 1 + 1) : SubSeq(c, 1, i - 1)[k] = c[1 + k - 1]
      BY <3>2, <3>3, SubSeqProperties, SMTT(30)
    <3>5. \A k : 1 + k - 1 = k \/ k \notin Int
      BY SMT
    <3>6. Len(tried) = i - 1 /\ (i - 1) - 1 + 1 = i - 1
      BY <2>5, <3>3, <3>4, SMT
    <3>7. \A k \in 1..(i - 1) : tried[k] = c[k]
      BY <2>5, <3>4, <3>5, <3>6, SMTT(30)
    <3>8. tried \in Seq(Ids)
      BY <2>5, <3>4
    <3>9. DOMAIN tried = 1..(i - 1) /\ Len(tried) \in Nat
      <4> HIDE DEF tried
      <4> QED BY <3>6, <3>8, LenProperties
    <3> QED BY <3>7, <3>8, <3>9 DEF Range
  <2> HIDE DEF tried
  <2>8. \A y \in Range(tried) : y \in Ids /\ y \notin DOMAIN cache
    BY <2>5, <2>7, SMTT(30) DEF Range
  <2>9. FirstOf(c, x) /\ x \in Ids
    <3>1. CASE c[i] \in DOMAIN cache
      <4>1. x = cache[c[i]] /\ FirstOf(Chain(c[i], fallback), x) /\ x \in DOMAIN cache
        BY <2>6, <3>1 DEF Coherent
      <4>2. FirstOf(Chain(id0, fallback), x) <=> FirstOf(Chain(Chain(id0, fallback)[i], fallback), x)
        BY <2>1, <2>2, <2>5, ChainSame
      <4> QED BY <2>1, <4>1, <4>2 DEF Coherent
    <3>2. CASE c[i] \notin DOMAIN cache
      <4>1. x = c[i] /\ Handled(x)
        BY <2>6, <3>2
      <4>2. c[i] \in Ids
        BY <2>3
      <4> QED BY <2>5, <4>1, <4>2 DEF FirstOf
    <3> QED BY <3>1, <3>2
  <2>10. ASSUME NEW y \in Range(tried) PROVE FirstOf(Chain(y, fallback), x)
    <3>1. PICK j \in 1..(i - 1) : y = c[j]
      BY <2>7
    <3>2. j \in 1..Len(c) /\ \A k \in 1..(j - 1) : k \in 1..(i - 1)
      <4>1. Len(c) \in Nat
        BY <2>3, SMTT(30)
      <4> HIDE DEF c
      <4> QED BY <4>1, SMT
    <3>3. FirstOf(Chain(id0, fallback), x) <=> FirstOf(Chain(Chain(id0, fallback)[j], fallback), x)
      BY <2>1, <2>2, <2>5, <3>2, ChainSame
    <3> QED BY <2>1, <2>9, <3>1, <3>3
  <2>11. FirstOf(Chain(x, fallback), x)
    <3>1. CASE x \in DOMAIN cache
      <4>1. cache[x] = x
        BY <2>6, <3>1 DEF Coherent
      <4> QED BY <3>1, <4>1 DEF Coherent
    <3>2. CASE x \notin DOMAIN cache
      <4>1. x = c[i] /\ c[i] \notin DOMAIN cache
        BY <2>6, <3>2 DEF Coherent
      <4>2. FirstOf(Chain(id0, fallback), x) <=> FirstOf(Chain(Chain(id0, fallback)[i], fallback), x)
        BY <2>1, <2>2, <2>5, ChainSame
      <4> QED BY <2>1, <2>9, <4>1, <4>2
    <3> QED BY <3>1, <3>2
  <2>12. /\ x \in DOMAIN cache => cache[x] = x /\ r.hit /\ r.svc = Made(x)
         /\ x \notin DOMAIN cache => ~r.hit /\ r.svc = Made(x) /\ \A y \in DOMAIN cache : cache[y] # x
    BY <2>6 DEF Coherent
  <2> HIDE DEF c
  <2>13. /\ DOMAIN cache' = DOMAIN cache \cup stored
         /\ \A y \in stored : cache'[y] = x
         /\ \A y \in DOMAIN cache \ stored : cache'[y] = cache[y]
    BY <1>1, <1>3
  <2>14. /\ DOMAIN entries' = Ids /\ entries'[x] = [svc |-> r.svc, refs |-> refs]
         /\ \A a \in Ids \ {x} : entries'[a] = entries[a]
    BY <1>1, <1>3, <2>5, <2>9
  <2>15. r.svc = Made(x) /\ entries'[x].svc = Made(x) /\ entries'[x].refs = refs
    BY <2>12, <2>14, SMTT(30)
  <2>16. ASSUME NEW y \in DOMAIN cache'
         PROVE  /\ y \in Ids /\ cache'[y] \in DOMAIN cache' /\ cache'[cache'[y]] = cache'[y]
                /\ FirstOf(Chain(y, fallback), cache'[y])
                /\ entries'[cache'[y]].svc = Made(cache'[y])
    <3>1. CASE y \in stored
      BY <2>8, <2>9, <2>10, <2>11, <2>13, <2>15, <3>1
    <3>2. CASE y \notin stored
      <4>1. y \in DOMAIN cache /\ cache'[y] = cache[y]
        BY <2>13, <3>2
      <4>2. /\ y \in Ids /\ cache[y] \in DOMAIN cache /\ cache[y] \in Ids /\ cache[cache[y]] = cache[y]
            /\ FirstOf(Chain(y, fallback), cache[y]) /\ entries[cache[y]].svc = Made(cache[y])
        BY <4>1 DEF Coherent
      <4>3. cache[y] \in stored => cache[y] = x
        BY <2>8, <4>2
      <4>4. cache'[cache[y]] = cache[y]
        BY <2>13, <4>2, <4>3
      <4>5. entries'[cache[y]].svc = Made(cache[y])
        BY <2>14, <2>15, <4>2
      <4> QED BY <2>13, <4>1, <4>2, <4>4, <4>5
    <3> QED BY <3>1, <3>2
  <2>17. IsFiniteSet(DOMAIN cache')
    <3>1. IsFiniteSet(DOMAIN cache \cup {x})
      BY FS_AddElement DEF Coherent
    <3>2. DOMAIN cache' \subseteq (DOMAIN cache \cup {x}) \cup Range(tried)
      BY <2>13
    <3> QED BY <2>7, <3>1, <3>2, CountRange
  <2>18. \A a \in Ids : IsFiniteSet(Referring(a)) /\ Cardinality(Referring(a)) \in Nat
    <3>1. \A a \in Ids : Referring(a) \in SUBSET DOMAIN cache
      BY DEF Referring
    <3> QED BY <3>1, FS_Subset, FS_CardinalityType DEF Coherent
  <2>19. refs \in Nat /\ refs >= Cardinality(Referring(x)')
    <3>1. CASE x \in DOMAIN cache
      <4>1. Referring(x)' \subseteq Referring(x) \cup Range(tried)
        BY <2>12, <2>13, <3>1 DEF Referring
      <4>2. /\ IsFiniteSet(Referring(x)')
            /\ Cardinality(Referring(x)') <= Cardinality(Referring(x)) + Len(tried)
        BY <2>7, <2>9, <2>18, <4>1, CountRange
      <4>3. Cardinality(Referring(x)') \in Nat
        BY <4>2, FS_CardinalityType
      <4>4. entries[x].refs \in Nat /\ entries[x].refs >= Cardinality(Referring(x))
        BY <2>9 DEF Coherent, EntriesAlive
      <4>5. refs = entries[x].refs + Len(tried)
        <5>1. r.hit
          BY <2>12, <3>1
        <5> QED BY <5>1
      <4> QED BY <2>7, <2>9, <2>18, <4>2, <4>3, <4>4, <4>5, SMT
    <3>2. CASE x \notin DOMAIN cache
      <4>1. Referring(x)' \subseteq {x} \cup Range(tried)
        BY <2>12, <2>13, <3>2 DEF Referring
      <4>2. IsFiniteSet({x}) /\ Cardinality({x}) = 1
        BY FS_Singleton
      <4>3. /\ IsFiniteSet(Referring(x)')
            /\ Cardinality(Referring(x)') <= Cardinality({x}) + Len(tried)
        BY <2>7, <4>1, <4>2, CountRange
      <4>4. Cardinality(Referring(x)') \in Nat
        BY <4>3, FS_CardinalityType
      <4>5. refs = 1 + Len(tried)
        <5>1. ~r.hit
          BY <2>12, <3>2
        <5> QED BY <5>1
      <4> QED BY <2>7, <4>2, <4>3, <4>4, <4>5, SMT
    <3> QED BY <3>1, <3>2, ZenonT(60)
  <2> HIDE DEF refs
  <2>20. ASSUME NEW a \in Ids PROVE entries'[a].refs \in Nat /\ entries'[a].refs >= Cardinality(Referring(a)')
    <3>1. CASE a = x
      BY <2>15, <2>19, <3>1
    <3>2. CASE a # x
      <4>1. Referring(a)' \in SUBSET Referring(a)
        BY <2>13, <3>2 DEF Referring
      <4>2. Cardinality(Referring(a)') <= Cardinality(Referring(a)) /\ IsFiniteSet(Referring(a)')
        BY <2>18, <4>1, FS_Subset
      <4>3. Cardinality(Referring(a)') \in Nat
        BY <4>2, FS_CardinalityType
      <4>4. entries'[a] = entries[a] /\ entries[a].refs \in Nat
            /\ entries[a].refs >= Cardinality(Referring(a))
        BY <2>14, <3>2 DEF Coherent, EntriesAlive
      <4> QED BY <2>18, <4>2, <4>3, <4>4, SMT
    <3> QED BY <3>1, <3>2
  <2>21. EntriesAlive'
    BY <2>20 DEF EntriesAlive
  <2>22. \A s, z : FirstOf(s, z)' <=> FirstOf(s, z)
    BY <1>1, FactoriesSame
  <2>23. \A z : Made(z)' = Made(z)
    BY <1>1, FactoriesSame
  <2> QED BY <1>1, <2>14, <2>16, <2>17, <2>20, <2>21, <2>22, <2>23 DEF Coherent
<1> QED BY <1>2, <1>3

LEMMA InitCache == Init => Coherent /\ KeysMade
<1> SUFFICES ASSUME Init PROVE Coherent /\ KeysMade
  OBVIOUS
<1>1. cache = <<>> /\ entries = [a \in Ids |-> [svc |-> <<None, a>>, refs |-> 0]]
  BY DEF Init, NoEntries
<1>2. DOMAIN cache = {}
  BY <1>1, SMTT(30)
<1>3. IsFiniteSet({}) /\ Cardinality({}) = 0
  BY FS_EmptySet
<1>4. \A a \in Ids : Referring(a) = {}
  BY <1>2 DEF Referring
<1>5. DOMAIN entries = Ids /\ \A a \in Ids : entries[a].refs = 0
  BY <1>1
<1>6. EntriesAlive
  <2>1. 0 >= 0
    BY SMT
  <2> QED BY <1>3, <1>4, <1>5, <2>1, ZenonT(60) DEF EntriesAlive
<1>7. 0 \in Nat
  OBVIOUS
<1>8. Coherent
  BY <1>2, <1>3, <1>5, <1>6, <1>7 DEF Coherent
<1>9. KeysMade
  BY DEF KeysMade, Init
<1> QED BY <1>8, <1>9

LEMMA NextCache ==
  ASSUME Delegates = {}, CacheTyped, Coherent, KeysMade, [Next]_vars
  PROVE  Coherent' /\ KeysMade'
<1> DEFINE Same == /\ factories' = factories /\ fallback' = fallback
                   /\ cache' = cache /\ entries' = entries
<1>1. ASSUME NEW t \in Threads, NEW id \in Ids, CreateKey(t, id) PROVE Coherent' /\ KeysMade'
  <2>1. /\ ValidateFallbackLocale /\ factories' = factories /\ default' = default /\ fallback' = default
        /\ pc' = [pc EXCEPT ![t] = "get"] /\ key' = [key EXCEPT ![t] = Chain(id, default)]
    BY <1>1 DEF CreateKey, Goto, ValidateFallbackLocale
  <2>2. key'[t] = Chain(id, default) /\ \A u \in Threads \ {t} : key'[u] = key[u] /\ pc'[u] = pc[u]
    BY <2>1 DEF CacheTyped
  <2>3. ASSUME NEW u \in Threads, pc'[u] = "get"
        PROVE  fallback' = default' /\ \E z \in Ids : key'[u] = Chain(z, fallback')
    <3>1. CASE u = t
      BY <2>1, <2>2, <3>1
    <3>2. CASE u # t
      BY <2>1, <2>2, <2>3, <3>2 DEF KeysMade
    <3> QED BY <3>1, <3>2
  <2>4. KeysMade'
    BY <2>3 DEF KeysMade, Chain
  <2> QED BY <2>1, <2>4, ValidateCoherent
<1>2. ASSUME NEW t \in Threads, NEW from, NEW to, Goto(t, from, to), to # "get",
             default' = default, fallback' = fallback \/ fallback' = default,
             \A u \in Threads \ {t} : key'[u] = key[u]
      PROVE  KeysMade'
  <2>1. \A u \in Threads : pc'[u] = "get" => u # t /\ pc[u] = "get"
    BY <1>2 DEF Goto, CacheTyped
  <2>2. ASSUME NEW u \in Threads, pc'[u] = "get"
        PROVE  fallback' = default' /\ \E z \in Ids : key'[u] = Chain(z, fallback')
    BY <1>2, <2>1, <2>2 DEF KeysMade
  <2> QED BY <2>2 DEF KeysMade, Chain
<1>3. ASSUME NEW t \in Threads, GetKey(t) PROVE Coherent' /\ KeysMade'
  <2>1. /\ Goto(t, "get", "idle") /\ default' = default /\ fallback' = fallback
        /\ key' = [key EXCEPT ![t] = <<>>]
    BY <1>3 DEF GetKey
  <2>2. \A u \in Threads \ {t} : key'[u] = key[u]
    BY <2>1 DEF CacheTyped
  <2> QED BY <1>2, <1>3, <2>1, <2>2, GetKeyCoherent
<1>4. ASSUME NEW t \in Threads, NEW fs, Change(t, fs) PROVE Coherent' /\ KeysMade'
  <2>1. /\ Goto(t, "idle", "notify") /\ ClearServiceCache /\ default' = default /\ fallback' = fallback
        /\ key' = key
    BY <1>4 DEF Change, ClearCaches
  <2> QED BY <1>2, <2>1, CoherentCleared
<1>5. ASSUME NEW t \in Threads, GetVisibleIDs(t) \/ IterateNames(t) PROVE Coherent' /\ KeysMade'
  <2>1. /\ Goto(t, "list", "idle") \/ Goto(t, "names", "idle")
        /\ ValidateFallbackLocale /\ factories' = factories /\ default' = default /\ key' = key
    BY <1>5 DEF GetVisibleIDs, IterateNames
  <2>2. fallback' = default
    BY <2>1 DEF ValidateFallbackLocale
  <2> QED BY <1>2, <2>1, <2>2, ValidateCoherent, ZenonT(60)
<1>6. ASSUME NEW t \in Threads, NotifyTests(t) \/ NotifyUnlocks(t) \/ TakeTimestamp(t)
             \/ \E same \in BOOLEAN : FillNames(t, same)
      PROVE  Coherent' /\ KeysMade'
  <2>1. Same /\ default' = default /\ key' = key
    BY <1>6 DEF NotifyTests, NotifyUnlocks, TakeTimestamp, FillNames, caches
  <2>2. \E from, to : Goto(t, from, to) /\ to # "get"
    <3>1. ASSUME NotifyTests(t) PROVE \E from, to : Goto(t, from, to) /\ to # "get"
      <4>1. Goto(t, "notify", IF listeners = <<>> THEN "idle" ELSE "notifying")
        BY <3>1 DEF NotifyTests
      <4>2. (IF listeners = <<>> THEN "idle" ELSE "notifying") # "get"
        OBVIOUS
      <4> QED BY <4>1, <4>2, SMTT(30)
    <3>2. ASSUME ~NotifyTests(t) PROVE Goto(t, "notifying", "idle") \/ Goto(t, "idle", "list") \/ Goto(t, "idle", "names")
      BY <1>6, <3>2 DEF NotifyUnlocks, TakeTimestamp, FillNames
    <3>3. "idle" # "get" /\ "list" # "get" /\ "names" # "get"
      OBVIOUS
    <3> QED BY <3>1, <3>2, <3>3
  <2> QED BY <1>2, <2>1, <2>2, CoherentSame
<1>7. ASSUME NEW t \in Threads, NotifyLocks(t) \/ NotifyListener(t) PROVE Coherent' /\ KeysMade'
  <2>1. /\ Same /\ default' = default /\ pc' = pc /\ pc[t] = "notifying"
        /\ \E q : key' = [key EXCEPT ![t] = q]
    BY <1>7 DEF NotifyLocks, NotifyListener, caches
  <2>2. \A u \in Threads \ {t} : key'[u] = key[u]
    BY <2>1 DEF CacheTyped
  <2>3. ASSUME NEW u \in Threads, pc'[u] = "get"
        PROVE  fallback' = default' /\ \E z \in Ids : key'[u] = Chain(z, fallback')
    BY <2>1, <2>2, <2>3 DEF KeysMade
  <2>4. KeysMade'
    BY <2>3 DEF KeysMade, Chain
  <2> QED BY <2>1, <2>4, CoherentSame, ZenonT(60)
<1>8. ASSUME NEW id \in Defaults, SetDefault(id) PROVE Coherent' /\ KeysMade'
  <2>1. Same /\ pc' = pc /\ \A u \in Threads : pc[u] # "get"
    BY <1>8 DEF SetDefault, caches, Idle
  <2>2. KeysMade'
    BY <2>1 DEF KeysMade
  <2> QED BY <2>1, <2>2, CoherentSame
<1>9. ASSUME \/ \E l \in Listeners : AddListener(l) \/ RemoveListener(l)
             \/ UNCHANGED vars
      PROVE  Coherent' /\ KeysMade'
  <2>1. Same /\ default' = default /\ pc' = pc /\ key' = key
    BY <1>9 DEF AddListener, RemoveListener, vars, caches
  <2>2. KeysMade'
    BY <2>1 DEF KeysMade, Chain
  <2> QED BY <2>1, <2>2, CoherentSame
<1>10. ASSUME NEW t \in Threads, Step(t) PROVE Coherent' /\ KeysMade'
  <2>1. ASSUME NEW f \in Factories, RegisterFactory(t, f) \/ Unregister(t, f) PROVE Coherent' /\ KeysMade'
    BY <1>4, <2>1 DEF RegisterFactory, Unregister
  <2>2. ASSUME Reset(t) PROVE Coherent' /\ KeysMade'
    BY <1>4, <2>2 DEF Reset
  <2> HIDE DEF Same
  <2> QED BY <1>1, <1>3, <1>5, <1>6, <1>7, <1>10, <2>1, <2>2, ZenonT(60) DEF Step
<1> QED BY <1>8, <1>9, <1>10 DEF Next

(* With no factory that asks the service again, every cached descriptor    *)
(* gives the object that the factories and the default locale of now       *)
(* would: "the cache has to stay in synch with the factory list" (getKey), *)
(* for any IDs, any factories and any interleaving of threads.             *)
THEOREM CacheInSynch ==
  ASSUME Delegates = {} PROVE Spec => []CacheCoherent
<1>1. LocaleTyped /\ NotifyInv /\ ListInv => CacheTyped
  BY DEF LocaleTyped, NotifyInv, NotifyTyped, ListInv, CacheTyped
<1>2. ASSUME LocaleTyped, NotifyInv, ListInv, Coherent PROVE CacheCoherent
  <2>1. fallback \in Ids /\ factories \in Seq(Factories)
    BY <1>2, ServiceAssumption DEF LocaleTyped, ListInv
  <2>2. \A id \in DOMAIN cache : entries[cache[id]].svc = Resolved(id)
    BY <1>2, <2>1, ResolvedIs, SMTT(30) DEF Coherent
  <2>3. Range(factories) \subseteq Factories /\ Range(listeners) \subseteq Listeners
    BY <1>2, <2>1, SMTT(30) DEF NotifyInv, NotifyTyped, Range
  <2>4. idCache = {None} \/ idCache \subseteq Ids
    BY <1>2, ShownIds DEF ListInv
  <2>5. \A a \in Ids : entries[a].refs >= 0
    <3>1. \A n \in Nat : n >= 0
      BY SMT
    <3> QED BY <1>2, <3>1 DEF Coherent
  <2>6. TypeOK
    BY <1>2, <2>3, <2>4, <2>5, ZenonT(60) DEF TypeOK, LocaleTyped, NotifyInv, NotifyTyped, Coherent
  <2> QED BY <2>2, <2>6 DEF CacheCoherent
<1>3. ASSUME LocaleTyped, NotifyInv, ListInv, Coherent, KeysMade, [Next]_vars
      PROVE  (LocaleTyped /\ NotifyInv /\ ListInv /\ Coherent /\ KeysMade)'
  BY <1>1, <1>3, NextLocale, NextNotify, NextList, NextCache
<1> QED BY <1>2, <1>3, InitLocale, InitNotify, InitList, InitCache, PTL DEF Spec

(* With no factory that asks the service again, an entry is not released   *)
(* while a descriptor of the cache points to it (CacheEntry::ref, unref),  *)
(* however many fallbacks were stored for it and whenever.                 *)
THEOREM EntriesStayAlive ==
  ASSUME Delegates = {} PROVE Spec => []EntriesAlive
<1>1. LocaleTyped /\ NotifyInv /\ ListInv => CacheTyped
  BY DEF LocaleTyped, NotifyInv, NotifyTyped, ListInv, CacheTyped
<1>2. Coherent => EntriesAlive
  BY DEF Coherent
<1>3. ASSUME LocaleTyped, NotifyInv, ListInv, Coherent, KeysMade, [Next]_vars
      PROVE  (LocaleTyped /\ NotifyInv /\ ListInv /\ Coherent /\ KeysMade)'
  BY <1>1, <1>3, NextLocale, NextNotify, NextList, NextCache
<1> QED BY <1>2, <1>3, InitLocale, InitNotify, InitList, InitCache, PTL DEF Spec
=============================================================================
