------------------------- MODULE UnifiedCacheProofs -------------------------
(* The safety of the unified cache, for any threads, keys and values: the  *)
(* counts are exact and nothing that is referred to is deleted, although   *)
(* deletions are spread over several steps; copyOnWrite writes in place    *)
(* only where nobody else can look; clients of a key share its value; and  *)
(* a flush leaves nothing that is unused.                                  *)
EXTENDS UnifiedCache, FiniteSetTheorems, TLAPS

(* Most leaves are first-order: Zenon first, then Z3.                      *)
USE ZenonT(30), SMTT(20)

One(b) == IF b THEN 1 ELSE 0

(* The references to x, by the place they are in.  A value that is not     *)
(* allocated holds nothing, so that holds may be counted over all of Objs. *)
PtrRefs(x) == {t \in Threads : ptr[t] = x}
ValueRefs(x) == {f \in Threads \X Keys : value[f[1]][f[2]] = x}
HoldRefs(x) == {y \in Objs : holds[y] = x}
TableRefs(x) == {k \in Keys : table[k].val = x}

Hard(x) == Cardinality(PtrRefs(x)) + Cardinality(ValueRefs(x)) + Cardinality(HoldRefs(x))
Soft(x) == Cardinality(TableRefs(x)) + One(x = NoValue)

(* The frames of one thread: what a frame knows at each location, and that *)
(* the frames are a chain of nested calls, which goes down in Level.       *)
FrameOK(t, k) ==
  LET v == value[t][k]
      ok == status[t][k] = "ok"
  IN
  /\ pc[t][k] \in {"idle", "poll", "waiting", "create", "nested"} => v = Null /\ ok
  /\ pc[t][k] = "build" => v \in Objs \cup {Null} /\ ok
  /\ pc[t][k] = "put" => IF ok THEN v \in Objs ELSE v = NoValue
  /\ pc[t][k] = "ret" => IF ok THEN v \in Objs ELSE v \in {NoValue, Null}

Active(t, k) == pc[t][k] # "idle"

StackOK(t) ==
  \A p \in Keys :
    /\ pc[t][p] = "nested" => DepOf[p] \in Keys /\ Active(t, DepOf[p])
    /\ \A q \in Keys :
         p # q /\ Active(t, p) /\ Active(t, q) =>
           /\ Level[p] # Level[q]
           /\ Level[q] < Level[p] => pc[t][p] = "nested" /\ Level[q] <= Level[DepOf[p]]

Frames == \A t \in Threads : StackOK(t) /\ \A k \in Keys : FrameOK(t, k)

(* The table: a failure is stored with gNoValue.                           *)
TableInv == \A k \in Keys : table[k].status = "fail" => table[k].val = NoValue

(* What a pass of _flush relies on while it has the mutex.                 *)
FlushInv ==
  /\ flushing # "no" => mutex # Null /\ visit \subseteq Present
  /\ flushing = "no" => found = Null
  /\ found # Null => table[found] # Absent /\ found \notin visit
  /\ flushing \in {"cleanup", "wipe"} =>
       \A t \in Threads, k \in Keys : pc[t][k] = "idle"
  /\ flushing = "wipe" => Present \subseteq visit \cup {found}

(* The counts; a value that nobody refers to is being deleted, by one      *)
(* thread.                                                                 *)
Counts ==
  /\ \A x \in Values : soft[x] = Soft(x) /\ total[x] = Soft(x) + Hard(x)
  /\ \A x \in Objs \ alive : holds[x] = Null /\ total[x] = 0
  /\ \A t \in Threads :
       doomed[t] # Null =>
         /\ doomed[t] \in alive /\ total[doomed[t]] = 0
         /\ \A u \in Threads : doomed[u] = doomed[t] => u = t
  /\ \A x \in alive : total[x] = 0 => \E t \in Threads : doomed[t] = x

(* A thread in copyOnWrite.                                                *)
WriterInv ==
  \A t \in Threads :
    /\ writing[t] # "no" => ptr[t] # Null /\ \A k \in Keys : pc[t][k] = "idle"
    /\ writing[t] = "inplace" => total[ptr[t]] = 1

Inv == TypeOK /\ Frames /\ TableInv /\ FlushInv /\ Counts /\ WriterInv

(* What a client has for a key is in the table, as long as nothing is put  *)
(* there in vain; only the destructor of the cache takes away something    *)
(* that is used.                                                           *)
ClientShares(t) ==
  of[t] # Null => /\ ptr[t] # Null
                  /\ flushing # "wipe" => table[of[t]].val = ptr[t]

FrameShares(t, k) ==
  pc[t][k] = "ret" /\ status[t][k] = "ok" => table[k].val = value[t][k]

FoundUnused ==
  found # Null /\ flushing # "wipe" /\ table[found].val \in Objs => Hard(table[found].val) = 0

ShareInv ==
  "put" \notin Failures =>
    /\ \A t \in Threads : ClientShares(t) /\ \A k \in Keys : FrameShares(t, k)
    /\ FoundUnused

(* What a pass that has found nothing has looked at is used.               *)
PassInv ==
  /\ flushing # "no" /\ quiet /\ ~hit =>
       \A k \in Present : k \notin visit /\ k # found =>
          total[table[k].val] > soft[table[k].val]
  /\ \A t \in Threads : flushing # "no" /\ mutex = t /\ doomed[t] # Null => hit

-----------------------------------------------------------------------------
(* Updating and counting.                                                  *)
LEMMA Update2 ==
  ASSUME NEW R, NEW F \in [Threads -> [Keys -> R]], NEW t \in Threads, NEW k \in Keys, NEW v \in R
  PROVE  LET G == [F EXCEPT ![t][k] = v] IN
         /\ G \in [Threads -> [Keys -> R]]
         /\ G[t][k] = v
         /\ \A u \in Threads, q \in Keys : u # t \/ q # k => G[u][q] = F[u][q]
OBVIOUS

LEMMA OthersStay ==
  ASSUME NEW R, NEW F \in [Threads -> [Keys -> R]], NEW G, NEW t \in Threads, NEW k \in Keys,
         G = F \/ \E v : G = [F EXCEPT ![t][k] = v]
  PROVE  \A u \in Threads, q \in Keys : u # t \/ q # k => G[u][q] = F[u][q]
BY SMTT(30)

LEMMA Finite ==
  ASSUME NEW x
  PROVE  /\ IsFiniteSet(PtrRefs(x)) /\ IsFiniteSet(ValueRefs(x))
         /\ IsFiniteSet(HoldRefs(x)) /\ IsFiniteSet(TableRefs(x))
         /\ Cardinality(PtrRefs(x)) \in Nat /\ Cardinality(ValueRefs(x)) \in Nat
         /\ Cardinality(HoldRefs(x)) \in Nat /\ Cardinality(TableRefs(x)) \in Nat
<1>1. IsFiniteSet(Threads \X Keys)
  BY CacheAssumption, FS_Product
<1>2. /\ PtrRefs(x) \subseteq Threads /\ ValueRefs(x) \subseteq Threads \X Keys
      /\ HoldRefs(x) \subseteq Objs /\ TableRefs(x) \subseteq Keys
  BY DEF PtrRefs, ValueRefs, HoldRefs, TableRefs
<1>3. /\ IsFiniteSet(PtrRefs(x)) /\ IsFiniteSet(ValueRefs(x))
      /\ IsFiniteSet(HoldRefs(x)) /\ IsFiniteSet(TableRefs(x))
  BY <1>1, <1>2, CacheAssumption, FS_Subset
<1> QED BY <1>3, FS_CardinalityType

LEMMA FiniteNext ==
  ASSUME NEW x
  PROVE  /\ IsFiniteSet(PtrRefs(x)') /\ IsFiniteSet(ValueRefs(x)')
         /\ IsFiniteSet(HoldRefs(x)') /\ IsFiniteSet(TableRefs(x)')
         /\ Cardinality(PtrRefs(x)') \in Nat /\ Cardinality(ValueRefs(x)') \in Nat
         /\ Cardinality(HoldRefs(x)') \in Nat /\ Cardinality(TableRefs(x)') \in Nat
<1>1. IsFiniteSet(Threads \X Keys)
  BY CacheAssumption, FS_Product
<1>2. /\ PtrRefs(x)' \subseteq Threads /\ ValueRefs(x)' \subseteq Threads \X Keys
      /\ HoldRefs(x)' \subseteq Objs /\ TableRefs(x)' \subseteq Keys
  BY DEF PtrRefs, ValueRefs, HoldRefs, TableRefs
<1>3. /\ IsFiniteSet(PtrRefs(x)') /\ IsFiniteSet(ValueRefs(x)')
      /\ IsFiniteSet(HoldRefs(x)') /\ IsFiniteSet(TableRefs(x)')
  BY <1>1, <1>2, CacheAssumption, FS_Subset
<1> QED BY <1>3, FS_CardinalityType

LEMMA CountTypes ==
  ASSUME NEW x
  PROVE  Soft(x) \in Nat /\ Hard(x) \in Nat /\ Soft(x)' \in Nat /\ Hard(x)' \in Nat
BY Finite, FiniteNext DEF Soft, Hard, One

(* Two finite sets that agree on everything but d.                         *)
LEMMA Differ ==
  ASSUME NEW A, NEW B, IsFiniteSet(A), IsFiniteSet(B), NEW d,
         \A e : e # d => (e \in A <=> e \in B)
  PROVE  Cardinality(B) = Cardinality(A) + One(d \in B) - One(d \in A)
<1>0. Cardinality(A) \in Nat /\ Cardinality(B) \in Nat
  BY FS_CardinalityType
<1>1. CASE d \in A /\ d \in B
  <2>1. A = B
    BY <1>1
  <2> QED BY <1>0, <1>1, <2>1 DEF One
<1>2. CASE d \notin A /\ d \notin B
  <2>1. A = B
    BY <1>2
  <2> QED BY <1>0, <1>2, <2>1 DEF One
<1>3. CASE d \in A /\ d \notin B
  <2>1. B = A \ {d}
    BY <1>3
  <2> QED BY <1>0, <1>3, <2>1, FS_RemoveElement, SMTT(30) DEF One
<1>4. CASE d \notin A /\ d \in B
  <2>1. B = A \cup {d}
    BY <1>4
  <2> QED BY <1>0, <1>4, <2>1, FS_AddElement, SMTT(30) DEF One
<1> QED BY <1>1, <1>2, <1>3, <1>4

(* A pointer, a frame, a value or a table entry that refers to something   *)
(* else.                                                                   *)
LEMMA PtrMoves ==
  ASSUME Typed, NEW t \in Threads, NEW v,
         \A u \in Threads : u # t => ptr'[u] = ptr[u], ptr'[t] = v, NEW x
  PROVE  Cardinality(PtrRefs(x)') = Cardinality(PtrRefs(x)) + One(x = v) - One(x = ptr[t])
<1>1. \A u : u # t => (u \in PtrRefs(x) <=> u \in PtrRefs(x)')
  BY DEF PtrRefs, Typed
<1>2. (t \in PtrRefs(x)' <=> x = v) /\ (t \in PtrRefs(x) <=> x = ptr[t])
  BY DEF PtrRefs, Typed
<1>3. Cardinality(PtrRefs(x)') = Cardinality(PtrRefs(x)) + One(t \in PtrRefs(x)') - One(t \in PtrRefs(x))
  BY <1>1, Finite, FiniteNext, Differ
<1> QED BY <1>2, <1>3 DEF One

LEMMA ValueMoves ==
  ASSUME Typed, NEW t \in Threads, NEW k \in Keys, NEW v,
         \A u \in Threads, q \in Keys : u # t \/ q # k => value'[u][q] = value[u][q],
         value'[t][k] = v, NEW x
  PROVE  Cardinality(ValueRefs(x)') =
           Cardinality(ValueRefs(x)) + One(x = v) - One(x = value[t][k])
<1> DEFINE d == <<t, k>>
<1>1. \A e : e # d => (e \in ValueRefs(x) <=> e \in ValueRefs(x)')
  <2> SUFFICES ASSUME NEW e \in Threads \X Keys, e # d
               PROVE  value'[e[1]][e[2]] = value[e[1]][e[2]]
    BY DEF ValueRefs
  <2>1. e = <<e[1], e[2]>> /\ e[1] \in Threads /\ e[2] \in Keys
    OBVIOUS
  <2> QED BY <2>1
<1>2. (d \in ValueRefs(x)' <=> x = v) /\ (d \in ValueRefs(x) <=> x = value[t][k])
  BY DEF ValueRefs
<1>3. Cardinality(ValueRefs(x)') =
        Cardinality(ValueRefs(x)) + One(d \in ValueRefs(x)') - One(d \in ValueRefs(x))
  BY <1>1, Finite, FiniteNext, Differ
<1> QED BY <1>2, <1>3 DEF One

LEMMA HoldMoves ==
  ASSUME Typed, NEW y \in Objs, NEW v,
         \A u \in Objs : u # y => holds'[u] = holds[u], holds'[y] = v, NEW x
  PROVE  Cardinality(HoldRefs(x)') = Cardinality(HoldRefs(x)) + One(x = v) - One(x = holds[y])
<1>1. \A u : u # y => (u \in HoldRefs(x) <=> u \in HoldRefs(x)')
  BY DEF HoldRefs, Typed
<1>2. (y \in HoldRefs(x)' <=> x = v) /\ (y \in HoldRefs(x) <=> x = holds[y])
  BY DEF HoldRefs, Typed
<1>3. Cardinality(HoldRefs(x)') = Cardinality(HoldRefs(x)) + One(y \in HoldRefs(x)') - One(y \in HoldRefs(x))
  BY <1>1, Finite, FiniteNext, Differ
<1> QED BY <1>2, <1>3 DEF One

LEMMA TableMoves ==
  ASSUME Typed, NEW k \in Keys, NEW e,
         \A u \in Keys : u # k => table'[u] = table[u], table'[k] = e, NEW x
  PROVE  Cardinality(TableRefs(x)') =
           Cardinality(TableRefs(x)) + One(x = e.val) - One(x = table[k].val)
<1>1. \A u : u # k => (u \in TableRefs(x) <=> u \in TableRefs(x)')
  BY DEF TableRefs, Typed
<1>2. (k \in TableRefs(x)' <=> x = e.val) /\ (k \in TableRefs(x) <=> x = table[k].val)
  BY DEF TableRefs, Typed
<1>3. Cardinality(TableRefs(x)') =
        Cardinality(TableRefs(x)) + One(k \in TableRefs(x)') - One(k \in TableRefs(x))
  BY <1>1, Finite, FiniteNext, Differ
<1> QED BY <1>2, <1>3 DEF One

(* A reference is counted.                                                 *)
LEMMA Referred ==
  ASSUME Counts, NEW x \in Values
  PROVE  /\ \A t \in Threads : ptr[t] = x => total[x] > 0 /\ Hard(x) > 0
         /\ \A t \in Threads, k \in Keys : value[t][k] = x => total[x] > 0 /\ Hard(x) > 0
         /\ \A y \in Objs : holds[y] = x => total[x] > 0 /\ Hard(x) > 0
         /\ \A k \in Keys : table[k].val = x => total[x] > 0 /\ Soft(x) > 0
<1>1. total[x] = Soft(x) + Hard(x) /\ Soft(x) \in Nat /\ Hard(x) \in Nat
  BY CountTypes DEF Counts
<1>2. \A t \in Threads : ptr[t] = x => Cardinality(PtrRefs(x)) # 0
  <2>1. \A t \in Threads : ptr[t] = x => PtrRefs(x) # {}
    BY DEF PtrRefs
  <2> QED BY <2>1, Finite, FS_EmptySet
<1>3. \A t \in Threads, k \in Keys : value[t][k] = x => Cardinality(ValueRefs(x)) # 0
  <2>1. \A t \in Threads, k \in Keys : value[t][k] = x => <<t, k>> \in ValueRefs(x)
    BY DEF ValueRefs
  <2>2. \A t \in Threads, k \in Keys : value[t][k] = x => ValueRefs(x) # {}
    BY <2>1
  <2> QED BY <2>2, Finite, FS_EmptySet
<1>4. \A y \in Objs : holds[y] = x => Cardinality(HoldRefs(x)) # 0
  <2>1. \A y \in Objs : holds[y] = x => HoldRefs(x) # {}
    BY DEF HoldRefs
  <2> QED BY <2>1, Finite, FS_EmptySet
<1>5. \A k \in Keys : table[k].val = x => Cardinality(TableRefs(x)) # 0
  <2>1. \A k \in Keys : table[k].val = x => TableRefs(x) # {}
    BY DEF TableRefs
  <2> QED BY <2>1, Finite, FS_EmptySet
<1>6. /\ Cardinality(PtrRefs(x)) # 0 => Hard(x) > 0
      /\ Cardinality(ValueRefs(x)) # 0 => Hard(x) > 0
      /\ Cardinality(HoldRefs(x)) # 0 => Hard(x) > 0
      /\ Cardinality(TableRefs(x)) # 0 => Soft(x) > 0
  BY Finite DEF Hard, Soft, One
<1> QED BY <1>1, <1>2, <1>3, <1>4, <1>5, <1>6

-----------------------------------------------------------------------------
(* What References does, when at most one reference is given up.           *)
LEMMA ReferencesFact ==
  ASSUME Typed, NEW t \in Threads, NEW gain, NEW lose, NEW y, lose \subseteq {y},
         References(t, gain, lose)
  PROVE  /\ total' = [x \in Values |-> total[x] + One(x \in gain) - One(x \in lose)]
         /\ doomed' \in [Threads -> Objs \cup {Null}]
         /\ \A u \in Threads : u # t => doomed'[u] = doomed[u]
         /\ doomed'[t] = IF y \in Objs /\ y \in lose /\ total'[y] = 0 THEN y ELSE Null
         /\ quiet' \in BOOLEAN
         /\ quiet' => flushing = "no" \/ (quiet /\ (lose \cap Values = {} \/ mutex = t))
<1> DEFINE dead == {x \in Objs \cap lose : Counted(gain, lose)[x] = 0}
           d == IF dead = {} THEN Null ELSE CHOOSE x \in dead : TRUE
<1>1. /\ total' = Counted(gain, lose)
      /\ doomed' = [doomed EXCEPT ![t] = d]
      /\ quiet' = (flushing = "no" \/ (quiet /\ (lose \cap Values = {} \/ mutex = t)))
  BY DEF References
<1>2. d = IF y \in Objs /\ y \in lose /\ total'[y] = 0 THEN y ELSE Null
  <2>1. CASE y \in Objs /\ y \in lose /\ total'[y] = 0
    <3>1. dead = {y}
      BY <1>1, <2>1
    <3> QED BY <2>1, <3>1
  <2>2. CASE ~(y \in Objs /\ y \in lose /\ total'[y] = 0)
    <3>1. dead = {}
      BY <1>1, <2>2
    <3> QED BY <2>2, <3>1
  <2> QED BY <2>1, <2>2
<1>3. d \in Objs \cup {Null}
  BY <1>2
<1>4. total' = [x \in Values |-> total[x] + One(x \in gain) - One(x \in lose)]
  BY <1>1 DEF Counted, One
<1>5. quiet' \in BOOLEAN
  BY <1>1
<1> HIDE DEF d
<1> QED BY <1>1, <1>2, <1>3, <1>4, <1>5 DEF Typed

(* A stack stays one while no frame comes or goes.                         *)
LEMMA SameStack ==
  ASSUME Typed, NEW u \in Threads, StackOK(u),
         \A q \in Keys : /\ pc'[u][q] = "idle" <=> pc[u][q] = "idle"
                         /\ pc'[u][q] = "nested" <=> pc[u][q] = "nested"
  PROVE  StackOK(u)'
BY DEF StackOK, Active

LEMMA NoStack ==
  ASSUME NEW u \in Threads, \A q \in Keys : pc'[u][q] = "idle"
  PROVE  StackOK(u)'
BY DEF StackOK, Active

(* The frame of t for k does something; others may be woken.               *)
Others(t, k) ==
  \A u \in Threads, q \in Keys :
    u # t \/ q # k =>
      /\ pc'[u][q] = pc[u][q] \/ (pc[u][q] = "waiting" /\ pc'[u][q] = "poll")
      /\ value'[u][q] = value[u][q] /\ status'[u][q] = status[u][q]

LEMMA SameFrame ==
  ASSUME NEW u \in Threads, NEW q \in Keys, FrameOK(u, q),
         pc'[u][q] = pc[u][q] \/ (pc[u][q] = "waiting" /\ pc'[u][q] = "poll"),
         value'[u][q] = value[u][q], status'[u][q] = status[u][q]
  PROVE  FrameOK(u, q)'
BY DEF FrameOK

LEMMA FrameAdvances ==
  ASSUME Typed, Frames, NEW t \in Threads, NEW k \in Keys, Others(t, k), FrameOK(t, k)',
         pc[t][k] \notin {"idle", "nested"}, pc'[t][k] \notin {"idle", "nested"}
  PROVE  Frames'
<1> SUFFICES ASSUME NEW u \in Threads PROVE StackOK(u)' /\ \A q \in Keys : FrameOK(u, q)'
  BY DEF Frames
<1>1. StackOK(u)'
  <2>1. \A q \in Keys : /\ pc'[u][q] = "idle" <=> pc[u][q] = "idle"
                        /\ pc'[u][q] = "nested" <=> pc[u][q] = "nested"
    BY DEF Others
  <2> QED BY <2>1, SameStack DEF Frames
<1>2. ASSUME NEW q \in Keys PROVE FrameOK(u, q)'
  <2>1. CASE u = t /\ q = k
    BY <2>1
  <2>2. CASE u # t \/ q # k
    BY <2>2, SameFrame, SMTT(30) DEF Others, Frames
  <2> QED BY <2>1, <2>2
<1> QED BY <1>1, <1>2

LEMMA FramesStay ==
  ASSUME Typed, Frames, UNCHANGED <<value, status>>, pc' = pc \/ pc' = Woken(pc)
  PROVE  Frames'
<1>1. \A u \in Threads, q \in Keys :
        pc'[u][q] = pc[u][q] \/ (pc[u][q] = "waiting" /\ pc'[u][q] = "poll")
  BY ZenonT(60) DEF Woken
<1> SUFFICES ASSUME NEW u \in Threads PROVE StackOK(u)' /\ \A q \in Keys : FrameOK(u, q)'
  BY DEF Frames
<1>2. StackOK(u)'
  <2>1. \A q \in Keys : /\ pc'[u][q] = "idle" <=> pc[u][q] = "idle"
                        /\ pc'[u][q] = "nested" <=> pc[u][q] = "nested"
    BY <1>1
  <2> QED BY <2>1, SameStack DEF Frames
<1>3. \A q \in Keys : FrameOK(u, q)'
  BY <1>1, SameFrame DEF Frames
<1> QED BY <1>2, <1>3

LEMMA WokenTyped ==
  ASSUME Typed
  PROVE  Woken(pc) \in [Threads -> [Keys -> Loc]]
BY DEF Typed, Woken, Loc

(* The frame that moves is the innermost.                                  *)
LEMMA Innermost ==
  ASSUME Typed, NEW t \in Threads, StackOK(t), NEW k \in Keys, pc[t][k] \notin {"idle", "nested"},
         NEW q \in Keys, q # k, Active(t, q)
  PROVE  /\ Level[k] < Level[q] /\ pc[t][q] = "nested" /\ DepOf[q] \in Keys
         /\ Level[k] <= Level[DepOf[q]]
<1>1. Level[k] \in Nat /\ Level[q] \in Nat
  BY CacheAssumption
<1>2. Active(t, k) /\ Level[k] # Level[q] /\ ~(Level[q] < Level[k])
  BY DEF StackOK, Active
<1>3. Level[k] < Level[q]
  BY <1>1, <1>2
<1> QED BY <1>2, <1>3 DEF StackOK

(* No flush is under way when somebody has the mutex for a moment; and no  *)
(* clean-up when a thread is inside get().                                 *)
LEMMA NoFlush ==
  ASSUME FlushInv, UNCHANGED flushVars, mutex = Null
  PROVE  flushing = "no" /\ FlushInv'
BY DEF FlushInv, flushVars

LEMMA FlushGoesOn ==
  ASSUME FlushInv, UNCHANGED <<table, flushVars>>, mutex' = mutex \/ flushing = "no",
         flushing \notin {"cleanup", "wipe"} \/ UNCHANGED pc
  PROVE  FlushInv'
BY DEF FlushInv, flushVars, Present

LEMMA NotCleaning ==
  ASSUME FlushInv, NEW t \in Threads, NEW k \in Keys, pc[t][k] # "idle"
  PROVE  flushing \notin {"cleanup", "wipe"}
BY DEF FlushInv

-----------------------------------------------------------------------------
(* Types, frames, table and flush, whatever the counts are.                *)
Struct == Typed /\ Frames /\ TableInv /\ FlushInv

LEMMA EntryFact ==
  ASSUME Typed, NEW k \in Keys
  PROVE  /\ table[k] \in Entry
         /\ table[k] = Absent <=> table[k].val = Null
         /\ table[k] # Absent => table[k].val \in Values /\ table[k].status \in {"ok", "fail"}
         /\ table[k] = Absent => table[k].val \notin Values
BY CacheAssumption, SMTT(30) DEF Typed, Entry, Absent, Values

LEMMA NewEntry ==
  ASSUME NEW v \in Values, NEW s \in {"ok", "fail"}
  PROVE  LET e == [val |-> v, status |-> s] IN
         e \in Entry /\ e.val = v /\ e.status = s /\ e # Absent
<1> DEFINE e == [val |-> v, status |-> s]
<1>1. e \in Entry /\ e.val = v /\ e.status = s
  BY DEF Entry
<1>2. Absent.val = Null /\ v # Null
  BY CacheAssumption DEF Absent, Values
<1> QED BY <1>1, <1>2

LEMMA AbsentEntry ==
  Absent \in Entry /\ Absent.val = Null /\ Absent.status = "ok"
BY DEF Absent, Entry

LEMMA GotoFact ==
  ASSUME Typed, NEW t \in Threads, NEW k \in Keys, NEW l \in Loc, Goto(t, k, l)
  PROVE  /\ pc' \in [Threads -> [Keys -> Loc]]
         /\ pc'[t][k] = l
         /\ \A u \in Threads, q \in Keys : u # t \/ q # k => pc'[u][q] = pc[u][q]
<1>1. pc \in [Threads -> [Keys -> Loc]] /\ pc' = [pc EXCEPT ![t][k] = l]
  BY DEF Typed, Goto
<1> QED BY <1>1, Update2, SMTT(30)

LEMMA ValueFact ==
  ASSUME Typed, NEW t \in Threads, NEW k \in Keys, NEW v \in Values \cup {Null},
         value' = [value EXCEPT ![t][k] = v]
  PROVE  /\ value' \in [Threads -> [Keys -> Values \cup {Null}]]
         /\ value'[t][k] = v
         /\ \A u \in Threads, q \in Keys : u # t \/ q # k => value'[u][q] = value[u][q]
<1>1. value \in [Threads -> [Keys -> Values \cup {Null}]]
  BY DEF Typed
<1> QED BY <1>1, Update2, SMTT(30)

Codes == {"ok", "fail"}

LEMMA StatusFact ==
  ASSUME Typed, NEW t \in Threads, NEW k \in Keys, NEW s \in Codes,
         status' = [status EXCEPT ![t][k] = s]
  PROVE  /\ status' \in [Threads -> [Keys -> {"ok", "fail"}]]
         /\ status'[t][k] = s
         /\ \A u \in Threads, q \in Keys : u # t \/ q # k => status'[u][q] = status[u][q]
<1>1. status \in [Threads -> [Keys -> Codes]]
  BY DEF Typed, Codes
<1>2. /\ status' \in [Threads -> [Keys -> Codes]] /\ status'[t][k] = s
      /\ \A u \in Threads, q \in Keys : u # t \/ q # k => status'[u][q] = status[u][q]
  BY <1>1, Update2, SMTT(30)
<1> QED BY <1>2 DEF Codes

LEMMA GetStruct ==
  ASSUME Struct, NEW t \in Threads, NEW k \in Keys, Get(t, k)
  PROVE  Struct'
<1> USE DEF Struct
<1>1. /\ pc' \in [Threads -> [Keys -> Loc]] /\ pc'[t][k] = "poll"
      /\ \A u \in Threads, q \in Keys : u # t \/ q # k => pc'[u][q] = pc[u][q]
  <2>1. Goto(t, k, "poll") /\ "poll" \in Loc
    BY DEF Get, Loc
  <2> QED BY <2>1, GotoFact
<1>2. /\ \A q \in Keys : pc[t][q] = "idle"
      /\ UNCHANGED <<refs, table, value, status, client, doomed, mutex, flushVars, quiet>>
      /\ flushing \notin {"cleanup", "wipe"}
  BY DEF Get, Idle
<1>3. calls' \in [Threads -> 0 .. MaxCalls]
  BY CacheAssumption, SMTT(30) DEF Get, Typed
<1>4. Typed'
  BY <1>1, <1>2, <1>3 DEF Typed, refs, client, flushVars
<1>5. TableInv' /\ FlushInv'
  BY <1>2, FlushGoesOn DEF TableInv
<1>6. ASSUME NEW u \in Threads PROVE StackOK(u)' /\ \A q \in Keys : FrameOK(u, q)'
  <2>1. CASE u = t
    <3>1. StackOK(u)'
      BY <1>1, <1>2, <2>1 DEF StackOK, Active
    <3>2. \A q \in Keys : FrameOK(u, q)'
      BY <1>1, <1>2, <2>1 DEF Frames, FrameOK
    <3> QED BY <3>1, <3>2
  <2>2. CASE u # t
    <3>1. StackOK(u)'
      BY <1>1, <2>2, SameStack DEF Frames
    <3>2. \A q \in Keys : FrameOK(u, q)'
      BY <1>1, <1>2, <2>2, SameFrame DEF Frames
    <3> QED BY <3>1, <3>2
  <2> QED BY <2>1, <2>2
<1> QED BY <1>4, <1>5, <1>6 DEF Frames

LEMMA SpuriousWakeupStruct ==
  ASSUME Struct, NEW t \in Threads, NEW k \in Keys, SpuriousWakeup(t, k)
  PROVE  Struct'
<1> USE DEF Struct
<1>1. /\ pc' \in [Threads -> [Keys -> Loc]] /\ pc'[t][k] = "poll"
      /\ \A u \in Threads, q \in Keys : u # t \/ q # k => pc'[u][q] = pc[u][q]
  <2>1. Goto(t, k, "poll") /\ "poll" \in Loc
    BY DEF SpuriousWakeup, Loc
  <2> QED BY <2>1, GotoFact
<1>2. /\ pc[t][k] = "waiting"
      /\ UNCHANGED <<refs, table, value, status, client, doomed, mutex, flushVars, quiet, calls>>
  BY DEF SpuriousWakeup, At
<1>3. Typed'
  BY <1>1, <1>2 DEF Typed, refs, client, flushVars
<1>4. TableInv' /\ FlushInv'
  <2>1. flushing \notin {"cleanup", "wipe"}
    BY <1>2, NotCleaning
  <2> QED BY <1>2, <2>1, FlushGoesOn DEF TableInv
<1>5. Frames'
  <2>1. Others(t, k)
    BY <1>1, <1>2 DEF Others
  <2>2. FrameOK(t, k)'
    BY <1>1, <1>2, SameFrame DEF Frames
  <2> QED BY <1>1, <1>2, <2>1, <2>2, FrameAdvances
<1> QED BY <1>3, <1>4, <1>5

LEMMA NestedGetStruct ==
  ASSUME Struct, NEW t \in Threads, NEW k \in Keys, NestedGet(t, k)
  PROVE  Struct'
<1> USE DEF Struct
<1> DEFINE d == DepOf[k]
<1>1. /\ d \in Keys /\ d # k /\ Level[d] < Level[k] /\ pc[t][k] = "create"
      /\ Level \in [Keys -> Nat]
  BY CacheAssumption, SMTT(30) DEF NestedGet, At
<1>2. /\ pc' \in [Threads -> [Keys -> Loc]]
      /\ \A u \in Threads, q \in Keys :
           pc'[u][q] = IF u = t /\ q = d THEN "poll"
                       ELSE IF u = t /\ q = k THEN "nested" ELSE pc[u][q]
  <2>1. pc' = [pc EXCEPT ![t][k] = "nested", ![t][d] = "poll"]
    BY DEF NestedGet
  <2> QED BY <1>1, <2>1 DEF Typed, Loc
<1>3. UNCHANGED <<refs, table, value, status, client, doomed, mutex, flushVars, quiet, calls>>
  BY DEF NestedGet
<1>4. Typed'
  BY <1>2, <1>3 DEF Typed, refs, client, flushVars
<1>5. TableInv' /\ FlushInv'
  <2>1. flushing \notin {"cleanup", "wipe"}
    BY <1>1, NotCleaning
  <2> QED BY <1>3, <2>1, FlushGoesOn DEF TableInv
<1>6. \A q \in Keys : q # k /\ Active(t, q) =>
        /\ Level[k] < Level[q] /\ pc[t][q] = "nested" /\ DepOf[q] \in Keys
        /\ Level[k] <= Level[DepOf[q]]
  BY <1>1, Innermost DEF Frames
<1>7. ~Active(t, d)
  BY <1>1, <1>6, SMTT(30)
<1>8. ASSUME NEW u \in Threads PROVE StackOK(u)'
  <2>1. CASE u # t
    BY <1>2, <2>1, SameStack DEF Frames
  <2>2. CASE u = t
    <3> SUFFICES ASSUME NEW p \in Keys
                 PROVE  /\ pc'[t][p] = "nested" => DepOf[p] \in Keys /\ Active(t, DepOf[p])'
                        /\ \A q \in Keys :
                             p # q /\ Active(t, p)' /\ Active(t, q)' =>
                               /\ Level[p] # Level[q]
                               /\ Level[q] < Level[p] =>
                                    pc'[t][p] = "nested" /\ Level[q] <= Level[DepOf[p]]
      BY <2>2 DEF StackOK
    <3>1. \A q \in Keys : Active(t, q)' <=> Active(t, q) \/ q = d
      BY <1>1, <1>2 DEF Active
    <3>2. pc'[t][p] = "nested" => DepOf[p] \in Keys /\ Active(t, DepOf[p])'
      <4>1. CASE p = k
        BY <1>1, <3>1, <4>1
      <4>2. CASE p # k
        BY <1>2, <3>1, <4>2 DEF Frames, StackOK
      <4> QED BY <4>1, <4>2
    <3>3. ASSUME NEW q \in Keys, p # q, Active(t, p)', Active(t, q)'
          PROVE  /\ Level[p] # Level[q]
                 /\ Level[q] < Level[p] => pc'[t][p] = "nested" /\ Level[q] <= Level[DepOf[p]]
      <4>1. CASE p = d
        BY <1>1, <1>6, <3>1, <3>3, <4>1, SMTT(30)
      <4>2. CASE p = k
        BY <1>1, <1>2, <1>6, <3>1, <3>3, <4>2, SMTT(30)
      <4>3. CASE p # d /\ p # k
        <5>1. Active(t, p) /\ Level[k] < Level[p] /\ pc[t][p] = "nested" /\ DepOf[p] \in Keys
              /\ Level[k] <= Level[DepOf[p]] /\ pc'[t][p] = "nested"
          BY <1>2, <1>6, <3>1, <3>3, <4>3
        <5>2. CASE q = d
          BY <1>1, <5>1, <5>2
        <5>3. CASE q # d
          BY <3>1, <3>3, <5>1, <5>3 DEF Frames, StackOK
        <5> QED BY <5>2, <5>3
      <4> QED BY <4>1, <4>2, <4>3
    <3> QED BY <3>2, <3>3
  <2> QED BY <2>1, <2>2
<1>9. ASSUME NEW u \in Threads, NEW q \in Keys PROVE FrameOK(u, q)'
  <2>1. FrameOK(u, q)
    BY DEF Frames
  <2>2. pc'[u][q] = pc[u][q] \/
        (pc[u][q] \in {"idle", "create"} /\ pc'[u][q] \in {"poll", "nested"})
    BY <1>1, <1>2, <1>7 DEF Active
  <2> QED BY <1>3, <2>1, <2>2 DEF FrameOK
<1> QED BY <1>4, <1>5, <1>8, <1>9 DEF Frames

LEMMA PollStruct ==
  ASSUME Struct, NEW t \in Threads, NEW k \in Keys, Poll(t, k)
  PROVE  Struct'
<1> USE DEF Struct
<1>1. /\ pc[t][k] = "poll" /\ mutex = Null
      /\ UNCHANGED <<alive, holds, client, mutex, flushVars, calls>>
  BY DEF Poll, At
<1>2. FlushInv'
  BY <1>1, NoFlush
<1>3. value[t][k] = Null /\ status[t][k] = "ok"
  BY <1>1 DEF Frames, FrameOK
<1>4. ASSUME NEW l \in Loc, l \in {"waiting", "ret", "create"}, Goto(t, k, l),
             value' \in [Threads -> [Keys -> Values \cup {Null}]],
             status' \in [Threads -> [Keys -> {"ok", "fail"}]],
             \A u \in Threads, q \in Keys : u # t \/ q # k =>
               value'[u][q] = value[u][q] /\ status'[u][q] = status[u][q],
             \/ l # "ret" /\ value'[t][k] = Null /\ status'[t][k] = "ok"
             \/ l = "ret" /\ status'[t][k] = "ok" /\ value'[t][k] \in Objs
             \/ l = "ret" /\ status'[t][k] = "fail" /\ value'[t][k] \in {NoValue, Null},
             table' \in [Keys -> Entry], TableInv',
             doomed' \in [Threads -> Objs \cup {Null}], quiet' \in BOOLEAN
      PROVE  Struct'
  <2>1. /\ pc' \in [Threads -> [Keys -> Loc]] /\ pc'[t][k] = l
        /\ \A u \in Threads, q \in Keys : u # t \/ q # k => pc'[u][q] = pc[u][q]
    BY <1>4, GotoFact
  <2>2. Typed'
    BY <1>1, <1>4, <2>1 DEF Typed, client, flushVars
  <2>3. Frames'
    <3>1. Others(t, k)
      BY <1>4, <2>1 DEF Others
    <3>2. FrameOK(t, k)'
      BY <1>4, <2>1 DEF FrameOK
    <3> QED BY <1>1, <1>4, <2>1, <3>1, <3>2, FrameAdvances
  <2> QED BY <1>2, <1>4, <2>2, <2>3
<1>5. /\ value \in [Threads -> [Keys -> Values \cup {Null}]]
      /\ status \in [Threads -> [Keys -> {"ok", "fail"}]]
      /\ table \in [Keys -> Entry] /\ doomed \in [Threads -> Objs \cup {Null}]
      /\ quiet \in BOOLEAN
      /\ {"waiting", "ret", "create"} \subseteq Loc
  BY DEF Typed, Loc
<1>6. CASE /\ Goto(t, k, "waiting") /\ UNCHANGED <<table, soft, value, status>> /\ NoReferences
  <2>1. UNCHANGED <<table, value, status, doomed, quiet>> /\ Goto(t, k, "waiting")
    BY <1>6 DEF NoReferences
  <2>2. TableInv'
    BY <2>1 DEF TableInv
  <2> QED BY <1>3, <1>4, <1>5, <2>1, <2>2
<1>7. CASE /\ table[k] # Absent /\ ~InProgress(table[k])
           /\ value' = [value EXCEPT ![t][k] = table[k].val]
           /\ status' = [status EXCEPT ![t][k] = table[k].status]
           /\ References(t, {table[k].val}, {})
           /\ Goto(t, k, "ret")
           /\ UNCHANGED <<table, soft>>
  <2>1. table[k].val \in Values /\ table[k].status \in {"ok", "fail"}
    BY <1>7, EntryFact
  <2>2. /\ value' \in [Threads -> [Keys -> Values \cup {Null}]] /\ value'[t][k] = table[k].val
        /\ \A u \in Threads, q \in Keys : u # t \/ q # k => value'[u][q] = value[u][q]
    <3>1. table[k].val \in Values \cup {Null} /\ value' = [value EXCEPT ![t][k] = table[k].val]
      BY <1>7, <2>1
    <3> QED BY <1>5, <3>1
  <2>3. /\ status' \in [Threads -> [Keys -> {"ok", "fail"}]] /\ status'[t][k] = table[k].status
        /\ \A u \in Threads, q \in Keys : u # t \/ q # k => status'[u][q] = status[u][q]
    <3>1. table[k].status \in Codes /\ status' = [status EXCEPT ![t][k] = table[k].status]
      BY <1>7, <2>1 DEF Codes
    <3> QED BY <3>1, StatusFact, ZenonT(60)
  <2>4. \/ table[k].status = "ok" /\ table[k].val \in Objs
        \/ table[k].status = "fail" /\ table[k].val = NoValue
    BY <1>7, <2>1 DEF InProgress, TableInv, Values
  <2>5. doomed' \in [Threads -> Objs \cup {Null}] /\ quiet' \in BOOLEAN
    <3>1. {} \subseteq {Null}
      OBVIOUS
    <3> QED BY <1>7, <3>1, ReferencesFact, SMTT(30)
  <2>6. TableInv' /\ table' \in [Keys -> Entry]
    BY <1>5, <1>7 DEF TableInv
  <2>7. Goto(t, k, "ret")
    BY <1>7
  <2> QED BY <1>4, <1>5, <2>2, <2>3, <2>4, <2>5, <2>6, <2>7
<1>8. CASE /\ table[k] = Absent
           /\ table' = [table EXCEPT ![k] = [val |-> NoValue, status |-> "ok"]]
           /\ References(t, {NoValue}, {})
           /\ soft' = [soft EXCEPT ![NoValue] = @ + 1]
           /\ Goto(t, k, "create")
           /\ UNCHANGED <<value, status>>
  <2>1. doomed' \in [Threads -> Objs \cup {Null}] /\ quiet' \in BOOLEAN
    <3>1. {} \subseteq {Null}
      OBVIOUS
    <3> QED BY <1>8, <3>1, ReferencesFact, SMTT(30)
  <2>2. TableInv' /\ table' \in [Keys -> Entry]
    <3>1. NoValue \in Values /\ "ok" \in {"ok", "fail"}
      BY DEF Values
    <3>2. [val |-> NoValue, status |-> "ok"] \in Entry
      BY <3>1, NewEntry
    <3>3. table' \in [Keys -> Entry]
      BY <1>5, <1>8, <3>2
    <3>4. \A q \in Keys : q # k => table'[q] = table[q]
      BY <1>5, <1>8
    <3>5. table'[k].status = "ok"
      BY <1>5, <1>8
    <3> QED BY <3>3, <3>4, <3>5 DEF TableInv
  <2>3. Goto(t, k, "create") /\ UNCHANGED <<value, status>>
    BY <1>8
  <2> QED BY <1>3, <1>4, <1>5, <2>1, <2>2, <2>3
<1>9. CASE /\ table[k] = Absent /\ "put" \in Failures
           /\ status' = [status EXCEPT ![t][k] = "fail"]
           /\ Goto(t, k, "ret")
           /\ UNCHANGED <<table, soft, value>> /\ NoReferences
  <2>1. /\ status' \in [Threads -> [Keys -> {"ok", "fail"}]] /\ status'[t][k] = "fail"
        /\ \A u \in Threads, q \in Keys : u # t \/ q # k => status'[u][q] = status[u][q]
    <3>1. status' = [status EXCEPT ![t][k] = "fail"]
      BY <1>9
    <3> QED BY <1>5, <3>1
  <2>2. UNCHANGED <<table, value, doomed, quiet>> /\ Goto(t, k, "ret")
    BY <1>9 DEF NoReferences
  <2>3. TableInv'
    BY <2>2 DEF TableInv
  <2> QED BY <1>3, <1>4, <1>5, <2>1, <2>2, <2>3
<1> QED BY <1>6, <1>7, <1>8, <1>9 DEF Poll

LEMMA BuildStruct ==
  ASSUME Struct, NEW t \in Threads, NEW k \in Keys, Build(t, k)
  PROVE  Struct'
<1> USE DEF Struct
<1>1. /\ pc[t][k] \in {"build", "create"} /\ Goto(t, k, "put")
      /\ UNCHANGED <<soft, table, client, mutex, flushVars, calls>>
  BY DEF Build, At
<1>2. FlushInv' /\ TableInv'
  <2>1. flushing \notin {"cleanup", "wipe"}
    BY <1>1, NotCleaning
  <2> QED BY <1>1, <2>1, FlushGoesOn DEF TableInv
<1>3. value[t][k] \in Objs \cup {Null} /\ status[t][k] = "ok"
  BY <1>1 DEF Frames, FrameOK
<1>4. /\ pc' \in [Threads -> [Keys -> Loc]] /\ pc'[t][k] = "put"
      /\ \A u \in Threads, q \in Keys : u # t \/ q # k => pc'[u][q] = pc[u][q]
  <2>1. "put" \in Loc
    BY DEF Loc
  <2> QED BY <1>1, <2>1, GotoFact
<1>5. /\ value \in [Threads -> [Keys -> Values \cup {Null}]]
      /\ status \in [Threads -> [Keys -> {"ok", "fail"}]]
      /\ alive \subseteq Objs /\ holds \in [Objs -> Objs \cup {Null}]
      /\ doomed \in [Threads -> Objs \cup {Null}] /\ quiet \in BOOLEAN
      /\ Objs \subseteq Values /\ NoValue \in Values
  BY DEF Typed, Values
<1>6. /\ value' \in [Threads -> [Keys -> Values \cup {Null}]]
      /\ status' \in [Threads -> [Keys -> {"ok", "fail"}]]
      /\ \A u \in Threads, q \in Keys : u # t \/ q # k =>
           value'[u][q] = value[u][q] /\ status'[u][q] = status[u][q]
      /\ IF status'[t][k] = "ok" THEN value'[t][k] \in Objs ELSE value'[t][k] = NoValue
      /\ alive' \subseteq Objs /\ holds' \in [Objs -> Objs \cup {Null}]
      /\ doomed' \in [Threads -> Objs \cup {Null}] /\ quiet' \in BOOLEAN
  <2>1. CASE \E x \in Objs \ alive :
               /\ alive' = alive \cup {x}
               /\ holds' = [holds EXCEPT ![x] = value[t][k]]
               /\ References(t, {x}, {})
               /\ value' = [value EXCEPT ![t][k] = x]
               /\ UNCHANGED status
    <3>1. PICK x \in Objs \ alive :
               /\ alive' = alive \cup {x}
               /\ holds' = [holds EXCEPT ![x] = value[t][k]]
               /\ References(t, {x}, {})
               /\ value' = [value EXCEPT ![t][k] = x]
               /\ UNCHANGED status
      BY <2>1
    <3>2. doomed' \in [Threads -> Objs \cup {Null}] /\ quiet' \in BOOLEAN
      <4>1. {} \subseteq {Null}
        OBVIOUS
      <4> QED BY <3>1, <4>1, ReferencesFact, SMTT(30)
    <3>3. /\ value' \in [Threads -> [Keys -> Values \cup {Null}]] /\ value'[t][k] = x
          /\ \A u \in Threads, q \in Keys : u # t \/ q # k => value'[u][q] = value[u][q]
      BY <1>5, <3>1, ValueFact, SMTT(30)
    <3>4. alive' \subseteq Objs /\ holds' \in [Objs -> Objs \cup {Null}]
      BY <1>3, <1>5, <3>1
    <3> QED BY <1>3, <1>5, <3>1, <3>2, <3>3, <3>4
  <2>2. CASE /\ value[t][k] # Null
             /\ UNCHANGED <<alive, holds, value, status>> /\ NoReferences
    BY <1>3, <1>5, <2>2 DEF NoReferences
  <2>3. CASE /\ References(t, {NoValue}, {value[t][k]})
             /\ value' = [value EXCEPT ![t][k] = NoValue]
             /\ status' = [status EXCEPT ![t][k] = "fail"]
             /\ UNCHANGED <<alive, holds>>
    <3>1. doomed' \in [Threads -> Objs \cup {Null}] /\ quiet' \in BOOLEAN
      <4>1. {value[t][k]} \subseteq {value[t][k]}
        OBVIOUS
      <4> QED BY <2>3, <4>1, ReferencesFact
    <3>2. /\ value' \in [Threads -> [Keys -> Values \cup {Null}]] /\ value'[t][k] = NoValue
          /\ \A u \in Threads, q \in Keys : u # t \/ q # k => value'[u][q] = value[u][q]
      BY <1>5, <2>3, ValueFact, SMTT(30)
    <3>3. /\ status' \in [Threads -> [Keys -> {"ok", "fail"}]] /\ status'[t][k] = "fail"
          /\ \A u \in Threads, q \in Keys : u # t \/ q # k => status'[u][q] = status[u][q]
      <4>1. status' = [status EXCEPT ![t][k] = "fail"]
        BY <2>3
      <4> QED BY <1>5, <4>1
    <3> QED BY <1>5, <2>3, <3>1, <3>2, <3>3
  <2> QED BY <2>1, <2>2, <2>3 DEF Build
<1>7. Typed'
  BY <1>1, <1>4, <1>6 DEF Typed, client, flushVars
<1>8. Frames'
  <2>1. Others(t, k)
    BY <1>4, <1>6 DEF Others
  <2>2. FrameOK(t, k)'
    BY <1>4, <1>6 DEF FrameOK
  <2> QED BY <1>1, <1>4, <2>1, <2>2, FrameAdvances
<1> QED BY <1>2, <1>7, <1>8

LEMMA PutStruct ==
  ASSUME Struct, NEW t \in Threads, NEW k \in Keys, PutIfAbsentAndGet(t, k)
  PROVE  Struct'
<1> USE DEF Struct
<1> DEFINE e == table[k]
           v == value[t][k]
           s == status[t][k]
           put == [table EXCEPT ![k] = [val |-> v, status |-> s]]
<1>1. /\ pc[t][k] = "put" /\ mutex = Null
      /\ mutex' = IF doomed'[t] = Null THEN Null ELSE t
      /\ UNCHANGED <<alive, holds, client, flushVars, calls>>
  BY DEF PutIfAbsentAndGet, At
<1>2. FlushInv'
  BY <1>1, NoFlush
<1>3. (s = "ok" /\ v \in Objs) \/ (s = "fail" /\ v = NoValue)
  BY <1>1, SMTT(30) DEF Frames, FrameOK, Typed
<1>4. /\ value \in [Threads -> [Keys -> Values \cup {Null}]]
      /\ status \in [Threads -> [Keys -> {"ok", "fail"}]]
      /\ table \in [Keys -> Entry] /\ doomed \in [Threads -> Objs \cup {Null}]
      /\ quiet \in BOOLEAN /\ pc \in [Threads -> [Keys -> Loc]]
      /\ Objs \subseteq Values /\ NoValue \in Values /\ "ret" \in Loc
  BY DEF Typed, Values, Loc
<1>5. ASSUME pc' \in [Threads -> [Keys -> Loc]], pc'[t][k] = "ret",
             \A u \in Threads, q \in Keys : u # t \/ q # k =>
               /\ pc'[u][q] = pc[u][q] \/ (pc[u][q] = "waiting" /\ pc'[u][q] = "poll")
               /\ value'[u][q] = value[u][q] /\ status'[u][q] = status[u][q],
             value' \in [Threads -> [Keys -> Values \cup {Null}]],
             status' \in [Threads -> [Keys -> {"ok", "fail"}]],
             \/ status'[t][k] = "ok" /\ value'[t][k] \in Objs
             \/ status'[t][k] = "fail" /\ value'[t][k] = NoValue,
             table' \in [Keys -> Entry], TableInv',
             doomed' \in [Threads -> Objs \cup {Null}], quiet' \in BOOLEAN
      PROVE  Struct'
  <2>1. mutex' \in Threads \cup {Null}
    BY <1>1
  <2>2. Typed'
    BY <1>1, <1>5, <2>1 DEF Typed, client, flushVars
  <2>3. Frames'
    <3>1. Others(t, k)
      BY <1>5 DEF Others
    <3>2. FrameOK(t, k)'
      BY <1>5 DEF FrameOK
    <3> QED BY <1>1, <1>5, <3>1, <3>2, FrameAdvances
  <2> QED BY <1>2, <1>5, <2>2, <2>3
<1>6. ASSUME Goto(t, k, "ret")
      PROVE  /\ pc' \in [Threads -> [Keys -> Loc]] /\ pc'[t][k] = "ret"
             /\ \A u \in Threads, q \in Keys : u # t \/ q # k => pc'[u][q] = pc[u][q]
  BY <1>4, <1>6, GotoFact, SMTT(30)
<1>7. put \in [Keys -> Entry] /\ \A q \in Keys : put[q].status = "fail" => put[q].val = NoValue
  <2>1. [val |-> v, status |-> s] \in Entry
    BY <1>3, <1>4 DEF Entry
  <2>2. put \in [Keys -> Entry] /\ put[k] = [val |-> v, status |-> s]
        /\ \A q \in Keys : q # k => put[q] = table[q]
    BY <1>4, <2>1
  <2>3. put[k].val = v /\ put[k].status = s
    BY <2>2
  <2> HIDE DEF put, v, s
  <2> QED BY <1>3, <2>2, <2>3 DEF TableInv
<1>8. CASE /\ e # Absent /\ ~InProgress(e)
           /\ References(t, {e.val}, {v})
           /\ value' = [value EXCEPT ![t][k] = e.val]
           /\ status' = [status EXCEPT ![t][k] = e.status]
           /\ Goto(t, k, "ret")
           /\ UNCHANGED <<table, soft>>
  <2>1. e.val \in Values /\ e.status \in {"ok", "fail"}
    BY <1>8, EntryFact
  <2>2. /\ value' \in [Threads -> [Keys -> Values \cup {Null}]] /\ value'[t][k] = e.val
        /\ \A u \in Threads, q \in Keys : u # t \/ q # k => value'[u][q] = value[u][q]
    BY <1>4, <1>8, <2>1
  <2>3. /\ status' \in [Threads -> [Keys -> {"ok", "fail"}]] /\ status'[t][k] = e.status
        /\ \A u \in Threads, q \in Keys : u # t \/ q # k => status'[u][q] = status[u][q]
    BY <1>4, <1>8, <2>1
  <2>4. \/ e.status = "ok" /\ e.val \in Objs
        \/ e.status = "fail" /\ e.val = NoValue
    BY <1>8, <2>1 DEF InProgress, TableInv, Values
  <2>5. doomed' \in [Threads -> Objs \cup {Null}] /\ quiet' \in BOOLEAN
    <3>1. {v} \subseteq {v}
      OBVIOUS
    <3> QED BY <1>8, <3>1, ReferencesFact
  <2>6. TableInv' /\ table' \in [Keys -> Entry]
    BY <1>4, <1>8 DEF TableInv
  <2>7. Goto(t, k, "ret")
    BY <1>8
  <2> HIDE DEF e, v, s, put
  <2> QED BY <1>5, <1>6, <2>2, <2>3, <2>4, <2>5, <2>6, <2>7
<1>9. CASE /\ table' = put
           /\ References(t, {v}, {})
           /\ Goto(t, k, "ret")
           /\ UNCHANGED <<value, status>>
  <2>1. doomed' \in [Threads -> Objs \cup {Null}] /\ quiet' \in BOOLEAN
    <3>1. {} \subseteq {Null}
      OBVIOUS
    <3> QED BY <1>9, <3>1, ReferencesFact, SMTT(30)
  <2>2. TableInv' /\ table' \in [Keys -> Entry]
    BY <1>7, <1>9 DEF TableInv
  <2>3. Goto(t, k, "ret") /\ UNCHANGED <<value, status>>
    BY <1>9
  <2> QED BY <1>3, <1>4, <1>5, <1>6, <2>1, <2>2, <2>3
<1>10. CASE /\ Goto(t, k, "ret")
            /\ UNCHANGED <<table, soft, value, status>> /\ NoReferences
  <2>1. UNCHANGED <<table, value, status, doomed, quiet>> /\ Goto(t, k, "ret")
    BY <1>10 DEF NoReferences
  <2>2. TableInv'
    BY <2>1 DEF TableInv
  <2> QED BY <1>3, <1>4, <1>5, <1>6, <2>1, <2>2
<1>11. CASE /\ table' = put
            /\ References(t, {v}, {NoValue})
            /\ pc' = [Woken(pc) EXCEPT ![t][k] = "ret"]
            /\ UNCHANGED <<value, status>>
  <2>1. doomed' \in [Threads -> Objs \cup {Null}] /\ quiet' \in BOOLEAN
    <3>1. {NoValue} \subseteq {NoValue}
      OBVIOUS
    <3> QED BY <1>11, <3>1, ReferencesFact
  <2>2. TableInv' /\ table' \in [Keys -> Entry]
    BY <1>7, <1>11 DEF TableInv
  <2>3. /\ pc' \in [Threads -> [Keys -> Loc]] /\ pc'[t][k] = "ret"
        /\ \A u \in Threads, q \in Keys : u # t \/ q # k => pc'[u][q] = Woken(pc)[u][q]
    BY <1>4, <1>11, WokenTyped
  <2>4. \A u \in Threads, q \in Keys :
          Woken(pc)[u][q] = pc[u][q] \/ (pc[u][q] = "waiting" /\ Woken(pc)[u][q] = "poll")
    BY DEF Woken
  <2>5. UNCHANGED <<value, status>>
    BY <1>11
  <2>6. \A u \in Threads, q \in Keys : u # t \/ q # k =>
          /\ pc'[u][q] = pc[u][q] \/ (pc[u][q] = "waiting" /\ pc'[u][q] = "poll")
          /\ value'[u][q] = value[u][q] /\ status'[u][q] = status[u][q]
    BY <2>3, <2>4, <2>5, SMTT(30)
  <2> QED BY <1>3, <1>4, <1>5, <2>1, <2>2, <2>3, <2>5, <2>6
<1> QED BY <1>8, <1>9, <1>10, <1>11 DEF PutIfAbsentAndGet

LEMMA ReturnStruct ==
  ASSUME Struct, NEW t \in Threads, NEW k \in Keys, Return(t, k)
  PROVE  Struct'
<1> USE DEF Struct
<1> DEFINE v == value[t][k]
           outer == {p \in Keys : pc[t][p] = "nested" /\ DepOf[p] = k}
           ok == status[t][k] = "ok"
<1>1. /\ pc[t][k] = "ret"
      /\ pc' = [pc EXCEPT ![t] = [p \in Keys |->
                  IF p = k THEN "idle" ELSE IF p \in outer THEN "build" ELSE pc[t][p]]]
      /\ value' = [value EXCEPT ![t] = [p \in Keys |->
                     IF p = k THEN Null ELSE IF p \in outer /\ ok THEN v ELSE value[t][p]]]
      /\ status' = [status EXCEPT ![t][k] = "ok"]
      /\ UNCHANGED <<soft, alive, holds, table, writing, mutex, flushVars, calls>>
  BY DEF Return, At
<1>2. (ok /\ v \in Objs) \/ (~ok /\ v \in {NoValue, Null})
  BY <1>1 DEF Frames, FrameOK
<1>3. /\ pc \in [Threads -> [Keys -> Loc]] /\ {"idle", "build"} \subseteq Loc
      /\ value \in [Threads -> [Keys -> Values \cup {Null}]] /\ Objs \subseteq Values
      /\ status \in [Threads -> [Keys -> {"ok", "fail"}]]
      /\ ptr \in [Threads -> Objs \cup {Null}] /\ of \in [Threads -> Keys \cup {Null}]
  BY DEF Typed, Loc, Values
<1>4. /\ pc' \in [Threads -> [Keys -> Loc]]
      /\ \A q \in Keys : pc'[t][q] = IF q = k THEN "idle" ELSE
                                     IF q \in outer THEN "build" ELSE pc[t][q]
      /\ \A u \in Threads : u # t => pc'[u] = pc[u]
  BY <1>1, <1>3
<1>5. /\ value' \in [Threads -> [Keys -> Values \cup {Null}]]
      /\ \A q \in Keys : value'[t][q] = IF q = k THEN Null ELSE
                                        IF q \in outer /\ ok THEN v ELSE value[t][q]
      /\ \A u \in Threads : u # t => value'[u] = value[u]
  BY <1>1, <1>3
<1>6. /\ status' \in [Threads -> [Keys -> {"ok", "fail"}]] /\ status'[t][k] = "ok"
      /\ \A u \in Threads, q \in Keys : u # t \/ q # k => status'[u][q] = status[u][q]
  BY <1>1, <1>3
<1>7. /\ ptr' \in [Threads -> Objs \cup {Null}] /\ of' \in [Threads -> Keys \cup {Null}]
      /\ doomed' \in [Threads -> Objs \cup {Null}] /\ quiet' \in BOOLEAN
  <2>1. CASE outer = {} /\ ok
    <3>1. /\ ptr' = [ptr EXCEPT ![t] = v] /\ of' = [of EXCEPT ![t] = k]
          /\ References(t, {}, {ptr[t]})
      BY <2>1 DEF Return
    <3>2. {ptr[t]} \subseteq {ptr[t]}
      OBVIOUS
    <3>3. doomed' \in [Threads -> Objs \cup {Null}] /\ quiet' \in BOOLEAN
      BY <3>1, <3>2, ReferencesFact
    <3> QED BY <1>2, <1>3, <2>1, <3>1, <3>3
  <2>2. CASE ~(outer = {} /\ ok)
    <3>1. References(t, {}, {v} \cap {NoValue}) /\ UNCHANGED <<ptr, of>>
      BY <2>2 DEF Return
    <3>2. {v} \cap {NoValue} \subseteq {NoValue}
      OBVIOUS
    <3>3. doomed' \in [Threads -> Objs \cup {Null}] /\ quiet' \in BOOLEAN
      BY <3>1, <3>2, ReferencesFact
    <3> QED BY <1>3, <3>1, <3>3
  <2> QED BY <2>1, <2>2
<1>8. Typed'
  BY <1>1, <1>4, <1>5, <1>6, <1>7 DEF Typed, flushVars
<1>9. TableInv' /\ FlushInv'
  <2>1. flushing \notin {"cleanup", "wipe"}
    BY <1>1, NotCleaning
  <2> QED BY <1>1, <2>1, FlushGoesOn DEF TableInv
<1>10. ASSUME NEW u \in Threads PROVE StackOK(u)'
  <2>1. CASE u # t
    BY <1>4, <2>1, SameStack DEF Frames
  <2>2. CASE u = t
    <3>1. \A q \in Keys : q # k /\ Active(t, q) =>
            /\ Level[k] < Level[q] /\ pc[t][q] = "nested" /\ DepOf[q] \in Keys
            /\ Level[k] <= Level[DepOf[q]]
      BY <1>1, Innermost DEF Frames
    <3>2. \A q \in Keys : Active(t, q)' <=> Active(t, q) /\ q # k
      BY <1>4 DEF Active
    <3> SUFFICES ASSUME NEW p \in Keys
                 PROVE  /\ pc'[t][p] = "nested" => DepOf[p] \in Keys /\ Active(t, DepOf[p])'
                        /\ \A q \in Keys :
                             p # q /\ Active(t, p)' /\ Active(t, q)' =>
                               /\ Level[p] # Level[q]
                               /\ Level[q] < Level[p] =>
                                    pc'[t][p] = "nested" /\ Level[q] <= Level[DepOf[p]]
      BY <2>2 DEF StackOK
    <3>3. pc'[t][p] = "nested" => DepOf[p] \in Keys /\ Active(t, DepOf[p])'
      <4> SUFFICES ASSUME pc'[t][p] = "nested" PROVE DepOf[p] \in Keys /\ Active(t, DepOf[p])'
        OBVIOUS
      <4>1. pc[t][p] = "nested" /\ p \notin outer
        BY <1>4
      <4>2. DepOf[p] # k /\ DepOf[p] \in Keys /\ Active(t, DepOf[p])
        BY <4>1 DEF Frames, StackOK
      <4> QED BY <3>2, <4>2
    <3>4. ASSUME NEW q \in Keys, p # q, Active(t, p)', Active(t, q)'
          PROVE  /\ Level[p] # Level[q]
                 /\ Level[q] < Level[p] => pc'[t][p] = "nested" /\ Level[q] <= Level[DepOf[p]]
      <4>1. Active(t, p) /\ Active(t, q) /\ p # k /\ q # k
        BY <3>2, <3>4
      <4>2. /\ Level[p] # Level[q]
            /\ Level[q] < Level[p] => pc[t][p] = "nested" /\ Level[q] <= Level[DepOf[p]]
        BY <3>4, <4>1 DEF Frames, StackOK
      <4>3. ASSUME Level[q] < Level[p] PROVE pc'[t][p] = "nested"
        <5>1. pc[t][p] = "nested" /\ DepOf[p] \in Keys /\ Level[q] <= Level[DepOf[p]]
              /\ Level[k] < Level[q]
          BY <3>1, <4>1, <4>2, <4>3
        <5>2. Level[k] \in Nat /\ Level[q] \in Nat /\ Level[DepOf[p]] \in Nat
          BY <5>1, CacheAssumption
        <5>3. DepOf[p] # k
          BY <5>1, <5>2
        <5> QED BY <1>4, <4>1, <5>1, <5>3
      <4> QED BY <4>2, <4>3
    <3> QED BY <3>3, <3>4
  <2> QED BY <2>1, <2>2
<1>11. ASSUME NEW u \in Threads, NEW q \in Keys PROVE FrameOK(u, q)'
  <2>1. FrameOK(u, q)
    BY DEF Frames
  <2>2. CASE u # t
    BY <1>4, <1>5, <1>6, <2>1, <2>2, SameFrame
  <2>3. CASE u = t /\ q = k
    BY <1>4, <1>5, <1>6, <2>3 DEF FrameOK
  <2>4. CASE u = t /\ q # k /\ q \in outer
    <3>1. /\ pc'[u][q] = "build" /\ pc[u][q] = "nested" /\ status'[u][q] = status[u][q]
          /\ value'[u][q] = IF ok THEN v ELSE value[u][q]
      BY <1>4, <1>5, <1>6, <2>4
    <3>2. status[u][q] = "ok" /\ value[u][q] = Null
      BY <2>1, <3>1 DEF FrameOK
    <3> HIDE DEF outer
    <3> QED BY <1>2, <3>1, <3>2 DEF FrameOK
  <2>5. CASE u = t /\ q # k /\ q \notin outer
    BY <1>4, <1>5, <1>6, <2>1, <2>5, SameFrame
  <2> QED BY <2>2, <2>3, <2>4, <2>5
<1> QED BY <1>8, <1>9, <1>10, <1>11 DEF Frames

(* Steps that leave the frames, the table and the flush alone.             *)
LEMMA ClientStruct ==
  ASSUME Struct, UNCHANGED <<table, frames, flushVars, calls>>,
         mutex' = mutex \/ (flushing = "no" /\ mutex' = Null),
         alive' \subseteq Objs, holds' \in [Objs -> Objs \cup {Null}],
         ptr' \in [Threads -> Objs \cup {Null}], of' \in [Threads -> Keys \cup {Null}],
         writing' \in [Threads -> {"no", "inplace", "clone"}],
         doomed' \in [Threads -> Objs \cup {Null}], quiet' \in BOOLEAN
  PROVE  Struct'
<1> USE DEF Struct
<1>1. UNCHANGED <<table, pc, value, status, flushing, visit, found, hit, calls>>
  BY DEF frames, flushVars
<1>2. Typed'
  BY <1>1 DEF Typed
<1>3. Frames'
  BY <1>1, FramesStay
<1>4. TableInv' /\ FlushInv'
  BY <1>1, FlushGoesOn DEF TableInv, flushVars
<1> QED BY <1>2, <1>3, <1>4

LEMMA DestroyStruct ==
  ASSUME Struct, NEW t \in Threads, Destroy(t)
  PROVE  Struct'
<1> DEFINE x == doomed[t]
<1>1. /\ x # Null /\ alive' = alive \ {x} /\ holds' = [holds EXCEPT ![x] = Null]
      /\ References(t, {}, {holds[x]})
      /\ mutex' = IF mutex = t /\ flushing = "no" /\ doomed'[t] = Null THEN Null ELSE mutex
      /\ UNCHANGED <<soft, table, frames, client, flushVars, calls>>
  BY DEF Destroy
<1>2. doomed' \in [Threads -> Objs \cup {Null}] /\ quiet' \in BOOLEAN
  <2>1. {holds[x]} \subseteq {holds[x]}
    OBVIOUS
  <2> QED BY <1>1, <2>1, ReferencesFact DEF Struct
<1>3. alive' \subseteq Objs /\ holds' \in [Objs -> Objs \cup {Null}]
  BY <1>1 DEF Struct, Typed
<1>4. /\ ptr' \in [Threads -> Objs \cup {Null}] /\ of' \in [Threads -> Keys \cup {Null}]
      /\ writing' \in [Threads -> {"no", "inplace", "clone"}]
  BY <1>1 DEF client, Struct, Typed
<1>5. mutex' = mutex \/ (flushing = "no" /\ mutex' = Null)
  BY <1>1
<1> QED BY <1>1, <1>2, <1>3, <1>4, <1>5, ClientStruct

LEMMA ReleaseStruct ==
  ASSUME Struct, NEW t \in Threads, Release(t)
  PROVE  Struct'
<1>1. /\ References(t, {}, {ptr[t]})
      /\ ptr' = [ptr EXCEPT ![t] = Null] /\ of' = [of EXCEPT ![t] = Null]
      /\ UNCHANGED <<soft, alive, holds, table, frames, writing, mutex, flushVars, calls>>
  BY DEF Release
<1>2. doomed' \in [Threads -> Objs \cup {Null}] /\ quiet' \in BOOLEAN
  <2>1. {ptr[t]} \subseteq {ptr[t]}
    OBVIOUS
  <2> QED BY <1>1, <2>1, ReferencesFact DEF Struct
<1>3. /\ ptr' \in [Threads -> Objs \cup {Null}] /\ of' \in [Threads -> Keys \cup {Null}]
      /\ alive' \subseteq Objs /\ holds' \in [Objs -> Objs \cup {Null}]
      /\ writing' \in [Threads -> {"no", "inplace", "clone"}]
  BY <1>1 DEF Struct, Typed
<1> QED BY <1>1, <1>2, <1>3, ClientStruct

LEMMA CopyPtrStruct ==
  ASSUME Struct, NEW t \in Threads, NEW u \in Threads, CopyPtr(t, u)
  PROVE  Struct'
<1>1. /\ References(t, {ptr[u]}, {ptr[t]})
      /\ ptr' = [ptr EXCEPT ![t] = ptr[u]] /\ of' = [of EXCEPT ![t] = of[u]]
      /\ UNCHANGED <<soft, alive, holds, table, frames, writing, mutex, flushVars, calls>>
  BY DEF CopyPtr
<1>2. doomed' \in [Threads -> Objs \cup {Null}] /\ quiet' \in BOOLEAN
  <2>1. {ptr[t]} \subseteq {ptr[t]}
    OBVIOUS
  <2> QED BY <1>1, <2>1, ReferencesFact DEF Struct
<1>3. /\ ptr' \in [Threads -> Objs \cup {Null}] /\ of' \in [Threads -> Keys \cup {Null}]
      /\ alive' \subseteq Objs /\ holds' \in [Objs -> Objs \cup {Null}]
      /\ writing' \in [Threads -> {"no", "inplace", "clone"}]
  BY <1>1 DEF Struct, Typed
<1> QED BY <1>1, <1>2, <1>3, ClientStruct

LEMMA CopyOnWriteTestStruct ==
  ASSUME Struct, NEW t \in Threads, CopyOnWriteTest(t)
  PROVE  Struct'
<1>1. /\ writing' = [writing EXCEPT ![t] = IF SoleOwner(ptr[t]) THEN "inplace" ELSE "clone"]
      /\ UNCHANGED <<refs, table, frames, ptr, of, doomed, mutex, flushVars, quiet, calls>>
  BY DEF CopyOnWriteTest
<1>2. UNCHANGED <<alive, holds>>
  BY <1>1 DEF refs
<1>3. /\ ptr' \in [Threads -> Objs \cup {Null}] /\ of' \in [Threads -> Keys \cup {Null}]
      /\ alive' \subseteq Objs /\ holds' \in [Objs -> Objs \cup {Null}]
      /\ doomed' \in [Threads -> Objs \cup {Null}] /\ quiet' \in BOOLEAN
  BY <1>1, <1>2 DEF Struct, Typed
<1>4. writing' \in [Threads -> {"no", "inplace", "clone"}]
  BY <1>1 DEF Struct, Typed
<1> QED BY <1>1, <1>3, <1>4, ClientStruct

LEMMA CopyOnWriteStruct ==
  ASSUME Struct, WriterInv, NEW t \in Threads, CopyOnWrite(t)
  PROVE  Struct'
<1>0. /\ ptr \in [Threads -> Objs \cup {Null}] /\ of \in [Threads -> Keys \cup {Null}]
      /\ alive \subseteq Objs /\ holds \in [Objs -> Objs \cup {Null}]
      /\ writing \in [Threads -> {"no", "inplace", "clone"}]
      /\ doomed \in [Threads -> Objs \cup {Null}] /\ quiet \in BOOLEAN
  BY DEF Struct, Typed
<1>1. /\ writing' = [writing EXCEPT ![t] = "no"]
      /\ UNCHANGED <<soft, table, frames, mutex, flushVars, calls>>
  BY DEF CopyOnWrite
<1>2. writing' \in [Threads -> {"no", "inplace", "clone"}]
  BY <1>0, <1>1
<1>3. /\ ptr' \in [Threads -> Objs \cup {Null}] /\ of' \in [Threads -> Keys \cup {Null}]
      /\ alive' \subseteq Objs /\ holds' \in [Objs -> Objs \cup {Null}]
      /\ doomed' \in [Threads -> Objs \cup {Null}] /\ quiet' \in BOOLEAN
  <2>1. CASE /\ of' = [of EXCEPT ![t] = Null]
             /\ UNCHANGED <<ptr, alive, holds>> /\ NoReferences
    BY <1>0, <2>1 DEF NoReferences
  <2>2. ASSUME NEW x \in Objs \ alive, writing[t] = "clone",
               alive' = alive \cup {x},
               holds' = [holds EXCEPT ![x] = holds[ptr[t]]],
               References(t, {x, holds[ptr[t]]}, {ptr[t]}),
               ptr' = [ptr EXCEPT ![t] = x],
               of' = [of EXCEPT ![t] = Null]
        PROVE  /\ ptr' \in [Threads -> Objs \cup {Null}] /\ of' \in [Threads -> Keys \cup {Null}]
               /\ alive' \subseteq Objs /\ holds' \in [Objs -> Objs \cup {Null}]
               /\ doomed' \in [Threads -> Objs \cup {Null}] /\ quiet' \in BOOLEAN
    <3>1. ptr[t] \in Objs
      BY <1>0, <2>2, SMTT(30) DEF WriterInv
    <3>2. doomed' \in [Threads -> Objs \cup {Null}] /\ quiet' \in BOOLEAN
      <4>1. {ptr[t]} \subseteq {ptr[t]}
        OBVIOUS
      <4> QED BY <2>2, <4>1, ReferencesFact DEF Struct
    <3> QED BY <1>0, <2>2, <3>1, <3>2
  <2>3. CASE UNCHANGED <<ptr, of, alive, holds>> /\ NoReferences
    BY <1>0, <2>3 DEF NoReferences
  <2> QED BY <2>1, <2>2, <2>3 DEF CopyOnWrite
<1> QED BY <1>1, <1>2, <1>3, ClientStruct

-----------------------------------------------------------------------------
LEMMA FlushBeginStruct ==
  ASSUME Struct, NEW t \in Threads, FlushBegin(t) \/ CleanupBegin(t)
  PROVE  Struct'
<1> USE DEF Struct
<1>1. /\ mutex = Null /\ mutex' = t /\ flushing' \in {"flush", "cleanup"}
      /\ calls[t] > 0 /\ calls' = [calls EXCEPT ![t] = @ - 1]
      /\ visit' = Present /\ hit' = FALSE /\ quiet' = TRUE
      /\ UNCHANGED <<refs, table, frames, client, doomed, found>>
  BY DEF FlushBegin, CleanupBegin
<1>2. flushing' = "cleanup" => \A u \in Threads, k \in Keys : pc[u][k] = "idle"
  BY DEF FlushBegin, CleanupBegin, Idle
<1>3. calls' \in [Threads -> 0 .. MaxCalls]
  BY <1>1, CacheAssumption, SMTT(30) DEF Typed
<1>4. UNCHANGED <<alive, holds, table, pc, value, status, ptr, of, writing, doomed, found>>
  BY <1>1 DEF refs, frames, client
<1>5. Typed'
  BY <1>1, <1>3, <1>4 DEF Typed, Present
<1>6. Frames'
  BY <1>4, FramesStay
<1>7. t # Null /\ found = Null
  BY <1>1, CacheAssumption DEF FlushInv
<1>8. FlushInv'
  BY <1>1, <1>2, <1>4, <1>7 DEF FlushInv, Present
<1>9. TableInv'
  BY <1>4 DEF TableInv
<1> QED BY <1>5, <1>6, <1>8, <1>9

LEMMA FlushTestStruct ==
  ASSUME Struct, NEW t \in Threads, NEW k \in Keys, FlushTest(t, k)
  PROVE  Struct'
<1> USE DEF Struct
<1>1. /\ mutex = t /\ flushing # "no" /\ found = Null /\ k \in visit
      /\ visit' = visit \ {k} /\ found' \in {k, Null}
      /\ flushing = "wipe" => found' = k
      /\ UNCHANGED <<refs, table, frames, client, doomed, mutex, flushing, hit, quiet, calls>>
  BY DEF FlushTest
<1>2. UNCHANGED <<alive, holds, table, pc, value, status, ptr, of, writing, doomed>>
  BY <1>1 DEF refs, frames, client
<1>3. Typed'
  BY <1>1, <1>2 DEF Typed
<1>4. Frames'
  BY <1>2, FramesStay
<1>5. table[k] # Absent
  BY <1>1 DEF FlushInv, Present
<1>6. FlushInv'
  <2>1. Present' = Present /\ visit \subseteq Present /\ mutex # Null
    BY <1>1, <1>2 DEF FlushInv, Present
  <2>2. found' # Null => table'[found'] # Absent /\ found' \notin visit'
    BY <1>1, <1>2, <1>5
  <2>3. flushing' \in {"cleanup", "wipe"} => \A u \in Threads, q \in Keys : pc'[u][q] = "idle"
    BY <1>1, <1>2 DEF FlushInv
  <2>4. flushing' = "wipe" => Present' \subseteq visit' \cup {found'}
    BY <1>1, <1>2, <2>1, CacheAssumption DEF FlushInv, Present
  <2> QED BY <1>1, <2>1, <2>2, <2>3, <2>4 DEF FlushInv
<1>7. TableInv'
  BY <1>2 DEF TableInv
<1> QED BY <1>3, <1>4, <1>6, <1>7

LEMMA FlushEvictStruct ==
  ASSUME Struct, NEW t \in Threads, FlushEvict(t)
  PROVE  Struct'
<1> USE DEF Struct
<1>1. /\ mutex = t /\ found # Null /\ table' = [table EXCEPT ![found] = Absent]
      /\ References(t, {}, {table[found].val})
      /\ found' = Null /\ hit' = TRUE
      /\ UNCHANGED <<alive, holds, frames, client, mutex, flushing, visit, calls>>
  BY DEF FlushEvict
<1>2. UNCHANGED <<alive, holds, pc, value, status, ptr, of, writing>>
  BY <1>1 DEF frames, client
<1>3. doomed' \in [Threads -> Objs \cup {Null}] /\ quiet' \in BOOLEAN
  <2>1. {table[found].val} \subseteq {table[found].val}
    OBVIOUS
  <2> QED BY <1>1, <2>1, ReferencesFact
<1>4. found \in Keys /\ table \in [Keys -> Entry]
  BY <1>1 DEF Typed
<1>5. /\ table' \in [Keys -> Entry] /\ table'[found] = Absent
      /\ \A q \in Keys : q # found => table'[q] = table[q]
  BY <1>1, <1>4, AbsentEntry
<1>6. Typed'
  BY <1>1, <1>2, <1>3, <1>5 DEF Typed
<1>7. Frames'
  BY <1>2, FramesStay
<1>8. flushing # "no" /\ found \notin visit
  BY <1>1 DEF FlushInv
<1>9. Present' = Present \ {found}
  BY <1>4, <1>5 DEF Present
<1>10. FlushInv'
  BY <1>1, <1>2, <1>8, <1>9 DEF FlushInv
<1>11. TableInv'
  BY <1>4, <1>5, AbsentEntry DEF TableInv
<1> QED BY <1>6, <1>7, <1>10, <1>11

LEMMA FlushPassEndStruct ==
  ASSUME Struct, NEW t \in Threads, FlushPassEnd(t)
  PROVE  Struct'
<1> USE DEF Struct
<1>1. /\ mutex = t /\ flushing # "no" /\ visit = {} /\ found = Null
      /\ hit' = FALSE /\ quiet' = TRUE
      /\ UNCHANGED <<alive, holds, table, value, status, ptr, writing, doomed, found, calls>>
  BY DEF FlushPassEnd
<1>2. pc' = pc \/ pc' = Woken(pc)
  BY DEF FlushPassEnd
<1>3. /\ visit' \in {visit, Present} /\ (mutex' = mutex \/ mutex' = Null)
      /\ flushing' \in {"no", "flush", "cleanup", "wipe"}
      /\ of' = of \/ of' = [u \in Threads |-> Null]
  BY DEF FlushPassEnd, Typed
<1>4. Typed'
  <2>1. pc' \in [Threads -> [Keys -> Loc]]
    BY <1>2, WokenTyped DEF Typed
  <2>2. visit' \subseteq Keys /\ mutex' \in Threads \cup {Null}
    BY <1>3 DEF Typed, Present
  <2>3. of' \in [Threads -> Keys \cup {Null}]
    BY <1>3 DEF Typed
  <2> QED BY <1>1, <1>3, <2>1, <2>2, <2>3 DEF Typed
<1>5. Frames'
  BY <1>1, <1>2, FramesStay
<1>6. TableInv'
  BY <1>1 DEF TableInv
<1>7. /\ flushing' # "no" => mutex' = t /\ visit' = Present
      /\ flushing' \in {"cleanup", "wipe"} => flushing = "cleanup"
  BY <1>1 DEF FlushPassEnd
<1>8. Present' = Present /\ t # Null
  BY <1>1, CacheAssumption DEF Present
<1>9. \A u \in Threads, k \in Keys : pc[u][k] = "idle" => pc'[u][k] = "idle"
  BY <1>2, ZenonT(60) DEF Woken
<1>10. FlushInv'
  BY <1>1, <1>7, <1>8, <1>9 DEF FlushInv
<1> QED BY <1>4, <1>5, <1>6, <1>10

-----------------------------------------------------------------------------
(* The counts.  A step that gains and gives up references in the table,    *)
(* the clients, the frames and the values, and counts them.                *)
Balanced(gain, lose) ==
  \A x \in Values : Soft(x)' + Hard(x)' = Soft(x) + Hard(x) + One(x \in gain) - One(x \in lose)

SoftExact == soft' \in [Values -> Nat] /\ \A x \in Values : soft'[x] = Soft(x)'

(* Only what is referred to, or new, is gained; only the value t deletes   *)
(* goes away.                                                              *)
Legal(t, gain, lose) ==
  /\ \A x \in Objs : x \in lose => total[x] > 0
  /\ \A x \in Objs : x \in gain => total[x] > 0 \/ x \in alive' \ alive
  /\ \A x \in alive' \ alive : x \in gain /\ x \notin lose
  /\ \A x \in alive : x # doomed[t] => x \in alive'
  /\ doomed[t] \notin alive'
  /\ \A x \in Objs \ alive' : holds'[x] = Null

LEMMA RefStep ==
  ASSUME TypeOK, Typed', Counts, NEW t \in Threads, NEW gain, NEW lose, NEW y, lose \subseteq {y},
         References(t, gain, lose), Balanced(gain, lose), SoftExact, Legal(t, gain, lose)
  PROVE  Counts' /\ TypeOK'
<1> USE CacheAssumption
<1>1. /\ total' = [x \in Values |-> total[x] + One(x \in gain) - One(x \in lose)]
      /\ \A u \in Threads : u # t => doomed'[u] = doomed[u]
      /\ doomed'[t] = IF y \in Objs /\ y \in lose /\ total'[y] = 0 THEN y ELSE Null
  BY ReferencesFact, SMTT(30) DEF TypeOK
<1>2. \A x \in Values : total'[x] = total[x] + One(x \in gain) - One(x \in lose)
  BY <1>1
<1>3. \A x \in Values : total'[x] = Soft(x)' + Hard(x)' /\ total'[x] \in Nat
  <2> SUFFICES ASSUME NEW x \in Values
               PROVE  total'[x] = Soft(x)' + Hard(x)' /\ total'[x] \in Nat
    OBVIOUS
  <2>1. total[x] = Soft(x) + Hard(x)
    BY DEF Counts
  <2>2. Soft(x)' + Hard(x)' = Soft(x) + Hard(x) + One(x \in gain) - One(x \in lose)
    BY DEF Balanced
  <2>3. total'[x] = Soft(x)' + Hard(x)'
    BY <1>2, <2>1, <2>2
  <2> QED BY <2>3, CountTypes, SMTT(30)
<1>4. TypeOK'
  <2>1. total' \in [Values -> Nat]
    BY <1>1, <1>3
  <2> QED BY <2>1 DEF TypeOK, SoftExact
<1>5. Objs \subseteq Values /\ Null \notin Objs /\ alive \subseteq Objs /\ alive' \subseteq Objs
      /\ \A x \in Values : total[x] \in Nat
  BY DEF Values, TypeOK, Typed
<1>6. \A x \in Objs : x \notin gain /\ x \notin lose => total'[x] = total[x]
  BY <1>2, <1>5, SMTT(30) DEF One
<1>7. \A x \in Objs : total[x] > 0 /\ x \notin lose => total'[x] > 0
  BY <1>2, <1>5, SMTT(30) DEF One
<1>8. ASSUME NEW x \in Objs \ alive' PROVE holds'[x] = Null /\ total'[x] = 0
  <2>1. total[x] = 0
    BY <1>5, SMTT(30) DEF Legal, Counts
  <2>2. x \notin gain /\ x \notin lose
    BY <2>1, SMTT(30) DEF Legal
  <2> QED BY <1>6, <2>1, <2>2 DEF Legal
<1>9. ASSUME NEW u \in Threads, doomed'[u] # Null
      PROVE  doomed'[u] \in alive' /\ total'[doomed'[u]] = 0
  <2>1. CASE u # t
    <3>1. /\ doomed'[u] = doomed[u] /\ doomed[u] \in alive /\ total[doomed[u]] = 0
          /\ doomed[u] # doomed[t]
      BY <1>1, <1>9, <2>1 DEF Counts
    <3>2. doomed[u] \in alive' /\ doomed[u] \in Objs
      BY <1>5, <3>1 DEF Legal
    <3>3. doomed[u] \notin gain /\ doomed[u] \notin lose
      BY <3>1, <3>2, SMTT(30) DEF Legal
    <3> QED BY <1>6, <3>1, <3>2, <3>3
  <2>2. CASE u = t
    <3>1. doomed'[t] = y /\ y \in Objs /\ y \in lose /\ total'[y] = 0
      BY <1>1, <1>9, <2>2
    <3>2. total[y] > 0
      BY <3>1 DEF Legal
    <3>3. y \in alive /\ y # doomed[t]
      BY <1>5, <3>1, <3>2, SMTT(30) DEF Counts
    <3> QED BY <2>2, <3>1, <3>3 DEF Legal
  <2> QED BY <2>1, <2>2
<1>10. ASSUME NEW u \in Threads, doomed'[u] # Null, NEW w \in Threads, doomed'[w] = doomed'[u]
       PROVE  w = u
  <2>1. CASE u # t /\ w # t
    BY <1>1, <1>10, <2>1, SMTT(30) DEF Counts
  <2>2. ASSUME NEW a \in Threads, a # t, doomed'[a] = doomed'[t], doomed'[t] # Null PROVE FALSE
    <3>1. doomed'[t] = y /\ y \in Objs /\ y \in lose
      BY <1>1, <2>2
    <3>2. total[y] > 0
      BY <3>1 DEF Legal
    <3>3. doomed[a] = y
      BY <1>1, <2>2, <3>1
    <3> QED BY <1>5, <3>1, <3>2, <3>3, SMTT(30) DEF Counts
  <2> QED BY <1>10, <2>1, <2>2
<1>11. ASSUME NEW x \in alive', total'[x] = 0 PROVE \E u \in Threads : doomed'[u] = x
  <2>1. CASE x \in lose
    <3>1. x = y /\ y \in Objs
      BY <1>5, <2>1
    <3> QED BY <1>1, <1>11, <2>1, <3>1
  <2>2. CASE x \notin lose
    <3>1. x \in Objs /\ x \in alive /\ total[x] = 0
      <4>1. CASE x \in alive
        BY <1>5, <1>7, <1>11, <2>2, <4>1, SMTT(30)
      <4>2. CASE x \notin alive
        <5>1. x \in gain /\ x \in Values /\ total[x] \in Nat
          BY <1>5, <4>2 DEF Legal
        <5>2. total'[x] = total[x] + 1
          BY <1>2, <2>2, <5>1, SMTT(30) DEF One
        <5> QED BY <1>11, <5>1, <5>2, SMTT(30)
      <4> QED BY <4>1, <4>2
    <3>2. PICK u \in Threads : doomed[u] = x
      BY <3>1 DEF Counts
    <3>3. u # t
      BY <3>2 DEF Legal
    <3> QED BY <1>1, <3>2, <3>3
  <2> QED BY <2>1, <2>2
<1>12. \A x \in Values : soft'[x] = Soft(x)' /\ total'[x] = Soft(x)' + Hard(x)'
  BY <1>3 DEF SoftExact
<1> QED BY <1>4, <1>8, <1>9, <1>10, <1>11, <1>12 DEF Counts

LEMMA LegalSame ==
  ASSUME TypeOK, Counts, NEW t \in Threads, doomed[t] = Null, UNCHANGED <<alive, holds>>,
         NEW gain, NEW lose,
         \A x \in Objs : x \in lose \/ x \in gain => total[x] > 0
  PROVE  Legal(t, gain, lose)
BY CacheAssumption DEF Legal, Counts, TypeOK, Typed

LEMMA SoftSame ==
  ASSUME TypeOK, Counts, UNCHANGED <<table, soft>>
  PROVE  SoftExact /\ \A x : Soft(x)' = Soft(x)
<1>1. \A x : Soft(x)' = Soft(x)
  BY DEF Soft, TableRefs
<1> QED BY <1>1 DEF SoftExact, TypeOK, Counts

LEMMA CountsSame ==
  ASSUME TypeOK, Counts, Typed', UNCHANGED <<total, soft, alive, holds, doomed, ptr, value, table>>
  PROVE  Counts' /\ TypeOK'
<1>1. \A x : Soft(x)' = Soft(x) /\ Hard(x)' = Hard(x)
  BY DEF Soft, Hard, TableRefs, PtrRefs, ValueRefs, HoldRefs
<1> QED BY <1>1 DEF Counts, TypeOK

-----------------------------------------------------------------------------
(* The counts are kept by every step.                                      *)
LEMMA ValueTypes ==
  /\ Objs \subseteq Values /\ NoValue \in Values /\ Null \notin Values /\ NoValue \notin Objs
  /\ Absent.val = Null
BY CacheAssumption DEF Values, Absent

LEMMA ValueStep ==
  ASSUME TypeOK, Counts, Typed', NEW t \in Threads, NEW k \in Keys, NEW v \in Values \cup {Null},
         \A u \in Threads, q \in Keys : u # t \/ q # k => value'[u][q] = value[u][q],
         value'[t][k] = v,
         References(t, {v}, {value[t][k]}), doomed[t] = Null,
         v \in Objs => total[v] > 0,
         UNCHANGED <<soft, alive, holds, table, ptr>>
  PROVE  Counts' /\ TypeOK'
<1> DEFINE gain == {v}
           lose == {value[t][k]}
<1>2. \A x : Cardinality(ValueRefs(x)') =
              Cardinality(ValueRefs(x)) + One(x = v) - One(x = value[t][k])
  BY ValueMoves, SMTT(30) DEF TypeOK
<1>3. SoftExact /\ \A x : Soft(x)' = Soft(x)
  BY SoftSame
<1>4. Balanced(gain, lose)
  <2> SUFFICES ASSUME NEW x \in Values
               PROVE  Hard(x)' = Hard(x) + One(x \in gain) - One(x \in lose)
    BY <1>3, CountTypes, SMTT(30) DEF Balanced, One
  <2>1. PtrRefs(x)' = PtrRefs(x) /\ HoldRefs(x)' = HoldRefs(x)
    BY DEF PtrRefs, HoldRefs
  <2> QED BY <1>2, <2>1, Finite, SMTT(30) DEF Hard, One
<1>5. Legal(t, gain, lose)
  <2>1. value[t][k] \in Objs => total[value[t][k]] > 0
    BY Referred, ValueTypes
  <2> QED BY <2>1, LegalSame
<1> QED BY <1>3, <1>4, <1>5, RefStep

LEMMA PtrStep ==
  ASSUME TypeOK, Counts, Typed', NEW t \in Threads, NEW v \in Objs \cup {Null},
         ptr' = [ptr EXCEPT ![t] = v],
         References(t, {v}, {ptr[t]}), doomed[t] = Null,
         v \in Objs => total[v] > 0,
         UNCHANGED <<soft, alive, holds, table, value>>
  PROVE  Counts' /\ TypeOK'
<1> DEFINE gain == {v}
           lose == {ptr[t]}
<1>1. \A x : Cardinality(PtrRefs(x)') = Cardinality(PtrRefs(x)) + One(x = v) - One(x = ptr[t])
  <2>1. (\A u \in Threads : u # t => ptr'[u] = ptr[u]) /\ ptr'[t] = v
    BY DEF TypeOK, Typed
  <2> QED BY <2>1, PtrMoves, SMTT(30) DEF TypeOK
<1>2. SoftExact /\ \A x : Soft(x)' = Soft(x)
  BY SoftSame
<1>3. Balanced(gain, lose)
  <2> SUFFICES ASSUME NEW x \in Values
               PROVE  Hard(x)' = Hard(x) + One(x \in gain) - One(x \in lose)
    BY <1>2, CountTypes, SMTT(30) DEF Balanced, One
  <2>1. ValueRefs(x)' = ValueRefs(x) /\ HoldRefs(x)' = HoldRefs(x)
    BY DEF ValueRefs, HoldRefs
  <2> QED BY <1>1, <2>1, Finite, SMTT(30) DEF Hard, One
<1>4. Legal(t, gain, lose)
  <2>1. ptr[t] \in Objs => total[ptr[t]] > 0
    BY Referred, ValueTypes
  <2> QED BY <2>1, LegalSame
<1> QED BY <1>2, <1>3, <1>4, RefStep

(* A table entry replaced: soft follows the entry.                         *)
LEMMA TableStep ==
  ASSUME TypeOK, Counts, Typed', NEW t \in Threads, NEW k \in Keys, NEW v \in Values \cup {Null},
         \A q \in Keys : q # k => table'[q] = table[q], table'[k].val = v,
         References(t, {v}, {table[k].val}), doomed[t] = Null,
         soft' = [x \in Values |-> soft'[x]],
         \A x \in Values : soft'[x] = soft[x] + One(x = v) - One(x = table[k].val),
         v \in Objs => total[v] > 0,
         UNCHANGED <<alive, holds, ptr, value>>
  PROVE  Counts' /\ TypeOK'
<1> DEFINE gain == {v}
           lose == {table[k].val}
<1>1. \A x : Cardinality(TableRefs(x)') =
              Cardinality(TableRefs(x)) + One(x = v) - One(x = table[k].val)
  BY TableMoves, SMTT(30) DEF TypeOK
<1>2. \A x : Soft(x)' = Soft(x) + One(x = v) - One(x = table[k].val)
  BY <1>1, Finite, SMTT(30) DEF Soft, One
<1>3. \A x : Hard(x)' = Hard(x)
  BY DEF Hard, PtrRefs, ValueRefs, HoldRefs
<1>4. SoftExact
  <2>1. \A x \in Values : soft'[x] = Soft(x)'
    BY <1>2, SMTT(30) DEF Counts
  <2> QED BY <2>1, CountTypes, SMTT(30) DEF SoftExact
<1>5. Balanced(gain, lose)
  <2> SUFFICES ASSUME NEW x \in Values
               PROVE  Soft(x)' = Soft(x) + One(x \in gain) - One(x \in lose)
    BY <1>3, CountTypes, SMTT(30) DEF Balanced, One
  <2> QED BY <1>2 DEF One
<1>6. Legal(t, gain, lose)
  <2>1. table[k].val \in Objs => total[table[k].val] > 0
    BY Referred, ValueTypes
  <2> QED BY <2>1, LegalSame
<1> QED BY <1>4, <1>5, <1>6, RefStep

(* References counts only values: Null may be added to what it is given.   *)
LEMMA NullIsNotCounted ==
  ASSUME NEW t, NEW gain, NEW lose, References(t, gain, lose)
  PROVE  /\ References(t, gain \cup {Null}, lose)
         /\ References(t, gain, lose \cup {Null})
         /\ References(t, gain \cup {Null}, lose \cup {Null})
<1>1. /\ Counted(gain \cup {Null}, lose) = Counted(gain, lose)
      /\ Counted(gain, lose \cup {Null}) = Counted(gain, lose)
      /\ Counted(gain \cup {Null}, lose \cup {Null}) = Counted(gain, lose)
  BY ValueTypes DEF Counted
<1>2. Objs \cap (lose \cup {Null}) = Objs \cap lose /\ (lose \cup {Null}) \cap Values = lose \cap Values
  BY ValueTypes
<1> QED BY <1>1, <1>2 DEF References

LEMMA PollCounts ==
  ASSUME Struct, TypeOK, Counts, NEW t \in Threads, NEW k \in Keys, Poll(t, k)
  PROVE  Counts' /\ TypeOK'
<1>1. Typed'
  BY PollStruct DEF Struct
<1>2. /\ doomed[t] = Null /\ pc[t][k] = "poll"
      /\ UNCHANGED <<alive, holds, ptr>>
  BY DEF Poll, At, client
<1>3. value[t][k] = Null
  BY <1>2 DEF Struct, Frames, FrameOK
<1>4. CASE UNCHANGED <<table, soft, value>> /\ NoReferences
  BY <1>1, <1>2, <1>4, CountsSame DEF NoReferences
<1>5. CASE /\ table[k] # Absent
           /\ value' = [value EXCEPT ![t][k] = table[k].val]
           /\ References(t, {table[k].val}, {})
           /\ UNCHANGED <<table, soft>>
  <2> DEFINE v == table[k].val
  <2>1. v \in Values
    BY <1>5, EntryFact DEF Struct
  <2>2. References(t, {v}, {value[t][k]})
    <3>1. References(t, {v}, {} \cup {Null})
      BY <1>5, NullIsNotCounted
    <3>2. {} \cup {Null} = {value[t][k]}
      BY <1>3
    <3> QED BY <3>1, <3>2
  <2>3. total[v] > 0
    BY <2>1, Referred
  <2>4. /\ \A u \in Threads, q \in Keys : u # t \/ q # k => value'[u][q] = value[u][q]
        /\ value'[t][k] = v
    BY <1>5, <2>1 DEF TypeOK, Typed
  <2> HIDE DEF v
  <2> QED BY <1>1, <1>2, <1>5, <2>1, <2>2, <2>3, <2>4, ValueStep
<1>6. CASE /\ table[k] = Absent
           /\ table' = [table EXCEPT ![k] = [val |-> NoValue, status |-> "ok"]]
           /\ References(t, {NoValue}, {})
           /\ soft' = [soft EXCEPT ![NoValue] = @ + 1]
           /\ UNCHANGED value
  <2>1. /\ table[k].val = Null /\ NoValue \in Values \cup {Null} /\ NoValue \notin Objs
        /\ \A x \in Values : x # Null
    BY <1>6, ValueTypes
  <2>2. References(t, {NoValue}, {table[k].val})
    <3>1. References(t, {NoValue}, {} \cup {Null})
      BY <1>6, NullIsNotCounted
    <3>2. {} \cup {Null} = {table[k].val}
      BY <2>1
    <3> QED BY <3>1, <3>2
  <2>3. /\ soft' = [x \in Values |-> soft'[x]]
        /\ \A x \in Values : soft'[x] = soft[x] + One(x = NoValue) - One(x = table[k].val)
    <3>1. soft \in [Values -> Nat]
      BY DEF TypeOK
    <3>2. soft' = [x \in Values |-> soft'[x]]
      BY <1>6, <3>1
    <3>3. \A x \in Values : soft'[x] = soft[x] + One(x = NoValue)
      BY <1>6, <3>1 DEF One
    <3> QED BY <2>1, <3>1, <3>2, <3>3, SMTT(30) DEF One
  <2>4. (\A q \in Keys : q # k => table'[q] = table[q]) /\ table'[k].val = NoValue
    BY <1>6 DEF TypeOK, Typed
  <2>5. UNCHANGED <<alive, holds, ptr, value>>
    BY <1>2, <1>6
  <2> QED BY <1>1, <1>2, <2>1, <2>2, <2>3, <2>4, <2>5, TableStep, SMTT(30)
<1> QED BY <1>4, <1>5, <1>6 DEF Poll

LEMMA BuildCounts ==
  ASSUME Struct, TypeOK, Counts, NEW t \in Threads, NEW k \in Keys, Build(t, k)
  PROVE  Counts' /\ TypeOK'
<1> DEFINE v == value[t][k]
<1>1. Typed'
  BY BuildStruct DEF Struct
<1>2. /\ doomed[t] = Null /\ pc[t][k] \in {"build", "create"}
      /\ UNCHANGED <<soft, table, ptr>>
  BY DEF Build, At, client
<1>3. v \in Objs \cup {Null}
  BY <1>2 DEF Struct, Frames, FrameOK
<1>4. CASE UNCHANGED <<alive, holds, value, status>> /\ NoReferences
  BY <1>1, <1>2, <1>4, CountsSame DEF NoReferences
<1>5. CASE /\ References(t, {NoValue}, {v})
           /\ value' = [value EXCEPT ![t][k] = NoValue]
           /\ UNCHANGED <<alive, holds>>
  <2>1. /\ \A u \in Threads, q \in Keys : u # t \/ q # k => value'[u][q] = value[u][q]
        /\ value'[t][k] = NoValue
    BY <1>5, ValueTypes DEF TypeOK, Typed
  <2> QED BY <1>1, <1>2, <1>5, <2>1, ValueStep, ValueTypes
<1>6. ASSUME NEW x \in Objs \ alive,
             alive' = alive \cup {x}, holds' = [holds EXCEPT ![x] = v],
             References(t, {x}, {}), value' = [value EXCEPT ![t][k] = x]
      PROVE  Counts' /\ TypeOK'
  <2>1. /\ \A u \in Threads, q \in Keys : u # t \/ q # k => value'[u][q] = value[u][q]
        /\ value'[t][k] = x
    BY <1>6 DEF TypeOK, Typed
  <2>2. \A z : Cardinality(ValueRefs(z)') = Cardinality(ValueRefs(z)) + One(z = x) - One(z = v)
    BY <2>1, ValueMoves, SMTT(30) DEF TypeOK
  <2>3. (\A u \in Objs : u # x => holds'[u] = holds[u]) /\ holds'[x] = v /\ holds[x] = Null
    BY <1>6 DEF TypeOK, Typed, Counts
  <2>4. \A z : Cardinality(HoldRefs(z)') = Cardinality(HoldRefs(z)) + One(z = v) - One(z = Null)
    BY <2>3, HoldMoves, SMTT(30) DEF TypeOK
  <2>5. SoftExact /\ \A z : Soft(z)' = Soft(z)
    BY <1>2, SoftSame
  <2>6. Balanced({x}, {})
    <3> SUFFICES ASSUME NEW z \in Values
                 PROVE  Hard(z)' = Hard(z) + One(z \in {x}) - One(z \in {})
      BY <2>5, CountTypes DEF Balanced, One
    <3>1. PtrRefs(z)' = PtrRefs(z) /\ z # Null
      BY <1>2, ValueTypes DEF PtrRefs
    <3> HIDE DEF v
    <3> QED BY <2>2, <2>4, <3>1, Finite, SMTT(30) DEF Hard, One
  <2>7. Legal(t, {x}, {})
    <3>1. \A z \in Objs \ alive' : holds'[z] = Null
      BY <1>6, <2>3 DEF Counts
    <3>2. doomed[t] \notin alive'
      BY <1>2, <1>6, CacheAssumption DEF TypeOK, Typed
    <3> QED BY <1>6, <3>1, <3>2 DEF Legal
  <2>8. {} \subseteq {Null}
    OBVIOUS
  <2> QED BY <1>1, <1>6, <2>5, <2>6, <2>7, <2>8, RefStep
<1> QED BY <1>4, <1>5, <1>6 DEF Build

LEMMA PutCounts ==
  ASSUME Struct, TypeOK, Counts, NEW t \in Threads, NEW k \in Keys, PutIfAbsentAndGet(t, k)
  PROVE  Counts' /\ TypeOK'
<1> DEFINE e == table[k]
           v == value[t][k]
           n == [val |-> v, status |-> status[t][k]]
<1>1. Typed'
  BY PutStruct DEF Struct
<1>2. /\ doomed[t] = Null /\ pc[t][k] = "put"
      /\ UNCHANGED <<alive, holds, ptr>>
  BY DEF PutIfAbsentAndGet, At, client
<1>3. v \in Values /\ n.val = v /\ (v \in Objs => total[v] > 0)
  <2>1. v \in Values
    BY <1>2, ValueTypes DEF Struct, Frames, FrameOK
  <2> QED BY <2>1, Referred
<1>4. CASE UNCHANGED <<table, soft, value, status>> /\ NoReferences
  BY <1>1, <1>2, <1>4, CountsSame DEF NoReferences
<1>5. CASE /\ e # Absent /\ References(t, {e.val}, {v})
           /\ value' = [value EXCEPT ![t][k] = e.val]
           /\ UNCHANGED <<table, soft>>
  <2>1. e.val \in Values \cup {Null} /\ (e.val \in Objs => total[e.val] > 0)
    BY <1>5, EntryFact, Referred, ValueTypes DEF Struct
  <2>2. /\ \A u \in Threads, q \in Keys : u # t \/ q # k => value'[u][q] = value[u][q]
        /\ value'[t][k] = e.val
    BY <1>5, <2>1 DEF TypeOK, Typed
  <2> QED BY <1>1, <1>2, <1>5, <2>1, <2>2, ValueStep
<1>6. CASE /\ e = Absent /\ table' = [table EXCEPT ![k] = n]
           /\ References(t, {v}, {})
           /\ soft' = [soft EXCEPT ![v] = @ + 1]
           /\ UNCHANGED <<value, status>>
  <2>1. e.val = Null
    BY <1>6, ValueTypes
  <2>2. References(t, {v}, {table[k].val})
    <3>1. References(t, {v}, {} \cup {Null})
      BY <1>6, NullIsNotCounted
    <3>2. {} \cup {Null} = {table[k].val}
      BY <2>1
    <3> QED BY <3>1, <3>2
  <2>3. /\ soft' = [x \in Values |-> soft'[x]]
        /\ \A x \in Values : soft'[x] = soft[x] + One(x = v) - One(x = table[k].val)
    <3>1. soft \in [Values -> Nat] /\ v \in Values /\ \A x \in Values : x # Null
      BY <1>3, ValueTypes DEF TypeOK
    <3>2. soft' = [x \in Values |-> soft'[x]]
      BY <1>6, <3>1
    <3>3. \A x \in Values : soft'[x] = soft[x] + One(x = v)
      BY <1>6, <3>1, SMTT(30) DEF One
    <3> QED BY <2>1, <3>1, <3>2, <3>3, SMTT(30) DEF One
  <2>4. (\A q \in Keys : q # k => table'[q] = table[q]) /\ table'[k].val = v
    BY <1>3, <1>6 DEF TypeOK, Typed
  <2>5. UNCHANGED <<alive, holds, ptr, value>>
    BY <1>2, <1>6
  <2> HIDE DEF v
  <2> QED BY <1>1, <1>2, <1>3, <2>2, <2>3, <2>4, <2>5, TableStep, SMTT(30)
<1>7. CASE /\ InProgress(e) /\ table' = [table EXCEPT ![k] = n]
           /\ References(t, {v}, {NoValue})
           /\ soft' = [x \in Values |-> soft[x] + (IF x = v THEN 1 ELSE 0)
                                                - (IF x = NoValue THEN 1 ELSE 0)]
           /\ UNCHANGED <<value, status>>
  <2>1. e.val = NoValue
    BY <1>7 DEF InProgress
  <2>2. References(t, {v}, {table[k].val})
    BY <1>7, <2>1
  <2>3. /\ soft' = [x \in Values |-> soft'[x]]
        /\ \A x \in Values : soft'[x] = soft[x] + One(x = v) - One(x = table[k].val)
    BY <1>7, <2>1 DEF One
  <2>4. (\A q \in Keys : q # k => table'[q] = table[q]) /\ table'[k].val = v
    BY <1>3, <1>7 DEF TypeOK, Typed
  <2>5. UNCHANGED <<alive, holds, ptr, value>>
    BY <1>2, <1>7
  <2> HIDE DEF v
  <2> QED BY <1>1, <1>2, <1>3, <2>2, <2>3, <2>4, <2>5, TableStep, SMTT(30)
<1> QED BY <1>4, <1>5, <1>6, <1>7 DEF PutIfAbsentAndGet

(* What a nested get returns moves to the frame of its caller.             *)
LEMMA ValueShifts ==
  ASSUME Typed, NEW t \in Threads, NEW k \in Keys, NEW p \in Keys, p # k,
         \A u \in Threads, q \in Keys :
           u # t \/ (q # k /\ q # p) => value'[u][q] = value[u][q],
         value'[t][k] = Null, value[t][p] = Null, value'[t][p] = value[t][k],
         NEW x \in Values
  PROVE  Cardinality(ValueRefs(x)') = Cardinality(ValueRefs(x))
<1> DEFINE A == ValueRefs(x)
           B == ValueRefs(x)'
           C == A \ {<<t, k>>}
<1>1. IsFiniteSet(A) /\ IsFiniteSet(B) /\ IsFiniteSet(C)
  BY Finite, FiniteNext, FS_Difference
<1>2. Cardinality(A) \in Nat /\ Cardinality(B) \in Nat /\ Cardinality(C) \in Nat
  BY <1>1, FS_CardinalityType
<1>3. Cardinality(C) = Cardinality(A) + One(<<t, k>> \in C) - One(<<t, k>> \in A)
  BY <1>1, Differ
<1>4. \A e : e # <<t, p>> => (e \in C <=> e \in B)
  <2> SUFFICES ASSUME NEW e \in Threads \X Keys, e # <<t, p>> PROVE e \in C <=> e \in B
    BY DEF ValueRefs
  <2>1. e = <<e[1], e[2]>> /\ e[1] \in Threads /\ e[2] \in Keys
    OBVIOUS
  <2>2. CASE e = <<t, k>>
    BY <2>2, ValueTypes DEF ValueRefs
  <2>3. CASE e # <<t, k>>
    <3>1. value'[e[1]][e[2]] = value[e[1]][e[2]]
      BY <2>1, <2>3
    <3> QED BY <2>3, <3>1 DEF ValueRefs
  <2> QED BY <2>2, <2>3
<1>5. Cardinality(B) = Cardinality(C) + One(<<t, p>> \in B) - One(<<t, p>> \in C)
  BY <1>1, <1>4, Differ
<1>6. /\ <<t, k>> \notin C /\ (<<t, k>> \in A <=> value[t][k] = x)
      /\ <<t, p>> \notin C /\ (<<t, p>> \in B <=> value[t][k] = x)
  BY ValueTypes DEF ValueRefs
<1> HIDE DEF A, B, C
<1>7. Cardinality(B) = Cardinality(A)
  BY <1>2, <1>3, <1>5, <1>6, SMTT(30) DEF One
<1> QED BY <1>7 DEF A, B

LEMMA ReturnCounts ==
  ASSUME Struct, TypeOK, Counts, NEW t \in Threads, NEW k \in Keys, Return(t, k)
  PROVE  Counts' /\ TypeOK'
<1> DEFINE v == value[t][k]
           outer == {p \in Keys : pc[t][p] = "nested" /\ DepOf[p] = k}
           ok == status[t][k] = "ok"
<1>1. Typed'
  BY ReturnStruct DEF Struct
<1>2. /\ doomed[t] = Null /\ pc[t][k] = "ret"
      /\ UNCHANGED <<soft, alive, holds, table>>
  BY DEF Return, At
<1>3. (ok /\ v \in Objs) \/ (~ok /\ v \in {NoValue, Null})
  BY <1>2 DEF Struct, Frames, FrameOK
<1>4. /\ \A q \in Keys : value'[t][q] = IF q = k THEN Null ELSE
                                        IF q \in outer /\ ok THEN v ELSE value[t][q]
      /\ \A u \in Threads : u # t => value'[u] = value[u]
  BY DEF Return, TypeOK, Typed
<1>5. CASE ~ok
  <2>1. References(t, {}, {v} \cap {NoValue}) /\ UNCHANGED ptr
    BY <1>5 DEF Return
  <2>2. References(t, {Null}, {v})
    <3>1. CASE v = NoValue
      <4>1. {v} \cap {NoValue} = {v} /\ {} \cup {Null} = {Null}
        BY <3>1
      <4> QED BY <2>1, <4>1, NullIsNotCounted, SMTT(30)
    <3>2. CASE v = Null
      <4>1. {v} \cap {NoValue} = {} /\ {} \cup {Null} = {Null} /\ {v} = {Null}
        BY <3>2, ValueTypes
      <4>2. References(t, {}, {})
        BY <2>1, <4>1
      <4>3. References(t, {} \cup {Null}, {} \cup {Null})
        BY <4>2, NullIsNotCounted
      <4> QED BY <4>1, <4>3
    <3> QED BY <1>3, <1>5, <3>1, <3>2
  <2>3. /\ \A u \in Threads, q \in Keys : u # t \/ q # k => value'[u][q] = value[u][q]
        /\ value'[t][k] = Null
    BY <1>4, <1>5
  <2>4. Null \in Values \cup {Null} /\ Null \notin Objs
    BY ValueTypes
  <2> HIDE DEF outer
  <2> QED BY <1>1, <1>2, <2>1, <2>2, <2>3, <2>4, ValueStep
<1>6. SoftExact /\ \A x : Soft(x)' = Soft(x)
  BY <1>2, SoftSame
<1>7. CASE ok /\ outer = {}
  <2> DEFINE o == ptr[t]
  <2>1. References(t, {}, {o}) /\ ptr' = [ptr EXCEPT ![t] = v]
    BY <1>7 DEF Return
  <2>2. (\A u \in Threads : u # t => ptr'[u] = ptr[u]) /\ ptr'[t] = v
    BY <2>1 DEF TypeOK, Typed
  <2>3. \A x : Cardinality(PtrRefs(x)') = Cardinality(PtrRefs(x)) + One(x = v) - One(x = o)
    BY <2>2, PtrMoves, SMTT(30) DEF TypeOK
  <2>4. /\ \A u \in Threads, q \in Keys : u # t \/ q # k => value'[u][q] = value[u][q]
        /\ value'[t][k] = Null
    BY <1>4, <1>7
  <2>5. \A x : Cardinality(ValueRefs(x)') = Cardinality(ValueRefs(x)) + One(x = Null) - One(x = v)
    BY <2>4, ValueMoves, SMTT(30) DEF TypeOK
  <2> HIDE DEF v, o, outer, ok
  <2>6. Balanced({}, {o})
    <3> SUFFICES ASSUME NEW x \in Values
                 PROVE  Hard(x)' = Hard(x) + One(x \in {}) - One(x \in {o})
      BY <1>6, CountTypes DEF Balanced, One
    <3>1. HoldRefs(x)' = HoldRefs(x) /\ x # Null
      BY <1>2, ValueTypes DEF HoldRefs
    <3> QED BY <2>3, <2>5, <3>1, Finite DEF Hard, One
  <2>7. Legal(t, {}, {o})
    <3>1. o \in Objs => total[o] > 0
      BY Referred, ValueTypes DEF o
    <3> QED BY <1>2, <3>1, LegalSame
  <2>8. {o} \subseteq {o}
    OBVIOUS
  <2> QED BY <1>1, <1>6, <2>1, <2>6, <2>7, <2>8, RefStep
<1>8. CASE ok /\ outer # {}
  <2>1. References(t, {}, {}) /\ UNCHANGED ptr
    <3>1. References(t, {}, {v} \cap {NoValue}) /\ UNCHANGED ptr
      BY <1>8 DEF Return
    <3>2. {v} \cap {NoValue} = {}
      BY <1>3, <1>8, ValueTypes
    <3> QED BY <3>1, <3>2
  <2>2. PICK p \in Keys : p \in outer
    BY <1>8
  <2>3. p # k /\ pc[t][p] = "nested" /\ DepOf[p] = k /\ value[t][p] = Null
    BY <1>2, <2>2 DEF Struct, Frames, FrameOK
  <2>4. ASSUME NEW q \in outer, q # p PROVE FALSE
    <3>1. /\ q \in Keys /\ pc[t][q] = "nested" /\ DepOf[q] = k
          /\ Active(t, p) /\ Active(t, q) /\ StackOK(t)
      BY <2>3, <2>4 DEF Active, Struct, Frames
    <3>2. /\ Level[p] \in Nat /\ Level[q] \in Nat /\ Level[k] \in Nat
          /\ Level[k] < Level[p] /\ Level[k] < Level[q]
      BY <2>3, <3>1, CacheAssumption
    <3>3. /\ Level[p] # Level[q]
          /\ Level[q] < Level[p] => Level[q] <= Level[DepOf[p]]
          /\ Level[p] < Level[q] => Level[p] <= Level[DepOf[q]]
      BY <2>4, <3>1 DEF StackOK
    <3> QED BY <2>3, <3>1, <3>2, <3>3, SMTT(30)
  <2>5. /\ \A u \in Threads, q \in Keys :
             u # t \/ (q # k /\ q # p) => value'[u][q] = value[u][q]
        /\ value'[t][k] = Null /\ value'[t][p] = v
    BY <1>4, <1>8, <2>2, <2>3, <2>4
  <2>6. \A x \in Values : Cardinality(ValueRefs(x)') = Cardinality(ValueRefs(x))
    BY <2>3, <2>5, ValueShifts, ZenonT(60) DEF TypeOK
  <2>7. Balanced({}, {})
    <3> SUFFICES ASSUME NEW x \in Values PROVE Hard(x)' = Hard(x)
      BY <1>6, CountTypes DEF Balanced, One
    <3>1. HoldRefs(x)' = HoldRefs(x) /\ PtrRefs(x)' = PtrRefs(x)
      BY <1>2, <2>1 DEF HoldRefs, PtrRefs
    <3> QED BY <2>6, <3>1 DEF Hard
  <2>8. Legal(t, {}, {})
    BY <1>2, LegalSame
  <2>9. {} \subseteq {Null}
    OBVIOUS
  <2> QED BY <1>1, <1>6, <2>1, <2>7, <2>8, <2>9, RefStep
<1> QED BY <1>5, <1>7, <1>8

LEMMA DestroyCounts ==
  ASSUME Struct, TypeOK, Counts, NEW t \in Threads, Destroy(t)
  PROVE  Counts' /\ TypeOK'
<1> DEFINE x == doomed[t]
           h == holds[x]
<1>1. Typed'
  BY DestroyStruct DEF Struct
<1>2. /\ x # Null /\ alive' = alive \ {x} /\ holds' = [holds EXCEPT ![x] = Null]
      /\ References(t, {}, {h}) /\ UNCHANGED <<soft, table, ptr, value>>
  BY DEF Destroy, frames, client
<1>3. x \in alive /\ x \in Objs /\ x \in Values /\ total[x] = 0
  BY <1>2, ValueTypes DEF Counts, TypeOK, Typed
<1>4. (\A u \in Objs : u # x => holds'[u] = holds[u]) /\ holds'[x] = Null
  BY <1>2, <1>3 DEF TypeOK, Typed
<1>5. \A z : Cardinality(HoldRefs(z)') = Cardinality(HoldRefs(z)) + One(z = Null) - One(z = h)
  BY <1>3, <1>4, HoldMoves, SMTT(30) DEF TypeOK
<1>6. SoftExact /\ \A z : Soft(z)' = Soft(z)
  BY <1>2, SoftSame
<1>7. h \in Objs => total[h] > 0
  BY <1>3, Referred, ValueTypes
<1> HIDE DEF x, h
<1>8. Balanced({}, {h})
  <2> SUFFICES ASSUME NEW z \in Values
               PROVE  Hard(z)' = Hard(z) + One(z \in {}) - One(z \in {h})
    BY <1>6, CountTypes DEF Balanced, One
  <2>1. PtrRefs(z)' = PtrRefs(z) /\ ValueRefs(z)' = ValueRefs(z) /\ z # Null
    BY <1>2, ValueTypes DEF PtrRefs, ValueRefs
  <2> QED BY <1>5, <2>1, Finite DEF Hard, One
<1>9. Legal(t, {}, {h})
  <2>1. \A z \in Objs \ alive' : holds'[z] = Null
    BY <1>2, <1>4 DEF Counts
  <2> QED BY <1>2, <1>7, <2>1 DEF Legal, x
<1>10. {h} \subseteq {h}
  OBVIOUS
<1> QED BY <1>1, <1>2, <1>6, <1>8, <1>9, <1>10, RefStep

LEMMA ReleaseCounts ==
  ASSUME Struct, TypeOK, Counts, NEW t \in Threads, Release(t)
  PROVE  Counts' /\ TypeOK'
<1>1. Typed'
  BY ReleaseStruct DEF Struct
<1>2. /\ doomed[t] = Null /\ ptr' = [ptr EXCEPT ![t] = Null]
      /\ References(t, {}, {ptr[t]}) /\ UNCHANGED <<soft, alive, holds, table, value>>
  BY DEF Release, Idle, frames
<1>3. References(t, {Null}, {ptr[t]})
  <2>1. References(t, {} \cup {Null}, {ptr[t]})
    BY <1>2, NullIsNotCounted
  <2>2. {} \cup {Null} = {Null}
    OBVIOUS
  <2> QED BY <2>1, <2>2
<1>4. Null \in Objs \cup {Null} /\ Null \notin Objs
  BY ValueTypes
<1> QED BY <1>1, <1>2, <1>3, <1>4, PtrStep

LEMMA CopyPtrCounts ==
  ASSUME Struct, TypeOK, Counts, NEW t \in Threads, NEW u \in Threads, CopyPtr(t, u)
  PROVE  Counts' /\ TypeOK'
<1>1. Typed'
  BY CopyPtrStruct DEF Struct
<1>2. /\ doomed[t] = Null /\ ptr' = [ptr EXCEPT ![t] = ptr[u]]
      /\ References(t, {ptr[u]}, {ptr[t]}) /\ UNCHANGED <<soft, alive, holds, table, value>>
  BY DEF CopyPtr, Idle, frames
<1>3. ptr[u] \in Objs \cup {Null} /\ (ptr[u] \in Objs => total[ptr[u]] > 0)
  BY Referred, ValueTypes DEF TypeOK, Typed
<1> QED BY <1>1, <1>2, <1>3, PtrStep

LEMMA CopyOnWriteCounts ==
  ASSUME Struct, TypeOK, Counts, WriterInv, NEW t \in Threads, CopyOnWrite(t)
  PROVE  Counts' /\ TypeOK'
<1> DEFINE o == ptr[t]
           h == holds[o]
<1>1. Typed'
  BY CopyOnWriteStruct DEF Struct
<1>2. doomed[t] = Null /\ UNCHANGED <<soft, table, value>>
  BY DEF CopyOnWrite, Idle, frames
<1>3. CASE UNCHANGED <<ptr, alive, holds>> /\ NoReferences
  BY <1>1, <1>2, <1>3, CountsSame DEF NoReferences
<1>4. ASSUME NEW x \in Objs \ alive, writing[t] = "clone",
             alive' = alive \cup {x}, holds' = [holds EXCEPT ![x] = h],
             References(t, {x, h}, {o}), ptr' = [ptr EXCEPT ![t] = x]
      PROVE  Counts' /\ TypeOK'
  <2>1. (\A u \in Threads : u # t => ptr'[u] = ptr[u]) /\ ptr'[t] = x
    BY <1>4 DEF TypeOK, Typed
  <2>2. \A z : Cardinality(PtrRefs(z)') = Cardinality(PtrRefs(z)) + One(z = x) - One(z = o)
    BY <2>1, PtrMoves, SMTT(30) DEF TypeOK
  <2>3. (\A u \in Objs : u # x => holds'[u] = holds[u]) /\ holds'[x] = h /\ holds[x] = Null
        /\ total[x] = 0
    BY <1>4 DEF TypeOK, Typed, Counts
  <2>4. \A z : Cardinality(HoldRefs(z)') = Cardinality(HoldRefs(z)) + One(z = h) - One(z = Null)
    BY <2>3, HoldMoves, SMTT(30) DEF TypeOK
  <2>5. SoftExact /\ \A z : Soft(z)' = Soft(z)
    BY <1>2, SoftSame
  <2>6. o \in Objs /\ total[o] > 0 /\ (h \in Objs => total[h] > 0)
    <3>1. o \in Objs
      <4>1. o \in Objs \cup {Null} /\ o # Null
        BY <1>4 DEF WriterInv, TypeOK, Typed
      <4> QED BY <4>1
    <3> QED BY <3>1, Referred, ValueTypes
  <2>7. x # h /\ x # o
    <3>1. ~(0 > 0)
      BY SMT
    <3> QED BY <2>3, <2>6, <3>1
  <2> HIDE DEF h, o
  <2>8. Balanced({x, h}, {o})
    <3> SUFFICES ASSUME NEW z \in Values
                 PROVE  Hard(z)' = Hard(z) + One(z \in {x, h}) - One(z \in {o})
      BY <2>5, CountTypes, SMTT(30) DEF Balanced, One
    <3>1. ValueRefs(z)' = ValueRefs(z) /\ z # Null
      BY <1>2, ValueTypes DEF ValueRefs
    <3>2. One(z \in {x, h}) = One(z = x) + One(z = h) /\ One(z \in {o}) = One(z = o)
      BY <2>7 DEF One
    <3>3. One(z = Null) = 0
      BY <3>1 DEF One
    <3>4. One(z = x) \in Nat /\ One(z = h) \in Nat /\ One(z = o) \in Nat
      BY DEF One
    <3> QED BY <2>2, <2>4, <3>1, <3>2, <3>3, <3>4, Finite, SMTT(30) DEF Hard
  <2>9. Legal(t, {x, h}, {o})
    <3>1. \A z \in Objs \ alive' : holds'[z] = Null
      BY <1>4, <2>3 DEF Counts
    <3>2. doomed[t] \notin alive'
      BY <1>2, <1>4, CacheAssumption DEF TypeOK, Typed
    <3> QED BY <1>4, <2>6, <2>7, <3>1, <3>2 DEF Legal
  <2>10. {o} \subseteq {o}
    OBVIOUS
  <2> QED BY <1>1, <1>4, <2>5, <2>8, <2>9, <2>10, RefStep
<1> QED BY <1>3, <1>4 DEF CopyOnWrite

LEMMA FlushEvictCounts ==
  ASSUME Struct, TypeOK, Counts, NEW t \in Threads, FlushEvict(t)
  PROVE  Counts' /\ TypeOK'
<1> DEFINE v == table[found].val
<1>1. Typed'
  BY FlushEvictStruct DEF Struct
<1>2. /\ doomed[t] = Null /\ found # Null
      /\ table' = [table EXCEPT ![found] = Absent] /\ soft' = [soft EXCEPT ![v] = @ - 1]
      /\ References(t, {}, {v}) /\ UNCHANGED <<alive, holds, ptr, value>>
  BY DEF FlushEvict, frames, client
<1>3. found \in Keys /\ table[found] # Absent
  BY <1>2 DEF Struct, Typed, FlushInv
<1>4. v \in Values
  BY <1>3, EntryFact DEF Struct
<1>5. References(t, {Null}, {v})
  <2>1. References(t, {} \cup {Null}, {v})
    BY <1>2, NullIsNotCounted
  <2>2. {} \cup {Null} = {Null}
    OBVIOUS
  <2> QED BY <2>1, <2>2
<1>6. (\A q \in Keys : q # found => table'[q] = table[q]) /\ table'[found].val = Null
  BY <1>2, <1>3, ValueTypes DEF TypeOK, Typed
<1>7. /\ soft' = [x \in Values |-> soft'[x]]
      /\ \A x \in Values : soft'[x] = soft[x] + One(x = Null) - One(x = v)
  <2>1. soft \in [Values -> Nat] /\ \A x \in Values : x # Null
    BY ValueTypes DEF TypeOK
  <2> HIDE DEF v
  <2>2. soft' = [x \in Values |-> soft'[x]]
    BY <1>2, <2>1
  <2>3. \A x \in Values : soft'[x] = soft[x] - One(x = v)
    BY <1>2, <1>4, <2>1, SMTT(30) DEF One
  <2> QED BY <2>1, <2>2, <2>3, SMTT(30) DEF One
<1>8. Null \in Values \cup {Null} /\ Null \notin Objs /\ UNCHANGED <<alive, holds, ptr, value>>
  BY <1>2, ValueTypes
<1>9. doomed[t] = Null
  BY <1>2
<1> QED BY <1>1, <1>3, <1>5, <1>6, <1>7, <1>8, <1>9, TableStep

(* gNoValue is replaced when nothing refers to it.                         *)
LEMMA FlushPassEndCounts ==
  ASSUME Struct, TypeOK, Counts, NEW t \in Threads, FlushPassEnd(t)
  PROVE  Counts' /\ TypeOK'
<1>1. Typed'
  BY FlushPassEndStruct DEF Struct
<1>2. UNCHANGED <<alive, holds, doomed, ptr, value, table>> /\ visit = {} /\ found = Null
  BY DEF FlushPassEnd
<1>3. CASE UNCHANGED <<total, soft>>
  BY <1>1, <1>2, <1>3, CountsSame
<1>4. CASE /\ flushing = "wipe" /\ total' = [total EXCEPT ![NoValue] = 1]
           /\ soft' = [soft EXCEPT ![NoValue] = 1]
  <2>1. Present = {}
    BY <1>2, <1>4, CacheAssumption DEF Struct, FlushInv, Present
  <2>2. TableRefs(NoValue) = {}
    <3>1. \A k \in Keys : table[k].val = Null
      BY <2>1, ValueTypes DEF Present
    <3> QED BY <3>1, CacheAssumption DEF TableRefs
  <2>3. PtrRefs(NoValue) = {} /\ HoldRefs(NoValue) = {}
    BY CacheAssumption, SMTT(30) DEF PtrRefs, HoldRefs, TypeOK, Typed
  <2>4. ValueRefs(NoValue) = {}
    <3>1. \A u \in Threads, k \in Keys : value[u][k] = Null
      BY <1>4 DEF Struct, FlushInv, Frames, FrameOK
    <3> QED BY <3>1, CacheAssumption DEF ValueRefs
  <2>5. Soft(NoValue) = 1 /\ Hard(NoValue) = 0
    BY <2>2, <2>3, <2>4, FS_EmptySet, SMTT(30) DEF Soft, Hard, One
  <2>6. soft[NoValue] = 1 /\ total[NoValue] = 1
    BY <2>5, ValueTypes, SMTT(30) DEF Counts
  <2>7. UNCHANGED <<total, soft>>
    BY <1>4, <2>6, ValueTypes DEF TypeOK
  <2> QED BY <1>3, <2>7
<1> QED BY <1>3, <1>4 DEF FlushPassEnd

LEMMA OtherCounts ==
  ASSUME Typed', TypeOK, Counts, NEW t \in Threads,
         \/ \E k \in Keys : Get(t, k) \/ SpuriousWakeup(t, k) \/ NestedGet(t, k) \/ FlushTest(t, k)
         \/ CopyOnWriteTest(t) \/ FlushBegin(t) \/ CleanupBegin(t)
  PROVE  Counts' /\ TypeOK'
<1>1. UNCHANGED <<total, soft, alive, holds, doomed, ptr, value, table>>
  BY DEF Get, SpuriousWakeup, NestedGet, FlushTest, CopyOnWriteTest, FlushBegin, CleanupBegin,
         refs, frames, client
<1> QED BY <1>1, CountsSame

-----------------------------------------------------------------------------
(* copyOnWrite: nobody else refers to what is written in place, so that    *)
(* nobody can add a reference to it.                                       *)
LEMMA Sole ==
  ASSUME TypeOK, Counts, WriterInv, NEW w \in Threads, writing[w] = "inplace"
  PROVE  /\ ptr[w] \in Objs /\ total[ptr[w]] = 1
         /\ \A u \in Threads : u # w => ptr[u] # ptr[w]
         /\ \A u \in Threads, k \in Keys : value[u][k] # ptr[w]
         /\ \A y \in Objs : holds[y] # ptr[w]
         /\ \A k \in Keys : table[k].val # ptr[w]
<1> DEFINE x == ptr[w]
<1>1. x \in Objs /\ x \in Values /\ total[x] = 1
  BY ValueTypes, SMTT(30) DEF WriterInv, TypeOK, Typed
<1>2. /\ Soft(x) + Hard(x) = 1 /\ Soft(x) \in Nat /\ Hard(x) \in Nat
      /\ w \in PtrRefs(x)
  BY <1>1, CountTypes DEF Counts, PtrRefs
<1>3. Cardinality(PtrRefs(x) \ {w}) = Cardinality(PtrRefs(x)) - 1 /\ IsFiniteSet(PtrRefs(x) \ {w})
  BY <1>2, Finite, FS_RemoveElement
<1>4. Cardinality(PtrRefs(x) \ {w}) \in Nat
  BY <1>3, FS_CardinalityType
<1> HIDE DEF x
<1>5. /\ Cardinality(PtrRefs(x) \ {w}) = 0 /\ Cardinality(ValueRefs(x)) = 0
      /\ Cardinality(HoldRefs(x)) = 0 /\ Soft(x) = 0
  <2>1. /\ Cardinality(PtrRefs(x)) \in Nat /\ Cardinality(ValueRefs(x)) \in Nat
        /\ Cardinality(HoldRefs(x)) \in Nat
    BY Finite
  <2>2. Hard(x) = Cardinality(PtrRefs(x)) + Cardinality(ValueRefs(x)) + Cardinality(HoldRefs(x))
    BY DEF Hard
  <2>3. Cardinality(PtrRefs(x)) >= 1
    BY <1>3, <1>4, <2>1
  <2> QED BY <1>2, <1>3, <2>1, <2>2, <2>3, SMTT(30)
<1>6. Cardinality(TableRefs(x)) = 0
  BY <1>5, Finite DEF Soft, One
<1>7. PtrRefs(x) \ {w} = {} /\ ValueRefs(x) = {} /\ HoldRefs(x) = {} /\ TableRefs(x) = {}
  BY <1>3, <1>5, <1>6, Finite, FS_EmptySet
<1>8. \A u \in Threads, k \in Keys : value[u][k] # x
  <2> SUFFICES ASSUME NEW u \in Threads, NEW k \in Keys, value[u][k] = x PROVE FALSE
    OBVIOUS
  <2>1. <<u, k>> \in ValueRefs(x)
    BY DEF ValueRefs
  <2> QED BY <1>7, <2>1
<1>9. \A u \in Threads : u # w => ptr[u] # x
  BY <1>7 DEF PtrRefs
<1>10. (\A y \in Objs : holds[y] # x) /\ (\A k \in Keys : table[k].val # x)
  BY <1>7 DEF HoldRefs, TableRefs
<1> QED BY <1>1, <1>8, <1>9, <1>10 DEF x

LEMMA WriterKept ==
  ASSUME WriterInv,
         \A w \in Threads :
           /\ writing'[w] # "no" => /\ writing'[w] = writing[w] /\ ptr'[w] = ptr[w]
                                    /\ \A k \in Keys : pc'[w][k] = "idle"
           /\ writing'[w] = "inplace" => total'[ptr[w]] = 1
  PROVE  WriterInv'
BY DEF WriterInv

LEMMA Untouched ==
  ASSUME NEW t, NEW gain, NEW lose, References(t, gain, lose), TypeOK,
         NEW x \in Objs, x \notin gain, x \notin lose
  PROVE  total'[x] = total[x]
<1>1. total' = Counted(gain, lose) /\ x \in Values /\ total[x] \in Nat
  BY ValueTypes DEF References, TypeOK
<1> QED BY <1>1 DEF Counted

(* A thread in the library is not in copyOnWrite, and leaves the others'   *)
(* idle frames idle.                                                       *)
LEMMA FrameWriter ==
  ASSUME Typed, WriterInv, NEW t \in Threads, NEW k \in Keys,
         pc[t][k] # "idle", UNCHANGED writing,
         \A w \in Threads : w # t => ptr'[w] = ptr[w],
         \A w \in Threads, q \in Keys : w # t /\ pc[w][q] = "idle" => pc'[w][q] = "idle",
         \A w \in Threads : writing[w] = "inplace" => total'[ptr[w]] = 1
  PROVE  WriterInv'
<1>1. writing[t] = "no"
  BY DEF WriterInv
<1>2. ASSUME NEW w \in Threads, writing[w] # "no"
      PROVE  ptr'[w] = ptr[w] /\ \A q \in Keys : pc'[w][q] = "idle"
  BY <1>1, <1>2 DEF WriterInv
<1> QED BY <1>2, WriterKept

LEMMA PollWriter ==
  ASSUME Inv, NEW t \in Threads, NEW k \in Keys, Poll(t, k)
  PROVE  WriterInv'
<1> USE DEF Inv
<1>1. pc[t][k] # "idle" /\ UNCHANGED <<writing, ptr>>
  BY DEF Poll, At, client
<1>2. \A w \in Threads, q \in Keys : w # t /\ pc[w][q] = "idle" => pc'[w][q] = "idle"
  BY DEF Poll, Goto, TypeOK, Typed
<1>3. ASSUME NEW w \in Threads, writing[w] = "inplace" PROVE total'[ptr[w]] = 1
  <2>1. /\ ptr[w] \in Objs /\ total[ptr[w]] = 1 /\ table[k].val # ptr[w] /\ NoValue # ptr[w]
    BY <1>3, Sole, CacheAssumption
  <2>2. CASE References(t, {table[k].val}, {}) \/ References(t, {NoValue}, {})
    BY <2>1, <2>2, Untouched, SMTT(30)
  <2>3. CASE NoReferences
    BY <2>1, <2>3 DEF NoReferences
  <2> QED BY <2>2, <2>3 DEF Poll
<1> QED BY <1>1, <1>2, <1>3, FrameWriter DEF TypeOK

LEMMA BuildWriter ==
  ASSUME Inv, NEW t \in Threads, NEW k \in Keys, Build(t, k)
  PROVE  WriterInv'
<1> USE DEF Inv
<1>1. pc[t][k] # "idle" /\ UNCHANGED <<writing, ptr>>
  BY DEF Build, At, client
<1>2. \A w \in Threads, q \in Keys : w # t /\ pc[w][q] = "idle" => pc'[w][q] = "idle"
  BY DEF Build, Goto, TypeOK, Typed
<1>3. ASSUME NEW w \in Threads, writing[w] = "inplace" PROVE total'[ptr[w]] = 1
  <2>1. /\ ptr[w] \in Objs /\ total[ptr[w]] = 1 /\ value[t][k] # ptr[w] /\ NoValue # ptr[w]
    BY <1>3, Sole, CacheAssumption, ZenonT(60)
  <2>2. ptr[w] \in alive
    BY <2>1, SMTT(30) DEF Counts
  <2>3. CASE References(t, {NoValue}, {value[t][k]})
    BY <2>1, <2>3, Untouched, SMTT(30)
  <2>4. CASE NoReferences
    BY <2>1, <2>4 DEF NoReferences
  <2>5. ASSUME NEW x \in Objs \ alive, References(t, {x}, {}) PROVE total'[ptr[w]] = 1
    BY <2>1, <2>2, <2>5, Untouched, SMTT(30)
  <2> QED BY <2>3, <2>4, <2>5 DEF Build
<1> QED BY <1>1, <1>2, <1>3, FrameWriter DEF TypeOK

LEMMA PutWriter ==
  ASSUME Inv, NEW t \in Threads, NEW k \in Keys, PutIfAbsentAndGet(t, k)
  PROVE  WriterInv'
<1> USE DEF Inv
<1>1. pc[t][k] # "idle" /\ UNCHANGED <<writing, ptr>>
  BY DEF PutIfAbsentAndGet, At, client
<1>2. \A w \in Threads, q \in Keys : w # t /\ pc[w][q] = "idle" => pc'[w][q] = "idle"
  <2>1. CASE Goto(t, k, "ret")
    BY <2>1 DEF Goto, TypeOK, Typed
  <2>2. CASE pc' = [Woken(pc) EXCEPT ![t][k] = "ret"]
    BY <2>2 DEF Woken, TypeOK, Typed
  <2> QED BY <2>1, <2>2 DEF PutIfAbsentAndGet
<1>3. ASSUME NEW w \in Threads, writing[w] = "inplace" PROVE total'[ptr[w]] = 1
  <2>1. /\ ptr[w] \in Objs /\ total[ptr[w]] = 1 /\ value[t][k] # ptr[w]
        /\ table[k].val # ptr[w] /\ NoValue # ptr[w]
    BY <1>3, Sole, CacheAssumption, ZenonT(60)
  <2>2. CASE \/ References(t, {table[k].val}, {value[t][k]})
             \/ References(t, {value[t][k]}, {}) \/ References(t, {value[t][k]}, {NoValue})
    BY <2>1, <2>2, Untouched, SMTT(30)
  <2>3. CASE NoReferences
    BY <2>1, <2>3 DEF NoReferences
  <2> QED BY <2>2, <2>3 DEF PutIfAbsentAndGet
<1> QED BY <1>1, <1>2, <1>3, FrameWriter DEF TypeOK

LEMMA ReturnWriter ==
  ASSUME Inv, NEW t \in Threads, NEW k \in Keys, Return(t, k)
  PROVE  WriterInv'
<1> USE DEF Inv
<1>1. pc[t][k] # "idle" /\ UNCHANGED writing
  BY DEF Return, At
<1>2. \A w \in Threads, q \in Keys : w # t => pc'[w][q] = pc[w][q] /\ ptr'[w] = ptr[w]
  BY DEF Return, TypeOK, Typed
<1>3. ASSUME NEW w \in Threads, writing[w] = "inplace" PROVE total'[ptr[w]] = 1
  <2>1. w # t
    BY <1>1, <1>3 DEF WriterInv
  <2>2. /\ ptr[w] \in Objs /\ total[ptr[w]] = 1 /\ ptr[t] # ptr[w] /\ NoValue # ptr[w]
    BY <1>3, <2>1, Sole, CacheAssumption
  <2>3. References(t, {}, {ptr[t]}) \/ References(t, {}, {value[t][k]} \cap {NoValue})
    BY DEF Return
  <2> QED BY <2>2, <2>3, Untouched, SMTT(30)
<1>4. \A w \in Threads : w # t => ptr'[w] = ptr[w]
  BY DEF Return, TypeOK, Typed
<1> QED BY <1>1, <1>2, <1>3, <1>4, FrameWriter, SMTT(30) DEF TypeOK

(* Steps that leave the frames and copyOnWrite alone.                      *)
LEMMA DestroyWriter ==
  ASSUME Inv, NEW t \in Threads, Destroy(t)
  PROVE  WriterInv'
<1> USE DEF Inv
<1>1. UNCHANGED <<pc, ptr, writing>> /\ References(t, {}, {holds[doomed[t]]}) /\ doomed[t] \in Objs
  BY DEF Destroy, frames, client, TypeOK, Typed
<1>2. ASSUME NEW w \in Threads, writing[w] = "inplace" PROVE total'[ptr[w]] = 1
  <2>1. ptr[w] \in Objs /\ total[ptr[w]] = 1 /\ holds[doomed[t]] # ptr[w]
    BY <1>1, <1>2, Sole
  <2> QED BY <1>1, <2>1, Untouched, SMTT(30)
<1> QED BY <1>1, <1>2, WriterKept DEF WriterInv

LEMMA ReleaseWriter ==
  ASSUME Inv, NEW t \in Threads, Release(t)
  PROVE  WriterInv'
<1> USE DEF Inv
<1>1. UNCHANGED <<pc, writing>> /\ References(t, {}, {ptr[t]}) /\ writing[t] = "no"
  BY DEF Release, frames
<1>2. \A w \in Threads : w # t => ptr'[w] = ptr[w]
  BY DEF Release, TypeOK, Typed
<1>3. ASSUME NEW w \in Threads, writing[w] = "inplace" PROVE total'[ptr[w]] = 1
  <2>1. ptr[w] \in Objs /\ total[ptr[w]] = 1 /\ ptr[t] # ptr[w]
    BY <1>1, <1>3, Sole
  <2> QED BY <1>1, <2>1, Untouched, SMTT(30)
<1> QED BY <1>1, <1>2, <1>3, WriterKept DEF WriterInv

LEMMA CopyPtrWriter ==
  ASSUME Inv, NEW t \in Threads, NEW u \in Threads, CopyPtr(t, u)
  PROVE  WriterInv'
<1> USE DEF Inv
<1>1. /\ UNCHANGED <<pc, writing>> /\ References(t, {ptr[u]}, {ptr[t]})
      /\ writing[t] = "no" /\ writing[u] = "no"
  BY DEF CopyPtr, frames
<1>2. \A w \in Threads : w # t => ptr'[w] = ptr[w]
  BY DEF CopyPtr, TypeOK, Typed
<1>3. ASSUME NEW w \in Threads, writing[w] = "inplace" PROVE total'[ptr[w]] = 1
  <2>1. ptr[w] \in Objs /\ total[ptr[w]] = 1 /\ ptr[t] # ptr[w] /\ ptr[u] # ptr[w]
    BY <1>1, <1>3, Sole
  <2> QED BY <1>1, <2>1, Untouched, SMTT(30)
<1> QED BY <1>1, <1>2, <1>3, WriterKept DEF WriterInv

LEMMA CopyOnWriteTestWriter ==
  ASSUME Inv, NEW t \in Threads, CopyOnWriteTest(t)
  PROVE  WriterInv'
<1> USE DEF Inv
<1>1. /\ ptr[t] # Null /\ \A k \in Keys : pc[t][k] = "idle"
      /\ writing' = [writing EXCEPT ![t] = IF SoleOwner(ptr[t]) THEN "inplace" ELSE "clone"]
      /\ UNCHANGED <<pc, ptr, total>>
  BY DEF CopyOnWriteTest, Idle, refs, frames
<1>2. /\ \A w \in Threads : w # t => writing'[w] = writing[w]
      /\ writing'[t] = IF SoleOwner(ptr[t]) THEN "inplace" ELSE "clone"
  BY <1>1 DEF TypeOK, Typed
<1>3. SoleOwner(ptr[t]) => total[ptr[t]] = 1
  <2>1. ptr[t] \in Values
    BY <1>1, ValueTypes DEF TypeOK, Typed
  <2>2. total[ptr[t]] > 0 /\ total[ptr[t]] \in Nat
    BY <2>1, Referred DEF TypeOK
  <2> QED BY <2>2 DEF SoleOwner
<1>4. ASSUME NEW w \in Threads
      PROVE  /\ writing'[w] # "no" => ptr[w] # Null /\ \A k \in Keys : pc[w][k] = "idle"
             /\ writing'[w] = "inplace" => total[ptr[w]] = 1
  <2>1. CASE w = t
    BY <1>1, <1>2, <1>3, <2>1, SMTT(30)
  <2>2. CASE w # t
    BY <1>2, <2>2 DEF WriterInv
  <2> QED BY <2>1, <2>2
<1> QED BY <1>1, <1>4 DEF WriterInv

LEMMA CopyOnWriteWriter ==
  ASSUME Inv, NEW t \in Threads, CopyOnWrite(t)
  PROVE  WriterInv'
<1> USE DEF Inv
<1>1. UNCHANGED pc /\ writing' = [writing EXCEPT ![t] = "no"]
  BY DEF CopyOnWrite, frames
<1>2. writing'[t] = "no" /\ \A w \in Threads : w # t => writing'[w] = writing[w]
  BY <1>1 DEF TypeOK, Typed
<1>3. \A w \in Threads : w # t => ptr'[w] = ptr[w]
  BY DEF CopyOnWrite, TypeOK, Typed
<1>4. ASSUME NEW w \in Threads, w # t, writing[w] = "inplace" PROVE total'[ptr[w]] = 1
  <2>1. /\ ptr[w] \in Objs /\ total[ptr[w]] = 1 /\ ptr[t] # ptr[w]
        /\ \A y \in Objs : holds[y] # ptr[w]
    BY <1>4, Sole
  <2>2. CASE NoReferences
    BY <2>1, <2>2 DEF NoReferences
  <2>3. ASSUME NEW x \in Objs \ alive, writing[t] = "clone",
               References(t, {x, holds[ptr[t]]}, {ptr[t]})
        PROVE  total'[ptr[w]] = 1
    <3>1. ptr[t] \in Objs
      <4>1. ptr[t] \in Objs \cup {Null} /\ ptr[t] # Null
        BY <2>3 DEF WriterInv, TypeOK, Typed
      <4> QED BY <4>1
    <3>2. ptr[w] \in alive /\ holds[ptr[t]] # ptr[w]
      BY <2>1, <3>1, SMTT(30) DEF Counts
    <3>3. TypeOK /\ ptr[w] \notin {x, holds[ptr[t]]} /\ ptr[w] \notin {ptr[t]}
      BY <2>1, <2>3, <3>2
    <3> HIDE DEF Inv
    <3> QED BY <2>1, <2>3, <3>3, Untouched
  <2> QED BY <2>2, <2>3 DEF CopyOnWrite
<1>5. ASSUME NEW w \in Threads, writing'[w] # "no"
      PROVE  /\ writing'[w] = writing[w] /\ ptr'[w] = ptr[w] /\ \A k \in Keys : pc'[w][k] = "idle"
             /\ writing'[w] = "inplace" => total'[ptr[w]] = 1
  BY <1>1, <1>2, <1>3, <1>4, <1>5, ZenonT(60) DEF WriterInv
<1> QED BY <1>5, WriterKept

LEMMA FlushEvictWriter ==
  ASSUME Inv, NEW t \in Threads, FlushEvict(t)
  PROVE  WriterInv'
<1> USE DEF Inv
<1>1. /\ UNCHANGED <<pc, ptr, writing>> /\ References(t, {}, {table[found].val})
      /\ found \in Keys
  BY DEF FlushEvict, frames, client, TypeOK, Typed
<1>2. ASSUME NEW w \in Threads, writing[w] = "inplace" PROVE total'[ptr[w]] = 1
  <2>1. ptr[w] \in Objs /\ total[ptr[w]] = 1 /\ table[found].val # ptr[w]
    BY <1>1, <1>2, Sole
  <2> QED BY <1>1, <2>1, Untouched, SMTT(30)
<1> QED BY <1>1, <1>2, WriterKept DEF WriterInv

LEMMA FlushPassEndWriter ==
  ASSUME Inv, NEW t \in Threads, FlushPassEnd(t)
  PROVE  WriterInv'
<1> USE DEF Inv
<1>1. UNCHANGED <<ptr, writing>> /\ (pc' = pc \/ pc' = Woken(pc))
  BY DEF FlushPassEnd
<1>2. \A w \in Threads, q \in Keys : pc[w][q] = "idle" => pc'[w][q] = "idle"
  BY <1>1, ZenonT(60) DEF Woken
<1>3. \A x \in Objs : total'[x] = total[x]
  <2>1. total' = total \/ total' = [total EXCEPT ![NoValue] = 1]
    BY DEF FlushPassEnd
  <2> QED BY <2>1, ValueTypes DEF TypeOK
<1>4. ASSUME NEW w \in Threads, writing[w] = "inplace" PROVE total'[ptr[w]] = 1
  BY <1>3, <1>4, Sole
<1> QED BY <1>1, <1>2, <1>4, WriterKept DEF WriterInv

LEMMA OtherWriter ==
  ASSUME Inv, NEW t \in Threads,
         \/ \E k \in Keys : Get(t, k) \/ SpuriousWakeup(t, k) \/ NestedGet(t, k) \/ FlushTest(t, k)
         \/ FlushBegin(t) \/ CleanupBegin(t)
  PROVE  WriterInv'
<1> USE DEF Inv
<1>1. UNCHANGED <<ptr, writing, total>>
  BY DEF Get, SpuriousWakeup, NestedGet, FlushTest, FlushBegin, CleanupBegin, refs, client
<1>2. \A w \in Threads, q \in Keys : w # t => pc'[w][q] = pc[w][q]
  BY DEF Get, SpuriousWakeup, NestedGet, FlushTest, FlushBegin, CleanupBegin, Goto, frames,
         TypeOK, Typed
<1>3. writing[t] = "no" \/ UNCHANGED pc
  <2>1. \/ writing[t] = "no" \/ UNCHANGED pc
        \/ \E k \in Keys : pc[t][k] # "idle"
    BY DEF Get, SpuriousWakeup, NestedGet, FlushTest, FlushBegin, CleanupBegin, At, frames
  <2> QED BY <2>1 DEF WriterInv
<1>4. \A w \in Threads, q \in Keys : writing[w] # "no" => pc'[w][q] = "idle"
  BY <1>2, <1>3, SMTT(30) DEF WriterInv
<1> QED BY <1>1, <1>4 DEF WriterInv
-----------------------------------------------------------------------------
LEMMA InitInv ==
  ASSUME Init PROVE Inv
<1> USE CacheAssumption DEF Init
<1>1. TypeOK
  <2>1. total \in [Values -> Nat] /\ soft \in [Values -> Nat]
    OBVIOUS
  <2>2. /\ table \in [Keys -> Entry] /\ pc \in [Threads -> [Keys -> Loc]]
        /\ alive \subseteq Objs /\ holds \in [Objs -> Objs \cup {Null}]
    BY AbsentEntry DEF Loc
  <2>3. /\ value \in [Threads -> [Keys -> Values \cup {Null}]]
        /\ status \in [Threads -> [Keys -> {"ok", "fail"}]]
        /\ calls \in [Threads -> 0 .. MaxCalls]
    BY SMTT(30)
  <2>4. /\ ptr \in [Threads -> Objs \cup {Null}] /\ of \in [Threads -> Keys \cup {Null}]
        /\ writing \in [Threads -> {"no", "inplace", "clone"}]
        /\ doomed \in [Threads -> Objs \cup {Null}]
    OBVIOUS
  <2> QED BY <2>1, <2>2, <2>3, <2>4 DEF TypeOK, Typed
<1>2. Frames
  BY DEF Frames, StackOK, FrameOK, Active
<1>3. TableInv /\ FlushInv /\ WriterInv
  BY DEF TableInv, FlushInv, WriterInv, Absent
<1>4. Counts
  <2>1. \A x \in Values : /\ PtrRefs(x) = {} /\ ValueRefs(x) = {} /\ HoldRefs(x) = {}
                          /\ TableRefs(x) = {}
    BY ValueTypes DEF PtrRefs, ValueRefs, HoldRefs, TableRefs
  <2>2. \A x \in Values : Soft(x) = One(x = NoValue) /\ Hard(x) = 0
    <3>1. Cardinality({}) = 0
      BY FS_EmptySet
    <3> SUFFICES ASSUME NEW x \in Values PROVE Soft(x) = One(x = NoValue) /\ Hard(x) = 0
      OBVIOUS
    <3>2. /\ Cardinality(PtrRefs(x)) = 0 /\ Cardinality(ValueRefs(x)) = 0
          /\ Cardinality(HoldRefs(x)) = 0 /\ Cardinality(TableRefs(x)) = 0
      BY <2>1, <3>1
    <3> QED BY <3>2, SMTT(30) DEF Soft, Hard, One
  <2>3. \A x \in Values : soft[x] = Soft(x) /\ total[x] = Soft(x) + Hard(x)
    BY <2>2, SMTT(30) DEF One
  <2>4. \A x \in Objs : holds[x] = Null /\ total[x] = 0
    BY ValueTypes
  <2> QED BY <2>3, <2>4 DEF Counts
<1> QED BY <1>1, <1>2, <1>3, <1>4 DEF Inv

LEMMA NextInv ==
  ASSUME Inv, [Next]_vars PROVE Inv'
<1>1. Struct /\ TypeOK /\ Counts /\ WriterInv
  BY DEF Inv, Struct, TypeOK
<1>2. CASE UNCHANGED vars
  <2>1. /\ UNCHANGED <<total, soft, alive, holds, doomed, ptr, value, table, pc, status, of, writing>>
        /\ UNCHANGED <<mutex, flushing, visit, found, hit, quiet, calls>>
    BY <1>2 DEF vars, refs, frames, client, flushVars
  <2>2. Typed'
    BY <1>1, <2>1 DEF TypeOK, Typed
  <2>3. Counts' /\ TypeOK'
    BY <1>1, <2>1, <2>2, CountsSame
  <2>4. Frames'
    <3>1. \A u \in Threads : StackOK(u)' <=> StackOK(u)
      BY <2>1 DEF StackOK, Active
    <3>2. \A u \in Threads, q \in Keys : FrameOK(u, q)' <=> FrameOK(u, q)
      BY <2>1, SMTT(30) DEF FrameOK
    <3> QED BY <1>1, <3>1, <3>2 DEF Struct, Frames
  <2>5. TableInv' /\ FlushInv' /\ WriterInv'
    BY <1>1, <2>1 DEF Struct, TableInv, FlushInv, WriterInv, Present
  <2> QED BY <2>3, <2>4, <2>5 DEF Inv
<1>3. ASSUME NEW t \in Threads, NEW k \in Keys,
             \/ Poll(t, k) \/ PutIfAbsentAndGet(t, k) \/ Build(t, k) \/ Return(t, k)
      PROVE  Inv'
  <2>1. Struct'
    BY <1>1, <1>3, PollStruct, PutStruct, BuildStruct, ReturnStruct
  <2>2. Counts' /\ TypeOK'
    BY <1>1, <1>3, PollCounts, PutCounts, BuildCounts, ReturnCounts
  <2>3. WriterInv'
    BY <1>3, PollWriter, PutWriter, BuildWriter, ReturnWriter
  <2> QED BY <2>1, <2>2, <2>3 DEF Inv, Struct
<1>4. ASSUME NEW t \in Threads, NEW k \in Keys,
             Get(t, k) \/ SpuriousWakeup(t, k) \/ NestedGet(t, k) \/ FlushTest(t, k)
      PROVE  Inv'
  <2>1. Struct'
    BY <1>1, <1>4, GetStruct, SpuriousWakeupStruct, NestedGetStruct, FlushTestStruct
  <2>2. Counts' /\ TypeOK'
    BY <1>1, <1>4, <2>1, OtherCounts DEF Struct
  <2>3. WriterInv'
    BY <1>4, OtherWriter
  <2> QED BY <2>1, <2>2, <2>3 DEF Inv, Struct
<1>5. ASSUME NEW t \in Threads, FlushBegin(t) \/ CleanupBegin(t) PROVE Inv'
  <2>1. Struct'
    BY <1>1, <1>5, FlushBeginStruct
  <2>2. Counts' /\ TypeOK'
    BY <1>1, <1>5, <2>1, OtherCounts DEF Struct
  <2>3. WriterInv'
    BY <1>5, OtherWriter
  <2> QED BY <2>1, <2>2, <2>3 DEF Inv, Struct
<1>6. ASSUME NEW t \in Threads, Destroy(t) \/ Release(t) \/ FlushEvict(t) \/ FlushPassEnd(t)
      PROVE  Inv'
  <2>1. Struct'
    BY <1>1, <1>6, DestroyStruct, ReleaseStruct, FlushEvictStruct, FlushPassEndStruct
  <2>2. Counts' /\ TypeOK'
    BY <1>1, <1>6, DestroyCounts, ReleaseCounts, FlushEvictCounts, FlushPassEndCounts
  <2>3. WriterInv'
    BY <1>6, DestroyWriter, ReleaseWriter, FlushEvictWriter, FlushPassEndWriter
  <2> QED BY <2>1, <2>2, <2>3 DEF Inv, Struct
<1>7. ASSUME NEW t \in Threads, NEW u \in Threads, CopyPtr(t, u) PROVE Inv'
  <2>1. Struct'
    BY <1>1, <1>7, CopyPtrStruct
  <2>2. Counts' /\ TypeOK' /\ WriterInv'
    BY <1>1, <1>7, CopyPtrCounts, CopyPtrWriter
  <2> QED BY <2>1, <2>2 DEF Inv, Struct
<1>8. ASSUME NEW t \in Threads, CopyOnWrite(t) PROVE Inv'
  <2>1. Struct'
    BY <1>1, <1>8, CopyOnWriteStruct
  <2>2. Counts' /\ TypeOK' /\ WriterInv'
    BY <1>1, <1>8, CopyOnWriteCounts, CopyOnWriteWriter
  <2> QED BY <2>1, <2>2 DEF Inv, Struct
<1>9. ASSUME NEW t \in Threads, CopyOnWriteTest(t) PROVE Inv'
  <2>1. Struct'
    BY <1>1, <1>9, CopyOnWriteTestStruct
  <2>2. Counts' /\ TypeOK' /\ WriterInv'
    BY <1>1, <1>9, <2>1, OtherCounts, CopyOnWriteTestWriter DEF Struct
  <2> QED BY <2>1, <2>2 DEF Inv, Struct
<1> QED BY <1>2, <1>3, <1>4, <1>5, <1>6, <1>7, <1>8, <1>9 DEF Next, Step, Locked

LEMMA SameRefs ==
  ASSUME Inv, NEW x \in Values
  PROVE  HardRefs(x) = Hard(x) /\ SoftRefs(x) = Soft(x)
<1>1. {y \in alive : holds[y] = x} = HoldRefs(x)
  <2>1. alive \subseteq Objs /\ x # Null /\ \A y \in Objs \ alive : holds[y] = Null
    BY ValueTypes DEF Inv, TypeOK, Typed, Counts
  <2> QED BY <2>1 DEF HoldRefs
<1> QED BY <1>1, ZenonT(60) DEF HardRefs, SoftRefs, Hard, Soft, PtrRefs, ValueRefs, TableRefs, One

(* What the run's property says of every object that somebody refers to.   *)
InUse(x) ==
  \/ \E t \in Threads : ptr[t] = x
  \/ \E k \in Keys : table[k].val = x
  \/ \E t \in Threads, k \in Keys : value[t][k] = x
  \/ \E y \in alive : holds[y] = x

LEMMA UsedIsAlive ==
  ASSUME \A x \in Objs : InUse(x) => x \in alive /\ \A t \in Threads : doomed[t] # x
  PROVE  NoDanglingReference
BY SMTT(30) DEF NoDanglingReference, InUse

LEMMA InvSafe ==
  ASSUME Inv PROVE ReferencesSound /\ WriterIsAlone
<1> USE DEF Inv
<1>1. RefCountsExact
  <2>1. alive \cup {NoValue} \subseteq Values
    BY ValueTypes DEF TypeOK, Typed
  <2>2. \A x \in Values : soft[x] = Soft(x) /\ total[x] = Soft(x) + Hard(x)
    BY DEF Counts
  <2> HIDE DEF Inv
  <2>3. ASSUME NEW x \in alive \cup {NoValue}
        PROVE  soft[x] = SoftRefs(x) /\ total[x] = SoftRefs(x) + HardRefs(x)
    BY <2>1, <2>2, SameRefs, ZenonT(60)
  <2> QED BY <2>3 DEF RefCountsExact
<1>2. NoDanglingReference
  <2> SUFFICES ASSUME NEW x \in Objs, InUse(x)
               PROVE  x \in alive /\ \A t \in Threads : doomed[t] # x
    BY UsedIsAlive
  <2>1. alive \subseteq Objs /\ x \in Values /\ x # Null
    BY ValueTypes DEF TypeOK, Typed
  <2>2. total[x] > 0
    BY <2>1, Referred DEF InUse
  <2>3. /\ x \notin alive => total[x] = 0
        /\ \A t \in Threads : doomed[t] = x => total[x] = 0
    BY <2>1 DEF Counts
  <2> HIDE DEF Inv
  <2>4. ~(0 > 0)
    BY SMT
  <2> QED BY <2>2, <2>3, <2>4
<1>3. WriterIsAlone
  <2> SUFFICES ASSUME NEW t \in Threads, writing[t] = "inplace"
               PROVE  HardRefs(ptr[t]) = 1 /\ SoftRefs(ptr[t]) = 0
    BY DEF WriterIsAlone
  <2> DEFINE x == ptr[t]
  <2>1. x \in Values /\ total[x] = 1
    BY Sole, ValueTypes
  <2>2. total[x] = Soft(x) + Hard(x) /\ Hard(x) > 0 /\ Soft(x) \in Nat /\ Hard(x) \in Nat
    BY <2>1, Referred, CountTypes DEF Counts
  <2>3. Hard(x) = 1 /\ Soft(x) = 0
    BY <2>1, <2>2
  <2> QED BY <2>1, <2>3, SameRefs
<1> QED BY <1>1, <1>2, <1>3 DEF ReferencesSound

(* No value of the cache leaks, is deleted twice or is deleted while a     *)
(* client, a frame of get, another value or the table refers to it, at any *)
(* step of any gets, copies, flushes and destructors (addRef, removeRef,   *)
(* _fetch, _put, _flush), and the counts are naturals.                     *)
THEOREM ReferencesAreSound == Spec => []ReferencesSound
<1>1. Inv => ReferencesSound
  BY InvSafe
<1> QED BY <1>1, InitInv, NextInv, PTL DEF Spec

(* Although the test of the count in SharedObject::copyOnWrite and the     *)
(* writing are separate steps, nobody else can get at what is written in   *)
(* place.                                                                  *)
THEOREM WriterStaysAlone == Spec => []WriterIsAlone
<1>1. Inv => WriterIsAlone
  BY InvSafe
<1> QED BY <1>1, InitInv, NextInv, PTL DEF Spec

-----------------------------------------------------------------------------
(* The passes of _flush.                                                   *)
LEMMA MoreThanSoft ==
  ASSUME TypeOK, Counts, NEW x \in Values
  PROVE  /\ total[x] > soft[x] <=> Hard(x) > 0
         /\ total[x] = soft[x] <=> Hard(x) = 0
         /\ total[x] >= soft[x] /\ total[x] \in Nat /\ soft[x] \in Nat
<1>1. /\ soft[x] = Soft(x) /\ total[x] = Soft(x) + Hard(x)
      /\ Soft(x) \in Nat /\ Hard(x) \in Nat
  BY CountTypes DEF Counts
<1> QED BY <1>1

(* A step of a thread that has not the mutex, or of the flushing thread    *)
(* when it has already removed something in this pass.                     *)
LEMMA PassKept ==
  ASSUME Inv, PassInv, UNCHANGED <<table, soft, mutex, flushing, visit, found, hit>>,
         flushing # "no" /\ quiet' /\ ~hit => quiet /\ \A x \in Values : total'[x] >= total[x],
         TypeOK',
         \A t \in Threads : flushing # "no" /\ mutex = t => hit \/ doomed'[t] = doomed[t]
  PROVE  PassInv'
<1> USE DEF Inv
<1>1. Present' = Present
  BY DEF Present
<1>2. ASSUME flushing # "no", quiet', ~hit, NEW k \in Present, k \notin visit, k # found
      PROVE  total'[table[k].val] > soft[table[k].val]
  <2> DEFINE x == table[k].val
  <2>1. k \in Keys /\ x \in Values
    BY EntryFact DEF Present, TypeOK
  <2>2. total[x] > soft[x]
    BY <1>2 DEF PassInv
  <2>3. total'[x] >= total[x] /\ total[x] \in Nat /\ total'[x] \in Nat /\ soft[x] \in Nat
    BY <1>2, <2>1 DEF TypeOK
  <2> HIDE DEF x
  <2>4. total'[x] > soft[x]
    BY <2>2, <2>3
  <2> QED BY <2>4 DEF x
<1>3. \A t \in Threads : flushing # "no" /\ mutex = t /\ doomed'[t] # Null => hit
  BY DEF PassInv
<1> QED BY <1>1, <1>2, <1>3 DEF PassInv

LEMMA RefsPass ==
  ASSUME Inv, PassInv, TypeOK', NEW t \in Threads, mutex # t, NEW gain, NEW lose, NEW y,
         lose \subseteq {y}, References(t, gain, lose),
         UNCHANGED <<table, soft, mutex, flushing, visit, found, hit>>
  PROVE  PassInv'
<1> USE DEF Inv
<1>1. /\ total' = [x \in Values |-> total[x] + One(x \in gain) - One(x \in lose)]
      /\ \A u \in Threads : u # t => doomed'[u] = doomed[u]
      /\ quiet' => flushing = "no" \/ (quiet /\ (lose \cap Values = {} \/ mutex = t))
  BY ReferencesFact, SMTT(30) DEF TypeOK
<1>2. ASSUME flushing # "no", quiet' PROVE quiet /\ \A x \in Values : total'[x] >= total[x]
  <2>1. quiet /\ lose \cap Values = {}
    BY <1>1, <1>2
  <2>2. ASSUME NEW x \in Values PROVE total'[x] >= total[x]
    <3>1. x \notin lose /\ total'[x] = total[x] + One(x \in gain) - One(x \in lose)
          /\ total[x] \in Nat
      BY <1>1, <2>1, <2>2 DEF TypeOK
    <3> QED BY <3>1 DEF One
  <2> QED BY <2>1, <2>2
<1> QED BY <1>1, <1>2, PassKept

LEMMA SamePass ==
  ASSUME Inv, PassInv, TypeOK',
         UNCHANGED <<total, doomed, quiet, table, soft, mutex, flushing, visit, found, hit>>
  PROVE  PassInv'
<1>1. \A x \in Values : total'[x] >= total[x]
  BY DEF Inv, TypeOK
<1> QED BY <1>1, PassKept

LEMMA FreePass ==
  ASSUME flushing' = "no" PROVE PassInv'
BY DEF PassInv

(* A flush goes on while somebody else has the mutex only in the steps     *)
(* that do without it.                                                     *)
LEMMA NotFlushing ==
  ASSUME Inv, mutex = Null PROVE flushing = "no"
BY DEF Inv, FlushInv

LEMMA FramePass ==
  ASSUME Inv, PassInv, TypeOK', NEW t \in Threads, NEW k \in Keys,
         \/ Poll(t, k) \/ PutIfAbsentAndGet(t, k) \/ Build(t, k) \/ Return(t, k)
         \/ Get(t, k) \/ SpuriousWakeup(t, k) \/ NestedGet(t, k)
  PROVE  PassInv'
<1>1. CASE Poll(t, k) \/ PutIfAbsentAndGet(t, k)
  <2>1. mutex = Null /\ UNCHANGED flushing
    BY <1>1 DEF Poll, PutIfAbsentAndGet, flushVars
  <2> QED BY <2>1, NotFlushing, FreePass
<1>2. CASE Build(t, k)
  <2>1. mutex # t /\ UNCHANGED <<table, soft, mutex, flushing, visit, found, hit>>
    BY <1>2 DEF Build, At, flushVars
  <2>2. CASE NoReferences
    BY <2>1, <2>2, SamePass DEF NoReferences
  <2>3. ASSUME NEW x, References(t, {x}, {}) PROVE PassInv'
    <3>1. {} \subseteq {Null}
      OBVIOUS
    <3> QED BY <2>1, <2>3, <3>1, RefsPass, SMTT(30)
  <2>4. CASE References(t, {NoValue}, {value[t][k]})
    <3>1. {value[t][k]} \subseteq {value[t][k]}
      OBVIOUS
    <3> QED BY <2>1, <2>4, <3>1, RefsPass
  <2> QED BY <1>2, <2>2, <2>3, <2>4 DEF Build
<1>3. CASE Return(t, k)
  <2>1. mutex # t /\ UNCHANGED <<table, soft, mutex, flushing, visit, found, hit>>
    BY <1>3 DEF Return, At, flushVars
  <2>2. PICK y : References(t, {}, {y}) \/ References(t, {}, {y} \cap {NoValue})
    BY <1>3 DEF Return
  <2>3. {y} \subseteq {y} /\ {y} \cap {NoValue} \subseteq {y}
    OBVIOUS
  <2> QED BY <2>1, <2>2, <2>3, RefsPass
<1>4. CASE Get(t, k) \/ SpuriousWakeup(t, k) \/ NestedGet(t, k)
  <2>1. UNCHANGED <<total, doomed, quiet, table, soft, mutex, flushing, visit, found, hit>>
    BY <1>4 DEF Get, SpuriousWakeup, NestedGet, refs, flushVars
  <2> QED BY <2>1, SamePass
<1> QED BY <1>1, <1>2, <1>3, <1>4

LEMMA ClientPass ==
  ASSUME Inv, PassInv, TypeOK', NEW t \in Threads,
         \/ Release(t) \/ CopyOnWrite(t) \/ CopyOnWriteTest(t) \/ \E u \in Threads : CopyPtr(t, u)
  PROVE  PassInv'
<1>1. mutex # t /\ UNCHANGED <<table, soft, mutex, flushing, visit, found, hit>>
  BY DEF Release, CopyOnWrite, CopyOnWriteTest, CopyPtr, Idle, refs, flushVars
<1>2. CASE UNCHANGED <<total, doomed, quiet>>
  BY <1>1, <1>2, SamePass
<1>3. ASSUME NEW gain, NEW y, References(t, gain, {y}) PROVE PassInv'
  <2>1. {y} \subseteq {y}
    OBVIOUS
  <2> QED BY <1>1, <1>3, <2>1, RefsPass
<1>4. CASE Release(t) \/ \E u \in Threads : CopyPtr(t, u)
  BY <1>3, <1>4 DEF Release, CopyPtr
<1>5. CASE CopyOnWrite(t)
  <2>1. UNCHANGED <<total, doomed, quiet>> \/ \E x : References(t, {x, holds[ptr[t]]}, {ptr[t]})
    BY <1>5 DEF CopyOnWrite, NoReferences
  <2> QED BY <1>2, <1>3, <2>1
<1>6. CASE CopyOnWriteTest(t)
  BY <1>2, <1>6 DEF CopyOnWriteTest, refs
<1> QED BY <1>4, <1>5, <1>6

LEMMA DestroyPass ==
  ASSUME Inv, PassInv, TypeOK', NEW t \in Threads, Destroy(t)
  PROVE  PassInv'
<1>1. doomed[t] # Null /\ UNCHANGED <<table, soft, flushing, visit, found, hit>>
  BY DEF Destroy, flushVars
<1>2. CASE flushing = "no"
  BY <1>1, <1>2, FreePass
<1>3. CASE flushing # "no"
  <2>1. mutex' = mutex
    BY <1>3 DEF Destroy
  <2>2. CASE mutex = t
    <3>1. hit
      BY <1>1, <1>3, <2>2 DEF PassInv
    <3> QED BY <1>1, <2>1, <3>1, PassKept
  <2>3. CASE mutex # t
    <3>1. References(t, {}, {holds[doomed[t]]}) /\ {holds[doomed[t]]} \subseteq {holds[doomed[t]]}
      BY DEF Destroy
    <3> QED BY <1>1, <2>1, <2>3, <3>1, RefsPass
  <2> QED BY <2>2, <2>3
<1> QED BY <1>2, <1>3

LEMMA FlushPass ==
  ASSUME Inv, PassInv, TypeOK', NEW t \in Threads,
         \/ FlushBegin(t) \/ CleanupBegin(t) \/ FlushEvict(t) \/ FlushPassEnd(t)
  PROVE  PassInv'
<1>1. CASE FlushBegin(t) \/ CleanupBegin(t)
  <2>1. visit' = Present /\ Present' = Present /\ mutex' = t /\ doomed' = doomed /\ doomed[t] = Null
    BY <1>1 DEF FlushBegin, CleanupBegin, Idle, Present
  <2> QED BY <2>1 DEF PassInv
<1>2. CASE FlushEvict(t)
  BY <1>2 DEF FlushEvict, PassInv
<1>3. CASE FlushPassEnd(t)
  <2>1. mutex = t /\ doomed[t] = Null /\ UNCHANGED doomed /\ Present' = Present
    BY <1>3 DEF FlushPassEnd, Present
  <2>2. CASE flushing' = "no"
    BY <2>2, FreePass
  <2>3. CASE visit' = Present /\ mutex' = mutex
    BY <2>1, <2>3 DEF PassInv
  <2> QED BY <1>3, <2>2, <2>3 DEF FlushPassEnd
<1> QED BY <1>1, <1>2, <1>3

LEMMA FlushTestPass ==
  ASSUME Inv, PassInv, TypeOK', NEW t \in Threads, NEW k \in Keys, FlushTest(t, k)
  PROVE  PassInv'
<1> USE DEF Inv
<1>1. /\ found = Null /\ visit' = visit \ {k} /\ k \in visit /\ mutex = t /\ doomed[t] = Null
      /\ found' = IF flushing = "wipe" \/ AllSoftReferences(table[k].val) THEN k ELSE Null
      /\ UNCHANGED <<total, soft, table, doomed, mutex, flushing, hit, quiet>>
      /\ flushing # "no"
  BY DEF FlushTest, refs
<1>2. Present' = Present /\ k \in Present
  BY <1>1 DEF Present, FlushInv
<1>3. ASSUME quiet, ~hit, NEW q \in Present, q \notin visit', q # found'
      PROVE  total[table[q].val] > soft[table[q].val]
  <2>1. CASE q # k
    BY <1>1, <1>3, <2>1, CacheAssumption, ZenonT(60) DEF PassInv, Present
  <2>2. CASE q = k
    <3>1. ~AllSoftReferences(table[k].val) /\ table[k].val \in Values
      BY <1>1, <1>2, <1>3, <2>2, EntryFact DEF Present, TypeOK
    <3> QED BY <2>2, <3>1, MoreThanSoft, SMTT(30) DEF AllSoftReferences
  <2> QED BY <2>1, <2>2
<1> QED BY <1>1, <1>2, <1>3 DEF PassInv

LEMMA NextPass ==
  ASSUME Inv, PassInv, [Next]_vars PROVE PassInv'
<1>1. TypeOK'
  BY NextInv DEF Inv
<1>2. CASE UNCHANGED vars
  BY <1>1, <1>2, SamePass DEF vars, refs, flushVars
<1>3. CASE Next
  BY <1>1, <1>3, FramePass, ClientPass, DestroyPass, FlushPass, FlushTestPass DEF Next, Step, Locked
<1> QED BY <1>2, <1>3

LEMMA FlushEnds ==
  ASSUME Next, flushing = "flush", flushing' = "no"
  PROVE  \E t \in Threads : FlushPassEnd(t)
<1>1. flushing' # flushing
  OBVIOUS
<1>2. ASSUME NEW t \in Threads, NEW k \in Keys
      PROVE  /\ ~Poll(t, k) /\ ~PutIfAbsentAndGet(t, k) /\ ~Build(t, k) /\ ~Return(t, k)
             /\ ~Get(t, k) /\ ~SpuriousWakeup(t, k) /\ ~NestedGet(t, k) /\ ~FlushTest(t, k)
  BY <1>1 DEF Poll, PutIfAbsentAndGet, Build, Return, Get, SpuriousWakeup, NestedGet, FlushTest, flushVars
<1>3. ASSUME NEW t \in Threads
      PROVE  /\ ~Destroy(t) /\ ~Release(t) /\ ~CopyOnWrite(t) /\ ~CopyOnWriteTest(t)
             /\ ~FlushBegin(t) /\ ~CleanupBegin(t) /\ ~FlushEvict(t)
             /\ \A u \in Threads : ~CopyPtr(t, u)
  BY <1>1 DEF Destroy, Release, CopyOnWrite, CopyOnWriteTest, FlushBegin, CleanupBegin, FlushEvict,
              CopyPtr, flushVars
<1> QED BY <1>2, <1>3 DEF Next, Step, Locked

(* flush() removes all that nobody refers to: every value it leaves in the *)
(* table is referred to from outside, unless somebody gave up a reference  *)
(* while the last pass was looking (_flush, allSoftReferences).            *)
THEOREM FlushLeavesOnlyUsed == Spec => FlushRemovesUnreferenced
<1>1. Init => PassInv
  BY DEF Init, PassInv
<1>2. Inv /\ PassInv /\ [Next]_vars =>
        [flushing = "flush" /\ flushing' = "no" /\ quiet =>
           \A k \in Present : HardRefs(table[k].val) > 0]_vars
  <2> SUFFICES ASSUME Inv, PassInv, Next, flushing = "flush", flushing' = "no", quiet,
                      NEW k \in Present
               PROVE  HardRefs(table[k].val) > 0
    OBVIOUS
  <2>1. ~hit /\ visit = {} /\ found = Null
    BY FlushEnds DEF FlushPassEnd
  <2>2. k \in Keys /\ k # Null /\ table[k].val \in Values
    BY EntryFact, CacheAssumption DEF Present, Inv, TypeOK
  <2>3. total[table[k].val] > soft[table[k].val]
    BY <2>1, <2>2, ZenonT(60) DEF PassInv
  <2> QED BY <2>2, <2>3, MoreThanSoft, SameRefs DEF Inv
<1> QED BY <1>1, <1>2, InitInv, NextInv, NextPass, PTL DEF Spec, FlushRemovesUnreferenced

-----------------------------------------------------------------------------
(* Sharing.                                                                *)

(* What the pass is about to remove stays unused: a new reference can only *)
(* be copied from another one.                                             *)
LEMMA StaysUnused ==
  ASSUME Inv, Inv', FoundUnused, NEW t \in Threads, NEW gain, NEW lose,
         References(t, gain, lose), UNCHANGED <<table, soft, found, flushing>>,
         \A x \in Objs : x \in gain =>
           \/ x \notin alive
           \/ \E u \in Threads : ptr[u] = x
           \/ \E y \in Objs : holds[y] = x
  PROVE  FoundUnused'
<1> USE DEF Inv
<1> SUFFICES ASSUME found # Null, flushing # "wipe", NEW x \in Objs, x = table[found].val
             PROVE  Hard(x)' = 0
  BY DEF FoundUnused
<1>1. x \in Values /\ found \in Keys /\ Hard(x) = 0
  BY ValueTypes DEF FoundUnused, TypeOK, Typed
<1>2. total[x] > 0 /\ x \in alive
  <2>1. Counts
    OBVIOUS
  <2> HIDE DEF Inv
  <2>2. total[x] > 0
    BY <1>1, <2>1, Referred
  <2>3. x \notin alive => total[x] = 0
    BY <2>1 DEF Counts
  <2>4. ~(0 > 0)
    BY SMT
  <2> QED BY <2>2, <2>3, <2>4
<1>3. x \notin gain
  <2>3. Counts /\ ~(0 > 0)
    BY SMT
  <2> HIDE DEF Inv
  <2>1. (\A u \in Threads : ptr[u] # x) /\ \A y \in Objs : holds[y] # x
    BY <1>1, <2>3, Referred
  <2> QED BY <1>2, <2>1
<1>4. total'[x] <= total[x]
  <2>1. total' = Counted(gain, lose) /\ total[x] \in Nat
    BY <1>1 DEF References, TypeOK
  <2> QED BY <1>1, <1>3, <2>1 DEF Counted
<1>5. total[x] = soft[x] /\ soft'[x] = soft[x] /\ total[x] \in Nat
  BY <1>1, MoreThanSoft
<1>6. total'[x] >= soft'[x] /\ total'[x] \in Nat /\ soft'[x] \in Nat
      /\ total'[x] = Soft(x)' + Hard(x)' /\ soft'[x] = Soft(x)' /\ Hard(x)' \in Nat
      /\ Soft(x)' \in Nat
  <2>1. \A z \in Values : soft'[z] = Soft(z)' /\ total'[z] = Soft(z)' + Hard(z)'
    BY DEF Counts
  <2>2. Soft(x)' \in Nat /\ Hard(x)' \in Nat
    BY CountTypes
  <2> QED BY <1>1, <2>1, <2>2, SMTT(30)
<1> QED BY <1>4, <1>5, <1>6, SMTT(30)

LEMMA HardSame ==
  ASSUME UNCHANGED <<ptr, value, holds, table, found, flushing>>, FoundUnused
  PROVE  FoundUnused'
<1>1. \A x : Hard(x)' = Hard(x)
  BY DEF Hard, PtrRefs, ValueRefs, HoldRefs
<1> QED BY <1>1 DEF FoundUnused

LEMMA NothingFound ==
  ASSUME found' = Null PROVE FoundUnused'
BY DEF FoundUnused

ShareParts ==
  (\A t \in Threads : ClientShares(t) /\ \A k \in Keys : FrameShares(t, k)) /\ FoundUnused

(* A key that is absent, or being created, is nobody's.                    *)
LEMMA NobodyHas ==
  ASSUME Inv, ShareParts, flushing = "no", NEW k \in Keys, table[k].val \notin Objs
  PROVE  \A u \in Threads : of[u] # k /\ (pc[u][k] = "ret" => status[u][k] # "ok")
<1> USE DEF Inv
<1> SUFFICES ASSUME NEW u \in Threads
             PROVE  of[u] # k /\ (pc[u][k] = "ret" => status[u][k] # "ok")
  OBVIOUS
<1>1. of[u] # k
  <2> SUFFICES ASSUME of[u] = k PROVE FALSE
    OBVIOUS
  <2>1. ptr[u] # Null /\ table[k].val = ptr[u]
    BY CacheAssumption DEF ShareParts, ClientShares
  <2> QED BY <2>1 DEF TypeOK, Typed
<1>2. ASSUME pc[u][k] = "ret", status[u][k] = "ok" PROVE FALSE
  <2>1. table[k].val = value[u][k] /\ value[u][k] \in Objs
    BY <1>2 DEF ShareParts, FrameShares, Frames, FrameOK
  <2> QED BY <2>1
<1> QED BY <1>1, <1>2

LEMMA PollShares ==
  ASSUME Inv, ShareParts, "put" \notin Failures, NEW t \in Threads, NEW k \in Keys, Poll(t, k)
  PROVE  ShareParts'
<1> USE DEF Inv
<1>1. /\ pc[t][k] = "poll" /\ flushing = "no" /\ found = Null
      /\ UNCHANGED <<ptr, of, flushing, found>>
  BY NotFlushing DEF Poll, At, client, flushVars, FlushInv
<1>2. FoundUnused'
  BY <1>1, NothingFound
<1>3. \A u \in Threads, q \in Keys : u # t \/ q # k =>
        pc'[u][q] = pc[u][q] /\ status'[u][q] = status[u][q] /\ value'[u][q] = value[u][q]
  <2>1. /\ pc \in [Threads -> [Keys -> Loc]] /\ status \in [Threads -> [Keys -> {"ok", "fail"}]]
        /\ value \in [Threads -> [Keys -> Values \cup {Null}]]
    BY DEF TypeOK, Typed
  <2>2. \A u \in Threads, q \in Keys : u # t \/ q # k => pc'[u][q] = pc[u][q]
    <3>1. \E l : pc' = [pc EXCEPT ![t][k] = l]
      BY DEF Poll, Goto
    <3> HIDE DEF Inv
    <3> QED BY <2>1, <3>1, OthersStay, SMTT(30)
  <2>3. \A u \in Threads, q \in Keys : u # t \/ q # k => status'[u][q] = status[u][q]
    <3>1. status' = status \/ \E x : status' = [status EXCEPT ![t][k] = x]
      BY DEF Poll
    <3> HIDE DEF Inv
    <3> QED BY <2>1, <3>1, OthersStay, SMTT(30)
  <2>4. \A u \in Threads, q \in Keys : u # t \/ q # k => value'[u][q] = value[u][q]
    <3>1. value' = value \/ \E x : value' = [value EXCEPT ![t][k] = x]
      BY DEF Poll
    <3> HIDE DEF Inv
    <3> QED BY <2>1, <3>1, OthersStay, SMTT(30)
  <2> QED BY <2>2, <2>3, <2>4
<1>4. CASE UNCHANGED table /\ (pc'[t][k] = "ret" => value'[t][k] = table[k].val)
  <2>1. \A u \in Threads : ClientShares(u)'
    BY <1>1, <1>4 DEF ShareParts, ClientShares
  <2>2. ASSUME NEW u \in Threads, NEW q \in Keys PROVE FrameShares(u, q)'
    BY <1>3, <1>4, ZenonT(60) DEF ShareParts, FrameShares
  <2> QED BY <1>2, <2>1, <2>2 DEF ShareParts
<1>5. CASE /\ table[k] = Absent /\ pc'[t][k] = "create"
           /\ \A q \in Keys : q # k => table'[q] = table[q]
  <2>1. \A u \in Threads : of[u] # k /\ (pc[u][k] = "ret" => status[u][k] # "ok")
    <3>1. table[k].val \notin Objs
      BY <1>5, ValueTypes
    <3> QED BY <1>1, <3>1, NobodyHas
  <2>2. \A u \in Threads : ClientShares(u)'
    BY <1>1, <1>5, <2>1 DEF ShareParts, ClientShares, TypeOK, Typed
  <2>3. ASSUME NEW u \in Threads, NEW q \in Keys PROVE FrameShares(u, q)'
    <3>1. CASE q # k
      BY <1>3, <1>5, <3>1, SMTT(30) DEF ShareParts, FrameShares
    <3>2. CASE q = k
      BY <1>3, <1>5, <2>1, <3>2 DEF FrameShares
    <3> QED BY <3>1, <3>2
  <2> QED BY <1>2, <2>2, <2>3 DEF ShareParts
<1>6. \/ Goto(t, k, "waiting") /\ UNCHANGED <<table, value>>
      \/ value' = [value EXCEPT ![t][k] = table[k].val] /\ Goto(t, k, "ret") /\ UNCHANGED table
      \/ /\ table[k] = Absent /\ Goto(t, k, "create")
         /\ table' = [table EXCEPT ![k] = [val |-> NoValue, status |-> "ok"]]
  BY DEF Poll
<1>7. CASE Goto(t, k, "waiting") /\ UNCHANGED <<table, value>>
  <2>1. pc'[t][k] = "waiting"
    BY <1>7 DEF Goto, TypeOK, Typed
  <2> QED BY <1>4, <1>7, <2>1
<1>8. CASE value' = [value EXCEPT ![t][k] = table[k].val] /\ UNCHANGED table
  <2>1. value'[t][k] = table[k].val
    BY <1>8 DEF TypeOK, Typed
  <2> QED BY <1>4, <1>8, <2>1
<1>9. CASE /\ table[k] = Absent /\ Goto(t, k, "create")
           /\ table' = [table EXCEPT ![k] = [val |-> NoValue, status |-> "ok"]]
  <2>1. pc'[t][k] = "create"
    BY <1>9 DEF Goto, TypeOK, Typed
  <2>2. \A q \in Keys : q # k => table'[q] = table[q]
    BY <1>9 DEF TypeOK, Typed
  <2> QED BY <1>5, <1>9, <2>1, <2>2
<1> QED BY <1>6, <1>7, <1>8, <1>9

LEMMA PutShares ==
  ASSUME Inv, ShareParts, "put" \notin Failures, NEW t \in Threads, NEW k \in Keys,
         PutIfAbsentAndGet(t, k)
  PROVE  ShareParts'
<1> USE DEF Inv
<1> DEFINE e == table[k]
           v == value[t][k]
           n == [val |-> v, status |-> status[t][k]]
<1>1. /\ pc[t][k] = "put" /\ flushing = "no" /\ found = Null
      /\ UNCHANGED <<ptr, of, flushing, found>>
  BY NotFlushing DEF PutIfAbsentAndGet, At, client, flushVars, FlushInv
<1>2. FoundUnused'
  BY <1>1, NothingFound
<1>3. /\ pc \in [Threads -> [Keys -> Loc]] /\ status \in [Threads -> [Keys -> {"ok", "fail"}]]
      /\ value \in [Threads -> [Keys -> Values \cup {Null}]] /\ table \in [Keys -> Entry]
  BY DEF TypeOK, Typed
<1>4. \A u \in Threads, q \in Keys : u # t \/ q # k => (pc'[u][q] = "ret" <=> pc[u][q] = "ret")
  <2>1. CASE Goto(t, k, "ret")
    BY <1>3, <2>1 DEF Goto
  <2>2. CASE pc' = [Woken(pc) EXCEPT ![t][k] = "ret"]
    BY <1>3, <2>2 DEF Woken
  <2> QED BY <2>1, <2>2 DEF PutIfAbsentAndGet
<1>5. \A u \in Threads, q \in Keys : u # t \/ q # k =>
        status'[u][q] = status[u][q] /\ value'[u][q] = value[u][q]
  <2>1. \A u \in Threads, q \in Keys : u # t \/ q # k => status'[u][q] = status[u][q]
    <3>1. status' = status \/ \E x : status' = [status EXCEPT ![t][k] = x]
      BY DEF PutIfAbsentAndGet
    <3> HIDE DEF Inv
    <3> QED BY <1>3, <3>1, OthersStay, SMTT(30)
  <2>2. \A u \in Threads, q \in Keys : u # t \/ q # k => value'[u][q] = value[u][q]
    <3>1. value' = value \/ \E x : value' = [value EXCEPT ![t][k] = x]
      BY DEF PutIfAbsentAndGet
    <3> HIDE DEF Inv
    <3> QED BY <1>3, <3>1, OthersStay, SMTT(30)
  <2> QED BY <2>1, <2>2
<1>6. \/ value' = [value EXCEPT ![t][k] = e.val] /\ UNCHANGED table
      \/ table' = [table EXCEPT ![k] = n] /\ UNCHANGED value /\ (e = Absent \/ InProgress(e))
  BY DEF PutIfAbsentAndGet
<1>7. CASE value' = [value EXCEPT ![t][k] = e.val] /\ UNCHANGED table
  <2>1. value'[t][k] = e.val
    BY <1>3, <1>7
  <2>2. \A u \in Threads : ClientShares(u)'
    BY <1>1, <1>7 DEF ShareParts, ClientShares
  <2>3. ASSUME NEW u \in Threads, NEW q \in Keys PROVE FrameShares(u, q)'
    <3>1. CASE u = t /\ q = k
      BY <1>7, <2>1, <3>1 DEF FrameShares
    <3>2. CASE u # t \/ q # k
      <4>1. FrameShares(u, q)
        BY DEF ShareParts
      <4>2. table' = table
        BY <1>7
      <4> QED BY <1>4, <1>5, <3>2, <4>1, <4>2 DEF FrameShares
    <3> QED BY <3>1, <3>2
  <2> QED BY <1>2, <2>2, <2>3 DEF ShareParts
<1>8. CASE table' = [table EXCEPT ![k] = n] /\ UNCHANGED value /\ (e = Absent \/ InProgress(e))
  <2>1. table'[k].val = v /\ \A q \in Keys : q # k => table'[q] = table[q]
    BY <1>3, <1>8
  <2>2. \A u \in Threads : of[u] # k /\ (pc[u][k] = "ret" => status[u][k] # "ok")
    <3>1. table[k].val \notin Objs
      BY <1>8, ValueTypes DEF InProgress
    <3> QED BY <1>1, <3>1, NobodyHas
  <2>3. \A u \in Threads : ClientShares(u)'
    BY <1>1, <2>1, <2>2 DEF ShareParts, ClientShares, TypeOK, Typed
  <2>4. ASSUME NEW u \in Threads, NEW q \in Keys PROVE FrameShares(u, q)'
    <3>1. CASE u = t /\ q = k
      BY <1>8, <2>1, <3>1 DEF FrameShares
    <3>2. CASE q # k
      <4>1. FrameShares(u, q)
        BY DEF ShareParts
      <4>2. table'[q] = table[q]
        BY <2>1, <3>2
      <4> QED BY <1>4, <1>5, <3>2, <4>1, <4>2 DEF FrameShares
    <3>3. CASE u # t /\ q = k
      <4>1. pc'[u][k] = "ret" => status'[u][k] # "ok"
        BY <1>4, <1>5, <2>2, <3>3
      <4> QED BY <3>3, <4>1 DEF FrameShares
    <3> QED BY <3>1, <3>2, <3>3
  <2> QED BY <1>2, <2>3, <2>4 DEF ShareParts
<1> QED BY <1>6, <1>7, <1>8

(* Steps that leave the table, and what returning frames have, alone.      *)
LEMMA SharesStay ==
  ASSUME Inv, ShareParts, UNCHANGED <<table, flushing>>, FoundUnused',
         \A u \in Threads : of'[u] # Null => of'[u] = of[u] /\ ptr'[u] = ptr[u],
         \A u \in Threads, q \in Keys : pc'[u][q] = "ret" =>
           pc[u][q] = "ret" /\ status'[u][q] = status[u][q] /\ value'[u][q] = value[u][q]
  PROVE  ShareParts'
<1>1. \A u \in Threads : ClientShares(u)'
  BY DEF ShareParts, ClientShares
<1>2. ASSUME NEW u \in Threads, NEW q \in Keys PROVE FrameShares(u, q)'
  <2>1. FrameShares(u, q)
    BY DEF ShareParts
  <2> QED BY <2>1 DEF FrameShares
<1> QED BY <1>1, <1>2 DEF ShareParts

LEMMA BuildShares ==
  ASSUME Inv, Inv', ShareParts, NEW t \in Threads, NEW k \in Keys, Build(t, k)
  PROVE  ShareParts'
<1> USE DEF Inv
<1>1. UNCHANGED <<soft, table, ptr, of, flushing, found>> /\ Goto(t, k, "put")
  BY DEF Build, client, flushVars
<1>2. /\ pc'[t][k] = "put"
      /\ \A u \in Threads, q \in Keys : u # t \/ q # k =>
           pc'[u][q] = pc[u][q] /\ status'[u][q] = status[u][q] /\ value'[u][q] = value[u][q]
  <2>1. /\ pc \in [Threads -> [Keys -> Loc]] /\ status \in [Threads -> [Keys -> {"ok", "fail"}]]
        /\ value \in [Threads -> [Keys -> Values \cup {Null}]]
    BY DEF TypeOK, Typed
  <2>2. pc'[t][k] = "put" /\ \A u \in Threads, q \in Keys : u # t \/ q # k => pc'[u][q] = pc[u][q]
    BY <1>1, <2>1 DEF Goto
  <2>3. \A u \in Threads, q \in Keys : u # t \/ q # k => status'[u][q] = status[u][q]
    <3>1. UNCHANGED status \/ status' = [status EXCEPT ![t][k] = "fail"]
      BY DEF Build
    <3> QED BY <2>1, <3>1, SMTT(30)
  <2>4. \A u \in Threads, q \in Keys : u # t \/ q # k => value'[u][q] = value[u][q]
    <3>1. UNCHANGED value \/ \E x : value' = [value EXCEPT ![t][k] = x]
      BY DEF Build
    <3> QED BY <2>1, <3>1, SMTT(30)
  <2> QED BY <2>2, <2>3, <2>4
<1>3. FoundUnused'
  <2>1. FoundUnused
    BY DEF ShareParts
  <2>2. CASE UNCHANGED <<alive, holds, value, status>>
    BY <1>1, <2>1, <2>2, HardSame
  <2>5. UNCHANGED <<table, soft, found, flushing>>
    BY <1>1
  <2> HIDE DEF Inv
  <2>3. ASSUME NEW x \in Objs \ alive, References(t, {x}, {}) PROVE FoundUnused'
    <3>1. \A y \in Objs : y \in {x} => y \notin alive
      OBVIOUS
    <3> QED BY <2>1, <2>3, <2>5, <3>1, StaysUnused
  <2>4. CASE References(t, {NoValue}, {value[t][k]})
    <3>1. \A y \in Objs : y \notin {NoValue}
      BY ValueTypes
    <3> QED BY <2>1, <2>4, <2>5, <3>1, StaysUnused
  <2> QED BY <2>2, <2>3, <2>4 DEF Build
<1> QED BY <1>1, <1>2, <1>3, SharesStay

LEMMA ReturnShares ==
  ASSUME Inv, Inv', ShareParts, NEW t \in Threads, NEW k \in Keys, Return(t, k)
  PROVE  ShareParts'
<1> USE DEF Inv
<1> DEFINE v == value[t][k]
           outer == {p \in Keys : pc[t][p] = "nested" /\ DepOf[p] = k}
           ok == status[t][k] = "ok"
<1>1. pc[t][k] = "ret" /\ UNCHANGED <<soft, table, flushing, found>>
  BY DEF Return, At, flushVars
<1>2. \A u \in Threads, q \in Keys : pc'[u][q] = "ret" =>
        pc[u][q] = "ret" /\ status'[u][q] = status[u][q] /\ value'[u][q] = value[u][q]
  <2>1. /\ pc \in [Threads -> [Keys -> Loc]] /\ status \in [Threads -> [Keys -> {"ok", "fail"}]]
        /\ value \in [Threads -> [Keys -> Values \cup {Null}]]
    BY DEF TypeOK, Typed
  <2>2. /\ \A u \in Threads : u # t => pc'[u] = pc[u] /\ value'[u] = value[u]
        /\ \A q \in Keys : /\ pc'[t][q] = IF q = k THEN "idle" ELSE
                                          IF q \in outer THEN "build" ELSE pc[t][q]
                           /\ value'[t][q] = IF q = k THEN Null ELSE
                                             IF q \in outer /\ ok THEN v ELSE value[t][q]
    BY <2>1 DEF Return
  <2>3. \A u \in Threads, q \in Keys : u # t \/ q # k => status'[u][q] = status[u][q]
    BY <2>1 DEF Return
  <2> HIDE DEF outer, ok, v
  <2> SUFFICES ASSUME NEW u \in Threads, NEW q \in Keys, pc'[u][q] = "ret"
               PROVE  pc[u][q] = "ret" /\ status'[u][q] = status[u][q] /\ value'[u][q] = value[u][q]
    OBVIOUS
  <2>4. CASE u # t
    BY <2>2, <2>3, <2>4
  <2>5. CASE u = t
    <3>1. q # k /\ q \notin outer
      BY <2>2, <2>5, ZenonT(60)
    <3> QED BY <2>2, <2>3, <2>5, <3>1
  <2> QED BY <2>4, <2>5
<1>3. FoundUnused'
  <2>1. FoundUnused
    BY DEF ShareParts
  <2>2. PICK lose : References(t, {}, lose)
    BY DEF Return
  <2>3. \A x \in Objs : x \in {} => x \notin alive
    OBVIOUS
  <2> HIDE DEF Inv
  <2> QED BY <1>1, <2>1, <2>2, <2>3, StaysUnused
<1>4. CASE ~(outer = {} /\ ok)
  <2>1. UNCHANGED <<ptr, of>>
    BY <1>4 DEF Return
  <2> HIDE DEF outer
  <2> QED BY <1>1, <1>2, <1>3, <2>1, SharesStay
<1>5. CASE outer = {} /\ ok
  <2>1. ptr' = [ptr EXCEPT ![t] = v] /\ of' = [of EXCEPT ![t] = k]
    BY <1>5 DEF Return
  <2>2. /\ ptr'[t] = v /\ of'[t] = k
        /\ \A u \in Threads : u # t => ptr'[u] = ptr[u] /\ of'[u] = of[u]
    BY <2>1 DEF TypeOK, Typed
  <2>6. pc[t][k] = "ret" /\ FrameOK(t, k) /\ FrameShares(t, k)
    BY <1>1 DEF ShareParts, Frames, Return, Goto
  <2>3. v \in Objs /\ table[k].val = v /\ v # Null
    BY <1>5, <2>6, CacheAssumption DEF FrameShares, FrameOK
  <2>4. ASSUME NEW u \in Threads PROVE ClientShares(u)'
    <3>1. CASE u = t
      BY <1>1, <2>2, <2>3, <3>1 DEF ClientShares
    <3>2. CASE u # t
      BY <1>1, <2>2, <3>2 DEF ShareParts, ClientShares
    <3> QED BY <3>1, <3>2
  <2>5. ASSUME NEW u \in Threads, NEW q \in Keys PROVE FrameShares(u, q)'
    <3>1. FrameShares(u, q)
      BY DEF ShareParts
    <3> QED BY <1>1, <1>2, <3>1 DEF FrameShares
  <2> QED BY <1>3, <2>4, <2>5 DEF ShareParts
<1> QED BY <1>4, <1>5

LEMMA ClientStepShares ==
  ASSUME Inv, Inv', ShareParts, NEW t \in Threads, Destroy(t) \/ Release(t) \/ CopyOnWrite(t)
  PROVE  ShareParts'
<1>1. UNCHANGED <<soft, table, pc, status, value, flushing, found>>
  BY DEF Destroy, Release, CopyOnWrite, frames, flushVars
<1>3. FoundUnused
  BY DEF ShareParts
<1>5. ASSUME NEW lose, References(t, {}, lose) PROVE FoundUnused'
  <2>1. \A x \in Objs : x \in {} => x \notin alive
    OBVIOUS
  <2> QED BY <1>1, <1>3, <1>5, <2>1, StaysUnused, SMTT(30)
<1> USE DEF Inv
<1>2. \A u \in Threads : of'[u] # Null => of'[u] = of[u] /\ ptr'[u] = ptr[u]
  BY ZenonT(60) DEF Destroy, Release, CopyOnWrite, client, TypeOK, Typed
<1>4. FoundUnused'
  <2>2. CASE Destroy(t) \/ Release(t)
    BY <1>5, <2>2 DEF Destroy, Release
  <2>3. CASE CopyOnWrite(t) /\ UNCHANGED <<ptr, holds>>
    BY <1>1, <1>3, <2>3, HardSame
  <2>4. ASSUME NEW x \in Objs \ alive, writing[t] = "clone",
               References(t, {x, holds[ptr[t]]}, {ptr[t]})
        PROVE  FoundUnused'
    <3>1. ptr[t] \in Objs
      <4>1. ptr[t] \in Objs \cup {Null} /\ ptr[t] # Null
        BY <2>4 DEF WriterInv, TypeOK, Typed
      <4> QED BY <4>1
    <3>2. \A y \in Objs : y \in {x, holds[ptr[t]]} => y \notin alive \/ \E z \in Objs : holds[z] = y
      BY <3>1
    <3> QED BY <1>1, <1>3, <2>4, <3>2, StaysUnused
  <2> QED BY <2>2, <2>3, <2>4 DEF CopyOnWrite
<1> QED BY <1>1, <1>2, <1>4, SharesStay

LEMMA CopyPtrShares ==
  ASSUME Inv, Inv', ShareParts, NEW t \in Threads, NEW u \in Threads, CopyPtr(t, u)
  PROVE  ShareParts'
<1> USE DEF Inv
<1>1. /\ UNCHANGED <<soft, table, pc, status, value, flushing, found>>
      /\ References(t, {ptr[u]}, {ptr[t]})
      /\ ptr' = [ptr EXCEPT ![t] = ptr[u]] /\ of' = [of EXCEPT ![t] = of[u]]
  BY DEF CopyPtr, frames, flushVars
<1>2. FoundUnused'
  <2>1. FoundUnused
    BY DEF ShareParts
  <2>2. \A x \in Objs : x \in {ptr[u]} => \E w \in Threads : ptr[w] = x
    OBVIOUS
  <2> QED BY <1>1, <2>1, <2>2, StaysUnused
<1>3. \A w \in Threads : \E z \in Threads : of'[w] = of[z] /\ ptr'[w] = ptr[z]
  <2>1. /\ ptr'[t] = ptr[u] /\ of'[t] = of[u]
        /\ \A w \in Threads : w # t => ptr'[w] = ptr[w] /\ of'[w] = of[w]
    BY <1>1 DEF TypeOK, Typed
  <2> QED BY <2>1
<1>4. ASSUME NEW w \in Threads PROVE ClientShares(w)'
  <2>1. PICK z \in Threads : of'[w] = of[z] /\ ptr'[w] = ptr[z]
    BY <1>3
  <2>2. ClientShares(z)
    BY DEF ShareParts
  <2> QED BY <1>1, <2>1, <2>2 DEF ClientShares
<1>5. \A w \in Threads, q \in Keys : FrameShares(w, q)'
  BY <1>1 DEF ShareParts, FrameShares
<1> QED BY <1>2, <1>4, <1>5 DEF ShareParts

LEMMA QuietShares ==
  ASSUME Inv, ShareParts, NEW t \in Threads,
         \/ \E k \in Keys : Get(t, k) \/ SpuriousWakeup(t, k) \/ NestedGet(t, k)
         \/ CopyOnWriteTest(t)
  PROVE  ShareParts'
<1> USE DEF Inv
<1>1. UNCHANGED <<ptr, of, value, status, holds, table, found, flushing>>
  BY DEF Get, SpuriousWakeup, NestedGet, CopyOnWriteTest, refs, frames, client, flushVars
<1>2. \A u \in Threads, q \in Keys : pc'[u][q] = "ret" => pc[u][q] = "ret"
  <2>1. pc \in [Threads -> [Keys -> Loc]] /\ \A k \in Keys : DepOf[k] \in Keys \cup {Null}
    BY CacheAssumption DEF TypeOK, Typed
  <2>2. CASE \E k \in Keys : Get(t, k) \/ SpuriousWakeup(t, k)
    <3>1. PICK k \in Keys : pc' = [pc EXCEPT ![t][k] = "poll"]
      BY <2>2 DEF Get, SpuriousWakeup, Goto
    <3> QED BY <2>1, <3>1
  <2>3. CASE \E k \in Keys : NestedGet(t, k)
    <3>1. PICK k \in Keys :
            /\ DepOf[k] # Null
            /\ pc' = [pc EXCEPT ![t][k] = "nested", ![t][DepOf[k]] = "poll"]
      BY <2>3 DEF NestedGet
    <3> DEFINE d == DepOf[k]
    <3>2. d \in Keys
      BY <2>1, <3>1
    <3>3. pc' = [pc EXCEPT ![t][k] = "nested", ![t][d] = "poll"]
      BY <3>1
    <3> HIDE DEF d
    <3> QED BY <2>1, <3>2, <3>3
  <2>4. CASE CopyOnWriteTest(t)
    BY <2>4 DEF CopyOnWriteTest, frames
  <2> QED BY <2>2, <2>3, <2>4
<1>3. FoundUnused'
  BY <1>1, HardSame DEF ShareParts
<1> QED BY <1>1, <1>2, <1>3, SharesStay

LEMMA FlushBeginShares ==
  ASSUME Inv, ShareParts, NEW t \in Threads, FlushBegin(t) \/ CleanupBegin(t)
  PROVE  ShareParts'
<1>1. mutex = Null /\ UNCHANGED <<ptr, of, pc, value, status, table, found>>
  BY DEF FlushBegin, CleanupBegin, frames, client
<1>2. flushing = "no" /\ found = Null
  BY <1>1, NotFlushing DEF Inv, FlushInv
<1>3. FoundUnused'
  BY <1>1, <1>2, NothingFound
<1> QED BY <1>1, <1>2, <1>3 DEF ShareParts, ClientShares, FrameShares

LEMMA FlushTestShares ==
  ASSUME Inv, ShareParts, NEW t \in Threads, NEW k \in Keys, FlushTest(t, k)
  PROVE  ShareParts'
<1> USE DEF Inv
<1>1. /\ found' = IF flushing = "wipe" \/ AllSoftReferences(table[k].val) THEN k ELSE Null
      /\ UNCHANGED <<ptr, of, pc, value, status, holds, table, flushing>>
  BY DEF FlushTest, refs, frames, client
<1>2. \A x : Hard(x)' = Hard(x)
  BY <1>1 DEF Hard, PtrRefs, ValueRefs, HoldRefs
<1>3. FoundUnused'
  <2> SUFFICES ASSUME found' # Null, flushing # "wipe", table[found'].val \in Objs
               PROVE  Hard(table[found'].val) = 0
    BY <1>1, <1>2 DEF FoundUnused
  <2>1. found' = k /\ AllSoftReferences(table[k].val)
    BY <1>1
  <2> QED BY <2>1, MoreThanSoft, ValueTypes DEF AllSoftReferences
<1> QED BY <1>1, <1>3, SharesStay

LEMMA FlushEvictShares ==
  ASSUME Inv, ShareParts, NEW t \in Threads, FlushEvict(t)
  PROVE  ShareParts'
<1> USE DEF Inv
<1>1. /\ found # Null /\ found' = Null /\ table' = [table EXCEPT ![found] = Absent]
      /\ UNCHANGED <<ptr, of, pc, value, status, flushing>>
  BY DEF FlushEvict, frames, client
<1>2. found \in Keys /\ \A q \in Keys : q # found => table'[q] = table[q]
  BY <1>1 DEF TypeOK, Typed
<1>3. FoundUnused'
  BY <1>1, NothingFound
<1>4. CASE flushing = "wipe"
  <2>1. \A u \in Threads, q \in Keys : pc[u][q] # "ret"
    BY <1>4 DEF FlushInv
  <2>2. \A u \in Threads : ClientShares(u)'
    BY <1>1, <1>4 DEF ShareParts, ClientShares
  <2> QED BY <1>1, <1>3, <2>1, <2>2 DEF ShareParts, FrameShares
<1>5. CASE flushing # "wipe"
  <2>1. table[found].val \in Objs => Hard(table[found].val) = 0
    BY <1>1, <1>5 DEF ShareParts, FoundUnused
  <2>2. ASSUME NEW u \in Threads, of[u] = found PROVE FALSE
    <3>1. ptr[u] # Null /\ table[found].val = ptr[u]
      BY <1>1, <1>5, <2>2 DEF ShareParts, ClientShares
    <3>2. ptr[u] \in Objs
      BY <3>1 DEF TypeOK, Typed
    <3>3. Hard(ptr[u]) > 0
      BY <3>2, Referred, ValueTypes
    <3> QED BY <2>1, <3>1, <3>2, <3>3, SMTT(30)
  <2>3. ASSUME NEW u \in Threads, pc[u][found] = "ret", status[u][found] = "ok" PROVE FALSE
    <3>1. table[found].val = value[u][found] /\ value[u][found] \in Objs
      BY <1>2, <2>3 DEF ShareParts, FrameShares, Frames, FrameOK
    <3>2. Hard(value[u][found]) > 0
      BY <1>2, <3>1, Referred, ValueTypes
    <3> QED BY <2>1, <3>1, <3>2, SMTT(30)
  <2>4. ASSUME NEW u \in Threads PROVE ClientShares(u)'
    <3>1. of[u] # Null => of[u] \in Keys /\ of[u] # found
      BY <2>2 DEF TypeOK, Typed
    <3>2. ClientShares(u)
      BY DEF ShareParts
    <3> QED BY <1>1, <1>2, <3>1, <3>2 DEF ClientShares
  <2>5. ASSUME NEW u \in Threads, NEW q \in Keys PROVE FrameShares(u, q)'
    <3>1. FrameShares(u, q)
      BY DEF ShareParts
    <3>2. CASE q # found
      BY <1>1, <1>2, <3>1, <3>2 DEF FrameShares
    <3>3. CASE q = found
      BY <1>1, <2>3, <3>3 DEF FrameShares
    <3> QED BY <3>2, <3>3
  <2> QED BY <1>3, <2>4, <2>5 DEF ShareParts
<1> QED BY <1>4, <1>5

LEMMA FlushPassEndShares ==
  ASSUME Inv, ShareParts, NEW t \in Threads, FlushPassEnd(t)
  PROVE  ShareParts'
<1> USE DEF Inv
<1>1. found = Null /\ UNCHANGED <<ptr, value, status, table, found>>
  BY DEF FlushPassEnd
<1>2. FoundUnused'
  BY <1>1, NothingFound
<1>3. \A u \in Threads, q \in Keys : pc'[u][q] = "ret" => pc[u][q] = "ret"
  <2>1. pc' = pc \/ pc' = Woken(pc)
    BY DEF FlushPassEnd
  <2> QED BY <2>1, ZenonT(60) DEF Woken
<1>4. \A u \in Threads, q \in Keys : FrameShares(u, q)'
  BY <1>1, <1>3 DEF ShareParts, FrameShares
<1>5. \/ of' = [u \in Threads |-> Null]
      \/ UNCHANGED of /\ (flushing = "wipe" => flushing' = "wipe")
  BY DEF FlushPassEnd
<1>6. \A u \in Threads : ClientShares(u)'
  BY <1>1, <1>5 DEF ShareParts, ClientShares
<1> QED BY <1>2, <1>4, <1>6 DEF ShareParts

LEMMA NextShares ==
  ASSUME Inv, ShareParts, "put" \notin Failures, [Next]_vars PROVE ShareParts'
<1>1. Inv'
  BY NextInv
<1>2. CASE UNCHANGED vars
  <2>1. UNCHANGED <<ptr, of, pc, value, status, holds, table, found, flushing>>
    BY <1>2 DEF vars, refs, frames, client, flushVars
  <2>2. FoundUnused'
    BY <2>1, HardSame DEF ShareParts
  <2> QED BY <2>1, <2>2, SharesStay
<1>3. CASE Next
  BY <1>1, <1>3, PollShares, PutShares, BuildShares, ReturnShares, ClientStepShares, CopyPtrShares,
     QuietShares, FlushBeginShares, FlushTestShares, FlushEvictShares, FlushPassEndShares
     DEF Next, Step, Locked
<1> QED BY <1>2, <1>3

(* The destructor of the cache runs when nobody else is in the library.    *)
LEMMA WipeKeeps ==
  ASSUME Inv, Next, flushing' = "wipe" PROVE UNCHANGED <<ptr, of>>
<1>1. ASSUME NEW t \in Threads, NEW k \in Keys, Return(t, k) PROVE FALSE
  <2>1. flushing = "wipe" /\ pc[t][k] = "ret"
    BY <1>1 DEF Return, At, flushVars
  <2> QED BY <2>1 DEF Inv, FlushInv
<1>2. ASSUME NEW t \in Threads,
             Release(t) \/ CopyOnWrite(t) \/ \E u \in Threads : CopyPtr(t, u)
      PROVE  FALSE
  BY <1>2 DEF Release, CopyOnWrite, CopyPtr, Idle, flushVars
<1>3. ASSUME NEW t \in Threads, FlushPassEnd(t) PROVE UNCHANGED <<ptr, of>>
  BY <1>3 DEF FlushPassEnd
<1>4. ASSUME NEW t \in Threads, NEW k \in Keys,
             \/ Poll(t, k) \/ PutIfAbsentAndGet(t, k) \/ Build(t, k) \/ NestedGet(t, k)
             \/ Get(t, k) \/ SpuriousWakeup(t, k) \/ FlushTest(t, k)
      PROVE  UNCHANGED <<ptr, of>>
  BY <1>4 DEF Poll, PutIfAbsentAndGet, Build, NestedGet, Get, SpuriousWakeup, FlushTest, client
<1>5. ASSUME NEW t \in Threads,
             \/ Destroy(t) \/ FlushEvict(t) \/ CopyOnWriteTest(t) \/ FlushBegin(t) \/ CleanupBegin(t)
      PROVE  UNCHANGED <<ptr, of>>
  BY <1>5 DEF Destroy, FlushEvict, CopyOnWriteTest, FlushBegin, CleanupBegin, client
<1> QED BY <1>1, <1>2, <1>3, <1>4, <1>5 DEF Next, Step, Locked

(* While a client holds the value of a key, whoever gets the key gets the  *)
(* same value, however gets, flushes and evictions interleave, unless an   *)
(* entry could not be allocated (_poll, _putIfAbsentAndGet, _flush).       *)
THEOREM ClientsOfAKeyShare == Spec => []ClientsShare
<1>1. Init => ShareInv /\ ClientsShare
  BY SMTT(30) DEF Init, ShareInv, ClientShares, FrameShares, FoundUnused, ClientsShare
<1>2. Inv /\ ShareInv /\ [Next]_vars => ShareInv'
  BY NextShares DEF ShareInv, ShareParts
<1>3. Inv /\ ShareInv /\ ClientsShare /\ [Next]_vars => ClientsShare'
  <2> SUFFICES ASSUME Inv, ShareInv, ClientsShare, [Next]_vars
               PROVE  ClientsShare'
    OBVIOUS
  <2>1. CASE flushing' # "wipe"
    <3>1. ShareInv'
      BY <1>2
    <3> QED BY <2>1, <3>1, ZenonT(60) DEF ShareInv, ClientShares, ClientsShare
  <2>2. CASE flushing' = "wipe"
    <3>1. UNCHANGED <<ptr, of>>
      BY <2>2, WipeKeeps DEF vars, client
    <3> QED BY <3>1 DEF ClientsShare
  <2> QED BY <2>1, <2>2
<1> QED BY <1>1, <1>2, <1>3, InitInv, NextInv, PTL DEF Spec
=============================================================================
