------------------------- MODULE StringBufferProofs -------------------------
(***************************************************************************)
(* The reference counts of UnicodeString's buffers are exact for any       *)
(* number of threads, strings and buffers, and strings are values as long  *)
(* as no thread uses doReplace.                                            *)
(***************************************************************************)
EXTENDS StringBuffer, FiniteSetTheorems, TLAPS

(* Most leaves are first-order: Zenon first, then Z3. *)
USE ZenonT(20), SMTT(20)

Maps == [Holders -> Buffers \cup {Null}]
Uses(p, b) == {x \in Holders : p[x] = b}

LEMMA UsesFinite ==
  ASSUME NEW p, NEW b
  PROVE  IsFiniteSet(Uses(p, b)) /\ Cardinality(Uses(p, b)) \in Nat
<1>1. IsFiniteSet(Holders)
  BY StringAssumption, FS_Union DEF Holders
<1>2. Uses(p, b) \subseteq Holders
  BY DEF Uses
<1> QED BY <1>1, <1>2, FS_Subset, FS_CardinalityType

(* A holder that gives its buffer up is one user less of that buffer.      *)
LEMMA Dropping ==
  ASSUME NEW p \in Maps, NEW x \in Holders, p[x] # Null, NEW c \in Buffers
  PROVE  LET q == [p EXCEPT ![x] = Null] IN
         /\ q \in Maps
         /\ c = p[x] => Cardinality(Uses(q, c)) = Cardinality(Uses(p, c)) - 1
         /\ c # p[x] => Uses(q, c) = Uses(p, c)
<1> DEFINE q == [p EXCEPT ![x] = Null]
<1>0. c # Null
  BY StringAssumption
<1>1. q \in Maps
  BY DEF Maps
<1>2. ASSUME c = p[x] PROVE Cardinality(Uses(q, c)) = Cardinality(Uses(p, c)) - 1
  <2>1. x \in Uses(p, c)
    BY <1>2 DEF Uses
  <2>2. Uses(q, c) = Uses(p, c) \ {x}
    BY <1>0, <1>2 DEF Uses, Maps
  <2> QED BY <2>1, <2>2, UsesFinite, FS_RemoveElement
<1>3. ASSUME c # p[x] PROVE Uses(q, c) = Uses(p, c)
  BY <1>0, <1>3 DEF Uses, Maps
<1> QED BY <1>1, <1>2, <1>3

(* A holder that takes a buffer is one user more of it.                    *)
LEMMA Taking ==
  ASSUME NEW p \in Maps, NEW x \in Holders, p[x] = Null, NEW b \in Buffers, NEW c \in Buffers
  PROVE  LET q == [p EXCEPT ![x] = b] IN
         /\ q \in Maps
         /\ c = b => Cardinality(Uses(q, c)) = Cardinality(Uses(p, c)) + 1
         /\ c # b => Uses(q, c) = Uses(p, c)
<1> DEFINE q == [p EXCEPT ![x] = b]
<1>0. c # Null
  BY StringAssumption
<1>1. q \in Maps
  BY DEF Maps
<1>2. ASSUME c = b PROVE Cardinality(Uses(q, c)) = Cardinality(Uses(p, c)) + 1
  <2>1. x \notin Uses(p, c)
    BY <1>0 DEF Uses
  <2>2. Uses(q, c) = Uses(p, c) \cup {x}
    BY <1>2 DEF Uses, Maps
  <2> QED BY <2>1, <2>2, UsesFinite, FS_AddElement
<1>3. ASSUME c # b PROVE Uses(q, c) = Uses(p, c)
  BY <1>0, <1>3 DEF Uses, Maps
<1> QED BY <1>1, <1>2, <1>3

LEMMA UsesEmpty ==
  ASSUME NEW p, NEW b
  PROVE  Cardinality(Uses(p, b)) = 0 <=> ~ \E x \in Holders : p[x] = b
<1>1. Cardinality(Uses(p, b)) = 0 <=> Uses(p, b) = {}
  BY UsesFinite, FS_EmptySet
<1> QED BY <1>1 DEF Uses

-----------------------------------------------------------------------------
(* The inductive invariant: CountsExact needs to know which threads hold   *)
(* an old array, and that the one doReplace has to free is nobody's.       *)
ShapeOf(t) ==
  /\ pc[t] = "idle" <=> at[t] = Null
  /\ at[t] # Null => Owner[at[t]] = t
  /\ from[t] # Null => op[t] = "copy" /\ NotModified(from[t])
  /\ op[t] = "copy" => pc[t] \in {"release", "share"} /\ from[t] # Null
  /\ pc[t] = "share" => op[t] = "copy" /\ ptr[at[t]] = Null
  /\ pc[t] \in {"check", "allocate", "copy", "drop", "write"} => op[t] \in {"set", "replace"}
  /\ pc[t] \notin {"copy", "drop"} => ptr[t] = Null
  /\ pc[t] = "copy" => ptr[t] = IF op[t] = "set" THEN raw[t] ELSE Null
  /\ del[t] # Null => /\ pc[t] = "copy" /\ op[t] = "replace"
                      /\ \A x \in Holders : ptr[x] # del[t]
                      /\ \A u \in Threads : del[u] = del[t] => u = t

Shape == \A t \in Threads : ShapeOf(t)

IInv == TypeOK /\ CountsExact /\ Shape

ValuesOf(t) ==
  at[t] # Null =>
    /\ pc[t] \in {"check", "allocate", "drop", "write"} => Content(at[t]) = text[at[t]]
    /\ pc[t] = "copy" =>
         (IF raw[t] = Null THEN short[at[t]] ELSE mem[raw[t]]) = text[at[t]]
    /\ pc[t] \in {"copy", "drop", "write"} /\ ptr[at[t]] # Null =>
         \A x \in Holders : ptr[x] = ptr[at[t]] => x = at[t]

Values == \A t \in Threads : ValuesOf(t)

-----------------------------------------------------------------------------
(* What the invariant says of a thread in the middle of a call.            *)
LEMMA Working ==
  ASSUME TypeOK, Shape, NEW t \in Threads, pc[t] # "idle"
  PROVE  /\ at[t] \in Strings /\ at[t] \in Holders /\ t \in Holders
         /\ at[t] # Null /\ at[t] # t /\ t # Null
BY StringAssumption, ZenonT(60) DEF TypeOK, Shape, ShapeOf, Holders

LEMMA NothingDeleted ==
  ASSUME TypeOK, Shape, NEW t \in Threads, pc[t] # "copy" \/ op[t] # "replace"
  PROVE  del[t] = Null /\ [del EXCEPT ![t] = Null] = del
BY DEF TypeOK, Shape, ShapeOf

LEMMA SameCounts ==
  ASSUME CountsExact, UNCHANGED <<ptr, count, alive, del>>
  PROVE  CountsExact'
BY DEF CountsExact

LEMMA DoneTypeOK ==
  ASSUME TypeOK, NEW t \in Threads, Done(t)
  PROVE  /\ pc' \in [Threads -> Loc]
         /\ at' \in [Threads -> Strings \cup {Null}] /\ from' \in [Threads -> Strings \cup {Null}]
         /\ tok' \in [Threads -> Tokens \cup {Null}] /\ op' \in [Threads -> Ops \cup {Null}]
         /\ raw' \in [Threads -> Buffers \cup {Null}] /\ del' \in [Threads -> Buffers \cup {Null}]
BY DEF TypeOK, Done, Goto, Loc

LEMMA InitIInv == Init => IInv
<1> SUFFICES ASSUME Init PROVE IInv
  OBVIOUS
<1>1. TypeOK
  BY DEF Init, TypeOK, Loc
<1>2. CountsExact
  <2> SUFFICES ASSUME NEW b \in Buffers
               PROVE  /\ count[b] = Cardinality(Uses(ptr, b))
                      /\ b \in alive <=> \/ \E x \in Holders : ptr[x] = b
                                         \/ \E t \in Threads : del[t] = b
    BY DEF CountsExact, Uses
  <2>1. b # Null
    BY StringAssumption
  <2>2. ~ \E x \in Holders : ptr[x] = b
    BY <2>1 DEF Init
  <2> QED BY <2>1, <2>2, UsesEmpty DEF Init
<1>3. Shape
  BY StringAssumption DEF Init, Shape, ShapeOf, Holders
<1> QED BY <1>1, <1>2, <1>3 DEF IInv

(* Every step of a thread but those on the counts.                         *)
LEMMA BeginIInv ==
  ASSUME IInv, NEW t \in Threads, NEW s \in Strings, NEW src \in Strings \cup {Null},
         NEW x \in Tokens \cup {Null}, NEW o \in Ops, NEW loc \in {"release", "check"},
         Begin(t, s, src, x, o, loc),
         src # Null <=> o = "copy",
         src # Null => s # src /\ NotModified(src),
         o = "copy" => loc = "release",
         loc = "check" => o \in {"set", "replace"}
  PROVE  IInv'
<1> USE StringAssumption DEF IInv
<1>1. TypeOK'
  BY DEF TypeOK, Begin, Goto, chars, Loc
<1>2. CountsExact'
  BY SMTT(30) DEF CountsExact, Begin, chars
<1>3. Shape'
  BY SMTT(30) DEF Shape, ShapeOf, TypeOK, Begin, Goto, chars, NotModified, NotCopied, Holders
<1> QED BY <1>1, <1>2, <1>3

LEMMA ReleaseShape ==
  ASSUME IInv, NEW t \in Threads, ReleaseArray(t), del' = del,
         ptr' = ptr \/ ptr' = [ptr EXCEPT ![at[t]] = Null]
  PROVE  Shape'
<1> USE StringAssumption
<1>0. at[t] \in Strings /\ pc[t] = "release"
  BY DEF ReleaseArray, Shape, ShapeOf, TypeOK, IInv
<1>1. /\ \A x \in Holders : ptr'[x] \in {ptr[x], Null}
      /\ ptr'[at[t]] = Null
      /\ \A u \in Threads : ptr'[u] = ptr[u]
  BY <1>0, ZenonT(60) DEF TypeOK, IInv, Holders, ReleaseArray, RemoveRef, Decrement
<1>2. CASE op[t] = "copy"
  <2>1. pc' = [pc EXCEPT ![t] = "share"] /\ UNCHANGED <<at, from, tok, op, raw>>
    BY <1>2 DEF ReleaseArray, Goto, call
  <2> QED BY <1>0, <1>1, <1>2, <2>1, SMTT(30) DEF Shape, ShapeOf, TypeOK, IInv, NotModified, Holders
<1>3. CASE op[t] # "copy"
  <2>1. Done(t)
    BY <1>3 DEF ReleaseArray
  <2> QED BY <1>0, <1>1, <1>3, <2>1, SMTT(30) DEF Shape, ShapeOf, TypeOK, IInv, NotModified, Holders, Done, Goto
<1> QED BY <1>2, <1>3

LEMMA ReleaseIInv ==
  ASSUME IInv, NEW t \in Threads, ReleaseArray(t)
  PROVE  IInv'
<1> USE StringAssumption DEF IInv
<1> DEFINE s == at[t]
<1>0. s \in Strings /\ s \in Holders /\ pc[t] = "release" /\ s # Null
  BY DEF ReleaseArray, Shape, ShapeOf, TypeOK, Holders
<1>1. CASE ptr[s] = Null
  <2>1. UNCHANGED <<ptr, count, alive, mem>>
    BY <1>1 DEF ReleaseArray
  <2>2. del' = del
    BY SMTT(30) DEF ReleaseArray, Done, Shape, ShapeOf, TypeOK
  <2>3. TypeOK'
    <3>1. CASE op[t] = "copy"
      BY <1>0, <2>1, <3>1, ZenonT(60) DEF ReleaseArray, TypeOK, Goto, call, Loc
    <3>2. CASE op[t] # "copy"
      <4>1. PICK e \in SUBSET (Tokens \cup {Null}) :
              Done(t) /\ short' = [short EXCEPT ![s] = e] /\ text' = [text EXCEPT ![s] = e]
        BY <3>2 DEF ReleaseArray
      <4> QED BY <1>0, <2>1, <4>1, DoneTypeOK DEF TypeOK
    <3> QED BY <3>1, <3>2
  <2>4. CountsExact'
    BY <2>1, <2>2, SMTT(30) DEF CountsExact
  <2>5. Shape'
    BY <1>0, <2>1, <2>2, ReleaseShape
  <2> QED BY <2>3, <2>4, <2>5
<1>2. CASE ptr[s] # Null
  <2> DEFINE b == ptr[s]
  <2>0. b \in Buffers
    BY <1>0, <1>2 DEF TypeOK
  <2>1. /\ ptr' = [ptr EXCEPT ![s] = Null]
        /\ count' = [count EXCEPT ![b] = @ - 1]
        /\ alive' = IF count[b] = 1 THEN alive \ {b} ELSE alive
        /\ mem' = IF count[b] = 1 THEN [mem EXCEPT ![b] = {Null}] ELSE mem
    BY <1>2 DEF ReleaseArray, RemoveRef, Decrement
  <2>2. del' = del /\ \A u \in Threads : del[u] # b
    BY <1>0, <1>2, SMTT(30) DEF ReleaseArray, Done, Shape, ShapeOf, TypeOK
  <2>3. TypeOK'
    <3>1. CASE op[t] = "copy"
      BY <1>0, <2>0, <2>1, <3>1, SMTT(30) DEF ReleaseArray, TypeOK, Goto, call, Loc
    <3>2. CASE op[t] # "copy"
      <4>1. PICK e \in SUBSET (Tokens \cup {Null}) :
              Done(t) /\ short' = [short EXCEPT ![s] = e] /\ text' = [text EXCEPT ![s] = e]
        BY <3>2 DEF ReleaseArray
      <4>2. ptr' \in [Holders -> Buffers \cup {Null}] /\ count' \in [Buffers -> Int]
            /\ alive' \subseteq Buffers /\ mem' \in [Buffers -> SUBSET (Tokens \cup {Null})]
        BY <1>0, <2>0, <2>1, SMTT(30) DEF TypeOK
      <4> QED BY <1>0, <4>1, <4>2, DoneTypeOK DEF TypeOK
    <3> QED BY <3>1, <3>2
  <2>4. CountsExact'
    <3> SUFFICES ASSUME NEW c \in Buffers
                 PROVE  /\ count'[c] = Cardinality(Uses(ptr', c))
                        /\ c \in alive' <=> \/ \E x \in Holders : ptr'[x] = c
                                            \/ \E u \in Threads : del'[u] = c
      BY DEF CountsExact, Uses
    <3>1. count[c] = Cardinality(Uses(ptr, c))
      BY DEF CountsExact, Uses
    <3>2. ptr \in Maps
      BY DEF TypeOK, Maps
    <3>3. /\ c = b => Cardinality(Uses(ptr', c)) = Cardinality(Uses(ptr, c)) - 1
          /\ c # b => Uses(ptr', c) = Uses(ptr, c)
      BY <1>0, <1>2, <2>1, <3>2, Dropping
    <3>4. count'[c] = Cardinality(Uses(ptr', c))
      BY <2>0, <2>1, <3>1, <3>3 DEF TypeOK
    <3>5. CASE c = b
      <4>1. c \in alive
        BY <1>0, <3>5 DEF CountsExact
      <4>2. c \in alive' <=> count'[c] # 0
        BY <2>0, <2>1, <3>5, <4>1, SMTT(30) DEF TypeOK
      <4> QED BY <2>2, <3>4, <3>5, <4>2, UsesEmpty, ZenonT(60)
    <3>6. CASE c # b
      <4>1. c \in alive' <=> c \in alive
        BY <2>1, <3>6
      <4>2. (\E x \in Holders : ptr'[x] = c) <=> (\E x \in Holders : ptr[x] = c)
        BY <3>3, <3>6 DEF Uses
      <4> QED BY <2>2, <3>4, <4>1, <4>2 DEF CountsExact
    <3> QED BY <3>5, <3>6
  <2>5. Shape'
    BY <1>0, <2>1, <2>2, ReleaseShape
  <2> QED BY <2>3, <2>4, <2>5
<1> QED BY <1>1, <1>2

LEMMA ShareIInv ==
  ASSUME IInv, NEW t \in Threads, Share(t)
  PROVE  IInv'
<1> USE StringAssumption DEF IInv
<1> DEFINE s == at[t]  b == ptr[from[t]]
<1>0. /\ s \in Strings /\ s \in Holders /\ ptr[s] = Null /\ pc[t] = "share"
      /\ from[t] \in Strings /\ from[t] \in Holders /\ op[t] = "copy"
  BY DEF Share, Shape, ShapeOf, TypeOK, Holders
<1>1. CASE b = Null
  <2>1. UNCHANGED <<ptr, count, alive, mem, del>>
    BY <1>0, <1>1, SMTT(30) DEF Share, Done, Shape, ShapeOf, TypeOK
  <2>2. TypeOK'
    BY <1>0, <1>1, <2>1, SMTT(30) DEF Share, TypeOK, Goto, Done, Loc
  <2>3. CountsExact'
    BY <2>1, SMTT(30) DEF CountsExact
  <2>4. Shape'
    BY <1>0, <2>1, SMTT(30) DEF Share, Shape, ShapeOf, TypeOK, Goto, Done, NotModified, Holders
  <2> QED BY <2>2, <2>3, <2>4
<1>2. CASE b # Null
  <2>0. b \in Buffers
    BY <1>0, <1>2 DEF TypeOK
  <2>1. /\ ptr' = [ptr EXCEPT ![s] = b]
        /\ count' = [count EXCEPT ![b] = @ + 1]
        /\ UNCHANGED <<alive, mem, short, del>>
        /\ \A u \in Threads : del[u] # b
    BY <1>0, <1>2, SMTT(30) DEF Share, Done, Shape, ShapeOf, TypeOK
  <2>2. TypeOK'
    BY <1>0, <2>0, <2>1, SMTT(30) DEF Share, TypeOK, Goto, Done, Loc
  <2>3. CountsExact'
    <3> SUFFICES ASSUME NEW c \in Buffers
                 PROVE  /\ count'[c] = Cardinality(Uses(ptr', c))
                        /\ c \in alive' <=> \/ \E x \in Holders : ptr'[x] = c
                                            \/ \E u \in Threads : del'[u] = c
      BY DEF CountsExact, Uses
    <3>1. ptr \in Maps
      BY DEF TypeOK, Maps
    <3>2. /\ c = b => Cardinality(Uses(ptr', c)) = Cardinality(Uses(ptr, c)) + 1
          /\ c # b => Uses(ptr', c) = Uses(ptr, c)
      <4> HIDE DEF IInv
      <4>1. \A d \in Buffers :
              /\ d = b => Cardinality(Uses([ptr EXCEPT ![s] = b], d)) = Cardinality(Uses(ptr, d)) + 1
              /\ d # b => Uses([ptr EXCEPT ![s] = b], d) = Uses(ptr, d)
        BY <1>0, <2>0, <3>1, Taking, SMTT(30)
      <4> QED BY <2>1, <4>1
    <3>3. count'[c] = Cardinality(Uses(ptr', c))
      BY <2>0, <2>1, <3>2 DEF TypeOK, CountsExact, Uses
    <3>4. (\E x \in Holders : ptr'[x] = c) <=> (\E x \in Holders : ptr[x] = c)
      BY <1>0, <2>1, <3>2 DEF Uses, TypeOK
    <3> QED BY <2>1, <3>3, <3>4 DEF CountsExact
  <2>4. Shape'
    <3>1. \A u \in Threads : ptr'[u] = ptr[u]
      BY <1>0, <2>1 DEF TypeOK, Holders
    <3>2. \A x \in Holders : ptr'[x] \in {ptr[x], b}
      BY <1>0, <2>1 DEF TypeOK
    <3>3. Done(t)
      BY DEF Share
    <3>4. \A u \in Threads : u # t /\ at[u] # Null => ptr'[at[u]] = ptr[at[u]]
      BY <1>0, <2>1, SMTT(30) DEF Shape, ShapeOf, TypeOK, Holders
    <3> QED BY <1>0, <2>1, <3>1, <3>2, <3>3, <3>4, SMTT(30) DEF Shape, ShapeOf, TypeOK, Goto, Done, NotModified, Holders
  <2> QED BY <2>2, <2>3, <2>4
<1> QED BY <1>1, <1>2

LEMMA CheckIInv ==
  ASSUME IInv, NEW t \in Threads, Check(t)
  PROVE  IInv'
<1> USE StringAssumption DEF IInv
<1>0. pc[t] = "check" /\ at[t] # Null /\ UNCHANGED chars /\ del' = del
  BY SMTT(30) DEF Check, Done, Shape, ShapeOf, TypeOK
<1>1. CountsExact'
  BY <1>0, SMTT(30) DEF CountsExact, chars
<1>2. CASE Done(t)
  <2>1. TypeOK'
    BY <1>0, <1>2, ZenonT(60) DEF Check, TypeOK, Goto, Done, Loc, chars
  <2>2. Shape'
    BY <1>0, <1>2, SMTT(30) DEF Shape, ShapeOf, TypeOK, Goto, Done, NotModified, chars
  <2> QED BY <1>1, <2>1, <2>2
<1>3. CASE (pc' = [pc EXCEPT ![t] = "allocate"] \/ pc' = [pc EXCEPT ![t] = "write"]) /\ UNCHANGED <<call, raw>>
  <2>1. TypeOK'
    BY <1>0, <1>3 DEF Check, TypeOK, Loc, chars, call
  <2>2. Shape'
    BY <1>0, <1>3, SMTT(30) DEF Shape, ShapeOf, TypeOK, NotModified, chars, call
  <2> QED BY <1>1, <2>1, <2>2
<1> QED BY <1>2, <1>3 DEF Check, Goto

(* The old array of the string passes to the thread: as many users.        *)
LEMMA Passing ==
  ASSUME NEW p \in Maps, NEW s \in Strings, NEW t \in Threads, p[t] = Null, p[s] # Null
  PROVE  LET q == [p EXCEPT ![s] = Null, ![t] = p[s]] IN
         /\ q \in Maps
         /\ \A c \in Buffers : Cardinality(Uses(q, c)) = Cardinality(Uses(p, c))
<1> DEFINE q == [p EXCEPT ![s] = Null, ![t] = p[s]]  r == [p EXCEPT ![s] = Null]
<1>0. s \in Holders /\ t \in Holders /\ s # t /\ p[s] \in Buffers
  BY StringAssumption DEF Holders, Maps
<1>1. r \in Maps /\ r[t] = Null
  BY <1>0 DEF Maps
<1>2. q = [r EXCEPT ![t] = p[s]]
  BY <1>0 DEF Maps
<1>3. q \in Maps
  BY <1>0 DEF Maps
<1>4. ASSUME NEW c \in Buffers
      PROVE  Cardinality(Uses(q, c)) = Cardinality(Uses(p, c))
  <2>1. /\ c = p[s] => Cardinality(Uses(r, c)) = Cardinality(Uses(p, c)) - 1
        /\ c # p[s] => Uses(r, c) = Uses(p, c)
    BY <1>0, Dropping
  <2>2. /\ c = p[s] => Cardinality(Uses([r EXCEPT ![t] = p[s]], c)) = Cardinality(Uses(r, c)) + 1
        /\ c # p[s] => Uses([r EXCEPT ![t] = p[s]], c) = Uses(r, c)
    <3> HIDE DEF r
    <3> QED BY <1>0, <1>1, Taking
  <2>3. Cardinality(Uses(p, c)) \in Nat /\ Cardinality(Uses(r, c)) \in Nat
    BY UsesFinite
  <2> HIDE DEF q, r
  <2> QED BY <1>2, <2>1, <2>2, <2>3
<1> QED BY <1>3, <1>4

LEMMA AllocateIInv ==
  ASSUME IInv, NEW t \in Threads, Allocate(t)
  PROVE  IInv'
<1> USE StringAssumption DEF IInv
<1> DEFINE s == at[t]
<1>0. /\ s \in Strings /\ s \in Holders /\ t \in Holders /\ s # t
      /\ pc[t] = "allocate" /\ ptr[t] = Null /\ op[t] \in {"set", "replace"} /\ ptr \in Maps
  BY ZenonT(60) DEF Allocate, Shape, ShapeOf, TypeOK, Holders, Maps
<1>1. CASE Goto(t, "release") /\ UNCHANGED <<chars, text, call, raw, del>>
  <2>1. TypeOK'
    BY <1>1 DEF TypeOK, Goto, Loc, chars, call
  <2>2. CountsExact'
    BY <1>1, SMTT(30) DEF CountsExact, chars
  <2>3. Shape'
    BY <1>0, <1>1, ZenonT(60) DEF Shape, ShapeOf, TypeOK, Goto, chars, call, NotModified
  <2> QED BY <2>1, <2>2, <2>3
<1>2. CASE /\ ptr[s] # Null
           /\ ptr' = [ptr EXCEPT ![s] = Null, ![t] = ptr[s]]
           /\ short' = [short EXCEPT ![s] = {Null}]
           /\ Allocated(t, s)
           /\ UNCHANGED <<count, alive, mem>>
  <2>1. TypeOK'
    BY <1>0, <1>2 DEF TypeOK, Allocated, Goto, Loc, call
  <2>2. CountsExact'
    <3>1. \A c \in Buffers : Cardinality(Uses(ptr', c)) = Cardinality(Uses(ptr, c))
      <4> HIDE DEF IInv
      <4>0. ptr[s] # Null
        BY <1>2
      <4>1. \A c \in Buffers : Cardinality(Uses([ptr EXCEPT ![s] = Null, ![t] = ptr[s]], c))
                                 = Cardinality(Uses(ptr, c))
        BY <1>0, <4>0, Passing, ZenonT(60)
      <4> QED BY <1>2, <4>1
    <3>2. \A c \in Buffers : (\E x \in Holders : ptr'[x] = c) <=> (\E x \in Holders : ptr[x] = c)
      BY <3>1, UsesEmpty
    <3>3. UNCHANGED <<count, alive, del>>
      BY <1>2 DEF Allocated
    <3>4. \A c \in Buffers : count'[c] = Cardinality(Uses(ptr', c))
      BY <3>1, <3>3 DEF CountsExact, Uses
    <3> QED BY <3>2, <3>3, <3>4 DEF CountsExact, Uses
  <2>3. Shape'
    BY <1>0, <1>2, SMTT(30) DEF Shape, ShapeOf, TypeOK, Allocated, Goto, call, NotModified, Holders
  <2> QED BY <2>1, <2>2, <2>3
<1>3. ASSUME NEW b \in Buffers \ alive,
             ptr' = [ptr EXCEPT ![s] = b, ![t] = ptr[s]],
             count' = [count EXCEPT ![b] = 1],
             alive' = alive \cup {b},
             Allocated(t, s),
             UNCHANGED <<mem, short>>
      PROVE  IInv'
  <2>1. TypeOK'
    BY <1>0, <1>3, SMTT(30) DEF TypeOK, Allocated, Goto, Loc, call
  <2>2. /\ \A x \in Holders : ptr[x] # b
        /\ \A u \in Threads : del[u] # b
        /\ b # Null /\ Cardinality(Uses(ptr, b)) = 0
    BY UsesEmpty DEF CountsExact
  <2> DEFINE q == [ptr EXCEPT ![s] = Null, ![t] = ptr[s]]
  <2>3. q \in Maps /\ q[s] = Null /\ ptr' = [q EXCEPT ![s] = b]
    BY <1>0, <1>3 DEF Maps
  <2>4. \A c \in Buffers : Cardinality(Uses(q, c)) = Cardinality(Uses(ptr, c))
    <3>1. CASE ptr[s] = Null
      <4>1. q = ptr
        BY <1>0, <3>1 DEF Maps
      <4> QED BY <4>1
    <3>2. CASE ptr[s] # Null
      <4> HIDE DEF IInv
      <4> QED BY <1>0, <3>2, Passing, ZenonT(60)
    <3> QED BY <3>1, <3>2
  <2>5. \A c \in Buffers :
          /\ c = b => Cardinality(Uses(ptr', c)) = Cardinality(Uses(q, c)) + 1
          /\ c # b => Uses(ptr', c) = Uses(q, c)
    <3> HIDE DEF IInv, q
    <3>0. q \in Maps /\ q[s] = Null
      BY <2>3
    <3>1. \A c \in Buffers :
            /\ c = b => Cardinality(Uses([q EXCEPT ![s] = b], c)) = Cardinality(Uses(q, c)) + 1
            /\ c # b => Uses([q EXCEPT ![s] = b], c) = Uses(q, c)
      BY <1>0, <3>0, Taking, SMTT(30)
    <3> QED BY <2>3, <3>1
  <2>6. CountsExact'
    <3> SUFFICES ASSUME NEW c \in Buffers
                 PROVE  /\ count'[c] = Cardinality(Uses(ptr', c))
                        /\ c \in alive' <=> \/ \E x \in Holders : ptr'[x] = c
                                            \/ \E u \in Threads : del'[u] = c
      BY DEF CountsExact, Uses
    <3> HIDE DEF q
    <3>1. count[c] = Cardinality(Uses(ptr, c))
      BY DEF CountsExact, Uses
    <3>2. count'[c] = Cardinality(Uses(ptr', c))
      <4>1. CASE c = b
        <5>1. Cardinality(Uses(ptr', b)) = 0 + 1
          BY <2>2, <2>4, <2>5
        <5>2. count'[b] = 1
          BY <1>3 DEF TypeOK
        <5> QED BY <4>1, <5>1, <5>2, SMTT(30)
      <4>2. CASE c # b
        BY <1>3, <2>4, <2>5, <3>1, <4>2 DEF TypeOK
      <4> QED BY <4>1, <4>2
    <3>3. CASE c = b
      BY <1>3, <2>3, <1>0, <3>2, <3>3 DEF Maps
    <3>4. CASE c # b
      <4>1. (\E x \in Holders : ptr'[x] = c) <=> (\E x \in Holders : ptr[x] = c)
        BY <2>4, <2>5, <3>4, UsesEmpty, SMTT(30)
      <4> QED BY <1>3, <3>2, <3>4, <4>1 DEF CountsExact, Allocated
    <3> QED BY <3>3, <3>4
  <2>7. Shape'
    BY <1>0, <1>3, <2>2, SMTT(30) DEF Shape, ShapeOf, TypeOK, Allocated, Goto, call, NotModified, Holders
  <2> QED BY <2>1, <2>6, <2>7
<1> QED BY <1>1, <1>2, <1>3 DEF Allocate

LEMMA DropIInv ==
  ASSUME IInv, NEW t \in Threads, Drop(t)
  PROVE  IInv'
<1> USE StringAssumption DEF IInv
<1> DEFINE b == ptr[t]
<1>0. /\ t \in Holders /\ t \notin Strings /\ pc[t] = "drop" /\ op[t] \in {"set", "replace"}
      /\ at[t] # Null /\ del[t] = Null /\ ptr \in Maps
      /\ pc' = [pc EXCEPT ![t] = IF op[t] = "replace" THEN "copy" ELSE "write"]
      /\ UNCHANGED <<short, text, call, raw>>
  BY DEF Drop, Shape, ShapeOf, TypeOK, Holders, Maps, Goto
<1>1. CASE b = Null
  <2>1. UNCHANGED <<ptr, count, alive, mem, del>>
    BY <1>1 DEF Drop
  <2>2. TypeOK'
    BY <1>0, <2>1 DEF TypeOK, Loc, call
  <2>3. CountsExact'
    BY <2>1 DEF CountsExact
  <2>4. Shape'
    BY <1>0, <1>1, <2>1, ZenonT(60) DEF Shape, ShapeOf, TypeOK, call, NotModified
  <2> QED BY <2>2, <2>3, <2>4
<1>2. CASE b # Null
  <2>0. b \in Buffers /\ \A u \in Threads : del[u] # b
    BY <1>0, <1>2, ZenonT(60) DEF TypeOK, Shape, ShapeOf
  <2>1. /\ ptr' = [ptr EXCEPT ![t] = Null]
        /\ count' = [count EXCEPT ![b] = @ - 1]
    BY <1>2 DEF Drop, RemoveRef, Decrement
  <2>2. \/ /\ op[t] = "set" /\ del' = del
           /\ alive' = IF count[b] = 1 THEN alive \ {b} ELSE alive
           /\ mem' = IF count[b] = 1 THEN [mem EXCEPT ![b] = {Null}] ELSE mem
        \/ /\ op[t] = "replace" /\ UNCHANGED <<alive, mem>>
           /\ del' = [del EXCEPT ![t] = IF count[b] = 1 THEN b ELSE Null]
    BY <1>2 DEF Drop, RemoveRef
  <2>3. TypeOK'
    <3>0. ptr' \in [Holders -> Buffers \cup {Null}]
      BY <1>0, <2>1 DEF TypeOK
    <3>1. count' \in [Buffers -> Int]
      BY <2>0, <2>1, SMTT(30) DEF TypeOK
    <3>2. /\ alive' \subseteq Buffers /\ mem' \in [Buffers -> SUBSET (Tokens \cup {Null})]
          /\ del' \in [Threads -> Buffers \cup {Null}]
      BY <2>0, <2>2, SMTT(30) DEF TypeOK
    <3> QED BY <1>0, <3>0, <3>1, <3>2 DEF TypeOK, Loc, call
  <2>4. \A c \in Buffers :
          /\ c = b => Cardinality(Uses(ptr', c)) = Cardinality(Uses(ptr, c)) - 1
          /\ c # b => Uses(ptr', c) = Uses(ptr, c)
    <3> HIDE DEF IInv
    <3>1. \A c \in Buffers :
            /\ c = b => Cardinality(Uses([ptr EXCEPT ![t] = Null], c)) = Cardinality(Uses(ptr, c)) - 1
            /\ c # b => Uses([ptr EXCEPT ![t] = Null], c) = Uses(ptr, c)
      BY <1>0, <1>2, Dropping
    <3> QED BY <2>1, <3>1
  <2>5. \A c \in Buffers : count'[c] = Cardinality(Uses(ptr', c))
    <3>1. \A c \in Buffers : count[c] = Cardinality(Uses(ptr, c))
      BY DEF CountsExact, Uses
    <3>2. \A c \in Buffers : count'[c] = IF c = b THEN count[c] - 1 ELSE count[c]
      BY <2>0, <2>1 DEF TypeOK
    <3> HIDE DEF IInv
    <3> QED BY <2>4, <3>1, <3>2
  <2>6. (\E x \in Holders : ptr'[x] = b) <=> count[b] # 1
    <3>1. count'[b] = count[b] - 1 /\ count[b] \in Int
      BY <2>0, <2>1 DEF TypeOK
    <3> QED BY <2>0, <2>5, <3>1, UsesEmpty, SMTT(30)
  <2>7. CountsExact'
    <3> SUFFICES ASSUME NEW c \in Buffers
                 PROVE  c \in alive' <=> \/ \E x \in Holders : ptr'[x] = c
                                         \/ \E u \in Threads : del'[u] = c
      BY <2>5 DEF CountsExact, Uses
    <3>1. b \in alive
      BY <1>0, <2>0 DEF CountsExact
    <3>2. CASE c = b
      BY <1>0, <2>0, <2>2, <2>6, <3>1, <3>2 DEF TypeOK
    <3>3. CASE c # b
      <4>1. (\E x \in Holders : ptr'[x] = c) <=> (\E x \in Holders : ptr[x] = c)
        BY <2>4, <3>3 DEF Uses
      <4>2. (\E u \in Threads : del'[u] = c) <=> (\E u \in Threads : del[u] = c)
        BY <1>0, <2>2, <3>3, ZenonT(60) DEF TypeOK
      <4>3. c \in alive' <=> c \in alive
        BY <2>2, <3>3
      <4> QED BY <4>1, <4>2, <4>3 DEF CountsExact
    <3> QED BY <3>2, <3>3
  <2>8. Shape'
    <3>1. \A x \in Holders : ptr'[x] = IF x = t THEN Null ELSE ptr[x]
      BY <1>0, <2>1 DEF TypeOK
    <3>2. CASE op[t] = "set"
      BY <1>0, <2>2, <3>1, <3>2, SMTT(30) DEF Shape, ShapeOf, TypeOK, call, NotModified, Holders
    <3>3. CASE op[t] = "replace"
      <4>1. \A u \in Threads : del'[u] = IF u = t THEN (IF count[b] = 1 THEN b ELSE Null) ELSE del[u]
        BY <2>2, <3>3 DEF TypeOK
      <4>2. \A u \in Threads : del'[u] # Null => \A x \in Holders : ptr'[x] # del'[u]
        BY <2>6, <3>1, <4>1, SMTT(30) DEF Shape, ShapeOf
      <4> QED BY <1>0, <2>0, <3>1, <3>3, <4>1, <4>2, SMTT(30) DEF Shape, ShapeOf, TypeOK, call, NotModified, Holders
    <3> QED BY <1>0, <3>2, <3>3
  <2> QED BY <2>3, <2>7, <2>8
<1> QED BY <1>1, <1>2

LEMMA CopyIInv ==
  ASSUME IInv, NEW t \in Threads, CopyOld(t)
  PROVE  IInv'
<1> USE StringAssumption DEF IInv
<1> DEFINE s == at[t]
           old == IF raw[t] = Null THEN short[s] ELSE mem[raw[t]]
<1>0. /\ s \in Strings /\ s \in Holders /\ pc[t] = "copy" /\ UNCHANGED <<ptr, count>>
      /\ old \in SUBSET (Tokens \cup {Null})
  BY DEF CopyOld, Shape, ShapeOf, TypeOK, Holders
<1>1. CASE op[t] = "set"
  <2>1. Put(s, old, Null) /\ Goto(t, "drop") /\ UNCHANGED <<alive, text, call, raw, del>>
    BY <1>1 DEF CopyOld
  <2>2. TypeOK'
    BY <1>0, <2>1 DEF TypeOK, Put, Goto, Loc, call
  <2>3. CountsExact'
    BY <1>0, <2>1, SameCounts
  <2>4. Shape'
    BY <1>0, <1>1, <2>1, ZenonT(60) DEF Shape, ShapeOf, TypeOK, Goto, call, NotModified
  <2> QED BY <2>2, <2>3, <2>4
<1>2. CASE op[t] = "replace"
  <2>1. /\ Put(s, old \cup {tok[t]}, del[t])
        /\ alive' = alive \ {del[t]}
        /\ text' = [text EXCEPT ![s] = @ \cup {tok[t]}]
        /\ Done(t)
    BY <1>2 DEF CopyOld
  <2>2. TypeOK'
    BY <1>0, <2>1, SMTT(30) DEF TypeOK, Put, Done, Goto, Loc
  <2>3. CountsExact'
    <3>1. \A u \in Threads : del'[u] = IF u = t THEN Null ELSE del[u]
      BY <2>1 DEF Done, TypeOK
    <3>2. del[t] # Null => \A u \in Threads : del[u] = del[t] => u = t
      BY DEF Shape, ShapeOf
    <3>3. del[t] # Null => \A x \in Holders : ptr[x] # del[t]
      BY DEF Shape, ShapeOf
    <3>4. ASSUME NEW c \in Buffers
          PROVE  c \in alive' <=> \/ \E x \in Holders : ptr'[x] = c
                                 \/ \E u \in Threads : del'[u] = c
      <4>1. c \in alive <=> (\E x \in Holders : ptr[x] = c) \/ (\E u \in Threads : del[u] = c)
        BY DEF CountsExact
      <4>2. c # Null /\ (c \in alive' <=> c \in alive /\ c # del[t])
        BY <2>1
      <4> HIDE DEF IInv
      <4>3. CASE c = del[t]
        BY <1>0, <3>1, <3>2, <3>3, <4>2, <4>3
      <4>4. CASE c # del[t]
        BY <1>0, <3>1, <4>1, <4>2, <4>4
      <4> QED BY <4>3, <4>4
    <3>5. \A c \in Buffers : count'[c] = Cardinality({x \in Holders : ptr'[x] = c})
      BY <1>0, SMTT(30) DEF CountsExact
    <3> HIDE DEF IInv
    <3> QED BY <3>4, <3>5 DEF CountsExact
  <2>4. Shape'
    <3> SUFFICES ASSUME NEW u \in Threads PROVE ShapeOf(u)'
      BY DEF Shape
    <3>1. /\ UNCHANGED ptr
          /\ \A w \in Threads : w # t => /\ pc'[w] = pc[w] /\ at'[w] = at[w] /\ from'[w] = from[w]
                                       /\ op'[w] = op[w] /\ raw'[w] = raw[w] /\ del'[w] = del[w]
          /\ pc'[t] = "idle" /\ at'[t] = Null /\ from'[t] = Null /\ op'[t] = Null /\ del'[t] = Null
      BY <1>0, <2>1 DEF TypeOK, Done, Goto
    <3>2. ptr[t] = Null /\ ShapeOf(u)
      BY <1>0, <1>2 DEF Shape, ShapeOf
    <3> HIDE DEF IInv
    <3>3. CASE u = t
      BY <3>1, <3>2, <3>3 DEF ShapeOf
    <3>4. CASE u # t
      BY <3>1, <3>2, <3>4, ZenonT(60) DEF ShapeOf, NotModified
    <3> QED BY <3>3, <3>4
  <2> QED BY <2>2, <2>3, <2>4
<1> QED BY <1>1, <1>2 DEF CopyOld

LEMMA WriteIInv ==
  ASSUME IInv, NEW t \in Threads, Write(t)
  PROVE  IInv'
<1> USE StringAssumption DEF IInv
<1> DEFINE s == at[t]
<1>0. /\ s \in Strings /\ s \in Holders /\ pc[t] = "write" /\ UNCHANGED <<ptr, count, alive>>
      /\ Content(s) \in SUBSET (Tokens \cup {Null}) /\ del' = del
  <2>1. pc[t] = "write" /\ UNCHANGED <<ptr, count, alive>> /\ del' = [del EXCEPT ![t] = Null]
    BY DEF Write, Done
  <2>2. s \in Strings /\ s \in Holders
    BY <2>1, Working
  <2>3. Content(s) \in SUBSET (Tokens \cup {Null})
    BY <2>2 DEF TypeOK, Content
  <2>4. del' = del
    BY <2>1, NothingDeleted
  <2> QED BY <2>1, <2>2, <2>3, <2>4
<1>1. TypeOK'
  BY <1>0, SMTT(30) DEF Write, TypeOK, Put, Done, Goto, Loc
<1>2. CountsExact'
  BY <1>0, SameCounts
<1>3. Shape'
  BY <1>0, SMTT(30) DEF Write, Shape, ShapeOf, TypeOK, Done, Goto, NotModified
<1> QED BY <1>1, <1>2, <1>3

LEMMA StutterIInv == IInv /\ UNCHANGED vars => IInv'
<1> SUFFICES ASSUME IInv, UNCHANGED vars PROVE IInv'
  OBVIOUS
<1>1. TypeOK'
  BY DEF IInv, TypeOK, vars, chars, call
<1>2. CountsExact'
  BY DEF IInv, CountsExact, vars, chars
<1>3. Shape'
  BY DEF IInv, Shape, ShapeOf, NotModified, vars, chars, call
<1> QED BY <1>1, <1>2, <1>3 DEF IInv

LEMMA NextIInv == IInv /\ [Next]_vars => IInv'
<1> SUFFICES ASSUME IInv, NEW t \in Threads, Step(t) PROVE IInv'
  BY StutterIInv DEF Next
<1>1. ASSUME NEW s \in Strings, NEW src \in Strings, Copy(t, s, src) PROVE IInv'
  <2>1. "copy" \in Ops
    BY <1>1 DEF Copy, Begin
  <2> QED BY <1>1, <2>1, BeginIInv, StringAssumption DEF Copy
<1>2. ASSUME NEW s \in Strings, Destroy(t, s) PROVE IInv'
  <2>1. "destroy" \in Ops
    BY <1>2 DEF Destroy, Begin
  <2> QED BY <1>2, <2>1, BeginIInv, StringAssumption DEF Destroy
<1>3. ASSUME NEW s \in Strings, NEW x \in Tokens, NEW o \in Ops, Set(t, s, x, o) PROVE IInv'
  BY <1>3, BeginIInv, StringAssumption DEF Set
<1> QED BY <1>1, <1>2, <1>3, ReleaseIInv, ShareIInv, CheckIInv, AllocateIInv, DropIInv, CopyIInv, WriteIInv
        DEF Step

(* The counts of the buffers are exact for any number of threads, strings  *)
(* and buffers, doReplace included: no interleaving of the atomic steps of *)
(* addRef, removeRef and cloneArrayIfNeeded loses one, so no buffer that a *)
(* string uses is freed and none is leaked.                                *)
THEOREM CountsAlwaysExact == Spec => []CountsExact
<1>1. IInv => CountsExact
  BY DEF IInv
<1> QED BY <1>1, InitIInv, NextIInv, PTL DEF Spec

-----------------------------------------------------------------------------
(* Strings are values.  What a thread finds in its string at each step,    *)
(* and that it is alone with the buffer it writes to.                      *)
VInv == IInv /\ Values /\ ValueSemantics

LEMMA Sole ==
  ASSUME IInv, NEW x \in Holders, ptr[x] # Null, ~(count[ptr[x]] > 1)
  PROVE  \A y \in Holders : ptr[y] = ptr[x] => y = x
<1> SUFFICES ASSUME NEW y \in Holders, ptr[y] = ptr[x], y # x PROVE FALSE
  OBVIOUS
<1> DEFINE U == Uses(ptr, ptr[x])
<1>1. ptr[x] \in Buffers
  BY DEF IInv, TypeOK
<1>2. count[ptr[x]] = Cardinality(U)
  BY <1>1 DEF IInv, CountsExact, Uses
<1>3. IsFiniteSet(U) /\ x \in U /\ y \in U
  BY UsesFinite DEF Uses
<1>4. /\ IsFiniteSet(U \ {x}) /\ Cardinality(U \ {x}) = Cardinality(U) - 1
      /\ IsFiniteSet((U \ {x}) \ {y}) /\ Cardinality((U \ {x}) \ {y}) = Cardinality(U \ {x}) - 1
  <2> HIDE DEF U
  <2>1. IsFiniteSet(U \ {x}) /\ Cardinality(U \ {x}) = Cardinality(U) - 1
    BY <1>3, FS_RemoveElement
  <2>2. y \in U \ {x}
    BY <1>3
  <2> QED BY <2>1, <2>2, FS_RemoveElement
<1>5. Cardinality((U \ {x}) \ {y}) \in Nat /\ Cardinality(U) \in Nat /\ Cardinality(U \ {x}) \in Nat
  BY <1>3, <1>4, FS_CardinalityType
<1> HIDE DEF U
<1>6. Cardinality(U) >= 2
  BY <1>4, <1>5
<1> QED BY <1>2, <1>5, <1>6

(* What the invariant says of a thread in the middle of a call.            *)
LEMMA AtOne ==
  ASSUME IInv, NEW t \in Threads, NEW u \in Threads, at[t] # Null, at[u] = at[t]
  PROVE  u = t
BY DEF IInv, Shape, ShapeOf

LEMMA BeginVInv ==
  ASSUME VInv, NEW t \in Threads, NEW s \in Strings, NEW src, NEW x, NEW o,
         NEW loc \in {"release", "check"}, Begin(t, s, src, x, o, loc)
  PROVE  Values' /\ ValueSemantics'
<1>1. NotModified(s)
  BY StringAssumption, ZenonT(60) DEF Begin, VInv, IInv, Shape, ShapeOf, NotModified
<1>2. Content(s) = text[s]
  BY <1>1 DEF VInv, ValueSemantics
<1>3. /\ UNCHANGED <<ptr, mem, short, text, raw>>
      /\ at' = [at EXCEPT ![t] = s] /\ pc' = [pc EXCEPT ![t] = loc] /\ at[t] = Null
  BY DEF Begin, chars, Goto, VInv, IInv, Shape, ShapeOf
<1>4. Values'
  BY <1>2, <1>3 DEF Values, ValuesOf, Content, VInv, IInv, TypeOK
<1>5. ValueSemantics'
  BY <1>3, StringAssumption DEF ValueSemantics, NotModified, Content, VInv, IInv, TypeOK
<1> QED BY <1>4, <1>5

(* Giving a buffer up: the characters change only if it was the last user. *)
LEMMA GivingUp ==
  ASSUME VInv, NEW x \in Holders, ptr[x] # Null, RemoveRef(x, ptr[x])
  PROVE  \A y \in Holders : y # x => ptr'[y] = ptr[y] /\ (ptr[y] # Null => mem'[ptr[y]] = mem[ptr[y]])
<1>1. \A y \in Holders : y # x => ptr'[y] = ptr[y]
  BY DEF RemoveRef, Decrement, VInv, IInv, TypeOK
<1>2. ASSUME NEW y \in Holders, y # x, ptr[y] # Null PROVE mem'[ptr[y]] = mem[ptr[y]]
  <2>1. CASE count[ptr[x]] = 1
    <3>1. ptr[y] # ptr[x]
      BY <1>2, <2>1, Sole, SMTT(30) DEF VInv
    <3> QED BY <1>2, <2>1, <3>1 DEF RemoveRef, VInv, IInv, TypeOK
  <2>2. CASE count[ptr[x]] # 1
    BY <2>2 DEF RemoveRef
  <2> QED BY <2>1, <2>2
<1> QED BY <1>1, <1>2

(* A step of thread t on its string s that changes no buffer that others   *)
(* use and takes none that is being written; and how it leaves s itself.   *)
OnlyOwn(t, s) ==
  /\ \A u \in Threads : u # t => pc'[u] = pc[u] /\ at'[u] = at[u] /\ raw'[u] = raw[u]
  /\ \A y \in Strings : y # s => short'[y] = short[y] /\ text'[y] = text[y]
  /\ \A y \in Holders : y \notin {s, t} =>
       ptr'[y] = ptr[y] /\ (ptr[y] # Null => mem'[ptr[y]] = mem[ptr[y]])
  /\ \A u \in Threads : u # t /\ at[u] # Null /\ pc[u] \in {"copy", "drop", "write"}
       => ptr[at[u]] = Null \/ (ptr'[s] # ptr[at[u]] /\ ptr'[t] # ptr[at[u]])

LeavesWell(t, s) ==
  \/ at'[t] = s /\ ValuesOf(t)'
  \/ at'[t] = Null /\ Content(s)' = text'[s]

(* Such a step leaves every string a value.                                *)
LEMMA Frame ==
  ASSUME VInv, "replace" \notin Ops, NEW t \in Threads, NEW s \in Strings, s = at[t],
         OnlyOwn(t, s), LeavesWell(t, s)
  PROVE  Values' /\ ValueSemantics'
<1> USE StringAssumption
<1>0. s \in Holders /\ t \in Holders /\ s # t /\ s # Null
  BY DEF Holders
<1>1. ASSUME NEW y \in Strings, y # s PROVE Content(y)' = Content(y) /\ text'[y] = text[y]
  <2>1. y \in Holders /\ y \notin {s, t}
    BY <1>1 DEF Holders
  <2>2. /\ ptr'[y] = ptr[y] /\ (ptr[y] # Null => mem'[ptr[y]] = mem[ptr[y]])
        /\ short'[y] = short[y] /\ text'[y] = text[y]
    BY <1>1, <2>1 DEF OnlyOwn
  <2> QED BY <2>2 DEF Content
<1>2. ASSUME NEW u \in Threads, u # t PROVE ValuesOf(u)'
  <2> SUFFICES ASSUME at[u] # Null PROVE ValuesOf(u)'
    BY <1>2 DEF ValuesOf, OnlyOwn
  <2>1. /\ at[u] \in Strings /\ at[u] # s /\ at[u] \in Holders /\ at[u] # t
        /\ u \in Holders /\ u \notin {s, t}
    BY <1>2, AtOne, SMTT(30) DEF VInv, IInv, TypeOK, Holders
  <2>2. /\ Content(at[u])' = Content(at[u]) /\ text'[at[u]] = text[at[u]]
        /\ pc'[u] = pc[u] /\ at'[u] = at[u] /\ raw'[u] = raw[u] /\ ptr'[at[u]] = ptr[at[u]]
        /\ short'[at[u]] = short[at[u]]
    BY <1>1, <1>2, <2>1 DEF OnlyOwn
  <2>3. pc[u] = "copy" /\ raw[u] # Null => mem'[raw[u]] = mem[raw[u]]
    <3> SUFFICES ASSUME pc[u] = "copy", raw[u] # Null PROVE mem'[raw[u]] = mem[raw[u]]
      OBVIOUS
    <3>1. op[u] = "set"
      BY SMTT(30) DEF VInv, IInv, Shape, ShapeOf, TypeOK
    <3>2. ptr[u] = raw[u]
      BY <3>1 DEF VInv, IInv, Shape, ShapeOf
    <3> QED BY <2>1, <3>2 DEF OnlyOwn
  <2>4. ValuesOf(u)
    BY DEF VInv, Values
  <2>5. ASSUME pc[u] \in {"copy", "drop", "write"}, ptr[at[u]] # Null,
               NEW x \in Holders, ptr'[x] = ptr[at[u]]
        PROVE  x = at[u]
    <3>1. x \notin {s, t}
      BY <1>2, <2>5 DEF OnlyOwn
    <3> QED BY <2>4, <2>5, <3>1 DEF ValuesOf, OnlyOwn
  <2> QED BY <2>2, <2>3, <2>4, <2>5 DEF ValuesOf, Content
<1>3. ValuesOf(t)'
  BY <1>0 DEF ValuesOf, LeavesWell
<1>4. ASSUME NEW y \in Strings, NotModified(y)' PROVE Content(y)' = text'[y]
  <2>1. CASE y = s
    <3>1. at'[t] = Null
      BY <1>4, <2>1 DEF NotModified, LeavesWell
    <3> QED BY <1>0, <2>1, <3>1 DEF LeavesWell
  <2>2. CASE y # s
    <3>1. NotModified(y)
      BY <1>4, <2>2 DEF NotModified, OnlyOwn
    <3> QED BY <1>1, <2>2, <3>1 DEF VInv, ValueSemantics
  <2> QED BY <2>1, <2>2
<1> QED BY <1>2, <1>3, <1>4 DEF Values, ValueSemantics

LEMMA ReleaseVInv ==
  ASSUME VInv, "replace" \notin Ops, NEW t \in Threads, ReleaseArray(t)
  PROVE  Values' /\ ValueSemantics'
<1> USE StringAssumption
<1>0. PICK s \in Strings : s = at[t] /\ pc[t] = "release" /\ s \in Holders
  <2>1. pc[t] = "release"
    BY DEF ReleaseArray
  <2> QED BY <2>1, Working DEF VInv, IInv
<1>1. \A y \in Holders : y # s => ptr'[y] = ptr[y] /\ (ptr[y] # Null => mem'[ptr[y]] = mem[ptr[y]])
  BY <1>0, GivingUp DEF ReleaseArray
<1>2. ptr'[s] = Null /\ ptr'[t] = Null
  <2>1. ptr[t] = Null /\ s # t /\ t \in Holders
    BY <1>0 DEF VInv, IInv, Shape, ShapeOf, Holders
  <2>2. ptr'[s] = Null
    BY <1>0, SMTT(30) DEF ReleaseArray, RemoveRef, Decrement, VInv, IInv, TypeOK
  <2> QED BY <1>1, <2>1, <2>2
<1>3. /\ \A u \in Threads : u # t => pc'[u] = pc[u] /\ at'[u] = at[u] /\ raw'[u] = raw[u]
      /\ \A y \in Strings : y # s => short'[y] = short[y] /\ text'[y] = text[y]
  BY <1>0, SMTT(30) DEF ReleaseArray, Done, Goto, call, VInv, IInv, TypeOK
<1>4. at'[t] = s => ValuesOf(t)'
  <2>1. at'[t] = s => pc'[t] = "share"
    BY <1>0, ZenonT(60) DEF ReleaseArray, Done, Goto, call, VInv, IInv, TypeOK
  <2> QED BY <2>1 DEF ValuesOf
<1>5. at'[t] = Null => Content(s)' = text'[s]
  <2>1. at'[t] = Null => short'[s] = text'[s]
    <3>1. CASE op[t] = "copy"
      BY <1>0, <3>1 DEF ReleaseArray, call
    <3>2. CASE op[t] # "copy"
      <4>1. PICK e : short' = [short EXCEPT ![s] = e] /\ text' = [text EXCEPT ![s] = e]
        BY <1>0, <3>2 DEF ReleaseArray
      <4> QED BY <4>1 DEF VInv, IInv, TypeOK
    <3> QED BY <3>1, <3>2
  <2> QED BY <1>2, <2>1 DEF Content
<1>6. at'[t] \in {s, Null}
  BY <1>0, ZenonT(60) DEF ReleaseArray, Done, call, VInv, IInv, TypeOK
<1>7. \A y \in Holders : y \notin {s, t} =>
         ptr'[y] = ptr[y] /\ (ptr[y] # Null => mem'[ptr[y]] = mem[ptr[y]])
  BY <1>1
<1>8. \A u \in Threads : u # t /\ at[u] # Null /\ pc[u] \in {"copy", "drop", "write"}
         => ptr[at[u]] = Null \/ (ptr'[s] # ptr[at[u]] /\ ptr'[t] # ptr[at[u]])
  BY <1>2
<1>9. OnlyOwn(t, s)
  BY <1>3, <1>7, <1>8 DEF OnlyOwn
<1>10. LeavesWell(t, s)
  BY <1>4, <1>5, <1>6 DEF LeavesWell
<1> QED BY <1>0, <1>9, <1>10, Frame

LEMMA ShareVInv ==
  ASSUME VInv, "replace" \notin Ops, NEW t \in Threads, Share(t)
  PROVE  Values' /\ ValueSemantics'
<1> USE StringAssumption
<1>0. PICK s \in Strings, src \in Strings :
         /\ s = at[t] /\ src = from[t] /\ s \in Holders /\ src \in Holders
         /\ pc[t] = "share" /\ ptr[s] = Null /\ ptr[t] = Null /\ NotModified(src) /\ s # src
  <2>1. pc[t] = "share"
    BY DEF Share
  <2>2. at[t] \in Strings /\ at[t] \in Holders
    BY <2>1, Working DEF VInv, IInv
  <2>3. /\ op[t] = "copy" /\ ptr[at[t]] = Null /\ ptr[t] = Null
        /\ from[t] # Null /\ NotModified(from[t])
    BY <2>1 DEF VInv, IInv, Shape, ShapeOf
  <2>4. from[t] \in Strings /\ from[t] \in Holders /\ at[t] # from[t]
    BY <2>3 DEF VInv, IInv, TypeOK, Holders, NotModified
  <2> QED BY <2>1, <2>2, <2>3, <2>4
<1>1. /\ \A u \in Threads : u # t => pc'[u] = pc[u] /\ at'[u] = at[u] /\ raw'[u] = raw[u]
      /\ \A y \in Strings : y # s => short'[y] = short[y] /\ text'[y] = text[y]
      /\ at'[t] = Null /\ mem' = mem /\ text'[s] = text[src]
  BY <1>0, ZenonT(60) DEF Share, Done, Goto, VInv, IInv, TypeOK
<1>2. /\ \A y \in Holders : y # s => ptr'[y] = ptr[y]
      /\ ptr'[s] = ptr[src] /\ ptr'[src] = ptr[src] /\ ptr'[t] = Null
  BY <1>0, ZenonT(60) DEF Share, VInv, IInv, TypeOK, Holders
<1>3. Content(s)' = text'[s]
  <2>1. Content(src) = text[src]
    BY <1>0 DEF VInv, ValueSemantics
  <2>2. Content(s)' = Content(src)
    <3>1. ptr[src] = Null => short'[s] = short[src]
      BY <1>0 DEF Share, VInv, IInv, TypeOK
    <3> QED BY <1>1, <1>2, <3>1 DEF Content
  <2> QED BY <1>1, <2>1, <2>2
<1>4. ASSUME NEW u \in Threads, u # t, at[u] # Null, pc[u] \in {"copy", "drop", "write"},
             ptr[at[u]] # Null
      PROVE  ptr'[s] # ptr[at[u]] /\ ptr'[t] # ptr[at[u]]
  <2>1. \A x \in Holders : ptr[x] = ptr[at[u]] => x = at[u]
    BY <1>4 DEF VInv, Values, ValuesOf
  <2> QED BY <1>0, <1>2, <1>4, <2>1 DEF NotModified
<1>5. \A y \in Holders : y \notin {s, t} =>
         ptr'[y] = ptr[y] /\ (ptr[y] # Null => mem'[ptr[y]] = mem[ptr[y]])
  BY <1>1, <1>2
<1>6. OnlyOwn(t, s)
  BY <1>1, <1>4, <1>5 DEF OnlyOwn
<1>7. LeavesWell(t, s)
  BY <1>1, <1>3 DEF LeavesWell
<1> QED BY <1>0, <1>6, <1>7, Frame

LEMMA CheckVInv ==
  ASSUME VInv, "replace" \notin Ops, NEW t \in Threads, Check(t)
  PROVE  Values' /\ ValueSemantics'
<1> USE StringAssumption
<1>0. PICK s \in Strings : s = at[t] /\ s \in Holders /\ pc[t] = "check" /\ ptr[t] = Null
  BY DEF Check, VInv, IInv, Shape, ShapeOf, TypeOK, Holders
<1>1. /\ \A u \in Threads : u # t => pc'[u] = pc[u] /\ at'[u] = at[u] /\ raw'[u] = raw[u]
      /\ UNCHANGED <<ptr, mem, short, text>> /\ at'[t] \in {s, Null}
  BY <1>0, ZenonT(60) DEF Check, Done, Goto, chars, call, VInv, IInv, TypeOK
<1>2. Content(s)' = text'[s]
  BY <1>0, <1>1 DEF VInv, Values, ValuesOf, Content
<1>3. at'[t] = s => ValuesOf(t)'
  <2> SUFFICES ASSUME at'[t] = s PROVE ValuesOf(t)'
    OBVIOUS
  <2>1. /\ pc'[t] \in {"allocate", "write"}
        /\ pc'[t] = "write" => ptr[s] = Null \/ ~(count[ptr[s]] > 1)
    BY <1>0, ZenonT(60) DEF Check, Done, Goto, VInv, IInv, TypeOK
  <2>2. pc'[t] = "write" /\ ptr[s] # Null => \A x \in Holders : ptr[x] = ptr[s] => x = s
    BY <1>0, <2>1, Sole DEF VInv
  <2> QED BY <1>1, <1>2, <2>1, <2>2 DEF ValuesOf
<1>4. ASSUME NEW u \in Threads, u # t, at[u] # Null, pc[u] \in {"copy", "drop", "write"},
             ptr[at[u]] # Null
      PROVE  ptr'[s] # ptr[at[u]] /\ ptr'[t] # ptr[at[u]]
  <2>1. \A x \in Holders : ptr[x] = ptr[at[u]] => x = at[u]
    BY <1>4 DEF VInv, Values, ValuesOf
  <2>2. at[u] # s
    BY <1>0, <1>4, AtOne DEF VInv
  <2> QED BY <1>0, <1>1, <1>4, <2>1, <2>2
<1>5. OnlyOwn(t, s)
  BY <1>1, <1>4 DEF OnlyOwn
<1>6. LeavesWell(t, s)
  BY <1>1, <1>2, <1>3 DEF LeavesWell
<1> QED BY <1>0, <1>5, <1>6, Frame

LEMMA AllocateVInv ==
  ASSUME VInv, "replace" \notin Ops, NEW t \in Threads, Allocate(t)
  PROVE  Values' /\ ValueSemantics'
<1> USE StringAssumption
<1>0. PICK s \in Strings :
         /\ s = at[t] /\ s \in Holders /\ t \in Holders /\ s # t /\ s # Null
         /\ pc[t] = "allocate" /\ ptr[t] = Null /\ op[t] = "set" /\ Content(s) = text[s]
  <2>1. pc[t] = "allocate"
    BY DEF Allocate
  <2>2. /\ at[t] \in Strings /\ at[t] \in Holders /\ t \in Holders /\ at[t] # t /\ at[t] # Null
    BY <2>1, Working DEF VInv, IInv
  <2>3. ptr[t] = Null /\ op[t] = "set"
    BY <2>1, SMTT(30) DEF VInv, IInv, Shape, ShapeOf, TypeOK
  <2>4. Content(at[t]) = text[at[t]]
    <3>1. ValuesOf(t)
      BY DEF VInv, Values
    <3> QED BY <2>1, <2>2, <3>1 DEF ValuesOf
  <2> QED BY <2>1, <2>2, <2>3, <2>4
<1>1. /\ \A u \in Threads : u # t => pc'[u] = pc[u] /\ at'[u] = at[u] /\ raw'[u] = raw[u]
      /\ UNCHANGED <<mem, text>> /\ at'[t] = s
      /\ \A y \in Strings : y # s => short'[y] = short[y]
  <2>1. TypeOK
    BY DEF VInv, IInv
  <2>2. UNCHANGED <<mem, text, at>>
    BY DEF Allocate, Allocated, chars, call
  <2>3. \A u \in Threads : u # t => pc'[u] = pc[u] /\ raw'[u] = raw[u]
    BY <2>1 DEF Allocate, Allocated, Goto, TypeOK
  <2>4. \A y \in Strings : y # s => short'[y] = short[y]
    BY <1>0, <2>1 DEF Allocate, chars, TypeOK
  <2> QED BY <1>0, <2>2, <2>3, <2>4
<1>2. \A y \in Holders : y \notin {s, t} => ptr'[y] = ptr[y]
  BY <1>0 DEF Allocate, chars, VInv, IInv, TypeOK
<1>3. ptr'[t] \in {Null, ptr[s]}
  BY <1>0 DEF Allocate, chars, VInv, IInv, TypeOK
<1>4. \/ ptr'[s] = ptr[s] /\ pc'[t] = "release"
      \/ /\ pc'[t] = "copy" /\ raw'[t] = ptr[s]
         /\ ptr'[s] = Null \/ \A x \in Holders : ptr'[x] = ptr'[s] => x = s
         /\ \A y \in Holders : ptr[y] # Null => ptr[y] # ptr'[s]
         /\ ptr[s] = Null => short' = short
  <2>1. CASE Goto(t, "release") /\ UNCHANGED chars
    BY <2>1 DEF Goto, chars, VInv, IInv, TypeOK
  <2>2. CASE /\ ptr[s] # Null
             /\ ptr' = [ptr EXCEPT ![s] = Null, ![t] = ptr[s]]
             /\ Allocated(t, s)
    BY <1>0, <2>2 DEF Allocated, Goto, VInv, IInv, TypeOK
  <2>3. ASSUME NEW b \in Buffers \ alive,
               ptr' = [ptr EXCEPT ![s] = b, ![t] = ptr[s]],
               Allocated(t, s), short' = short
        PROVE  /\ pc'[t] = "copy" /\ raw'[t] = ptr[s]
               /\ \A x \in Holders : ptr'[x] = ptr'[s] => x = s
               /\ \A y \in Holders : ptr[y] # Null => ptr[y] # ptr'[s]
    <3>1. \A x \in Holders : ptr[x] # b
      BY DEF VInv, IInv, CountsExact
    <3>2. ptr'[s] = b /\ \A x \in Holders : x # s => ptr'[x] \in {ptr[x], ptr[s]}
      BY <1>0, <2>3 DEF VInv, IInv, TypeOK
    <3>3. pc'[t] = "copy" /\ raw'[t] = ptr[s]
      BY <1>0, <2>3 DEF Allocated, Goto, VInv, IInv, TypeOK
    <3> QED BY <1>0, <3>1, <3>2, <3>3
  <2> QED BY <1>0, <2>1, <2>2, <2>3 DEF Allocate
<1>5. ValuesOf(t)'
  BY <1>0, <1>1, <1>4 DEF ValuesOf, Content
<1>6. ASSUME NEW u \in Threads, u # t, at[u] # Null, pc[u] \in {"copy", "drop", "write"},
             ptr[at[u]] # Null
      PROVE  ptr'[s] # ptr[at[u]] /\ ptr'[t] # ptr[at[u]]
  <2>1. \A x \in Holders : ptr[x] = ptr[at[u]] => x = at[u]
    BY <1>6 DEF VInv, Values, ValuesOf
  <2>2. at[u] # s /\ at[u] \in Holders
    BY <1>0, <1>6, AtOne DEF VInv, IInv, TypeOK, Holders
  <2>3. ptr[s] # ptr[at[u]]
    BY <1>0, <2>1, <2>2
  <2> QED BY <1>3, <1>4, <1>6, <2>2, <2>3
<1>7. OnlyOwn(t, s)
  <2>1. \A y \in Holders : y \notin {s, t} =>
           ptr'[y] = ptr[y] /\ (ptr[y] # Null => mem'[ptr[y]] = mem[ptr[y]])
    BY <1>1, <1>2
  <2> QED BY <1>1, <1>6, <2>1 DEF OnlyOwn
<1>8. LeavesWell(t, s)
  BY <1>1, <1>5 DEF LeavesWell
<1> QED BY <1>0, <1>7, <1>8, Frame

LEMMA DropVInv ==
  ASSUME VInv, "replace" \notin Ops, NEW t \in Threads, Drop(t)
  PROVE  Values' /\ ValueSemantics'
<1> USE StringAssumption
<1>0. PICK s \in Strings :
         /\ s = at[t] /\ s \in Holders /\ t \in Holders /\ s # t /\ s # Null
         /\ pc[t] = "drop" /\ op[t] = "set" /\ ValuesOf(t)
  <2>1. pc[t] = "drop"
    BY DEF Drop
  <2>2. /\ at[t] \in Strings /\ at[t] \in Holders /\ t \in Holders /\ at[t] # t /\ at[t] # Null
    BY <2>1, Working DEF VInv, IInv
  <2>3. op[t] = "set"
    BY <2>1, SMTT(30) DEF VInv, IInv, Shape, ShapeOf, TypeOK
  <2> QED BY <2>1, <2>2, <2>3 DEF VInv, Values
<1>1. /\ \A u \in Threads : u # t => pc'[u] = pc[u] /\ at'[u] = at[u] /\ raw'[u] = raw[u]
      /\ UNCHANGED <<short, text>> /\ at'[t] = s /\ pc'[t] = "write"
  BY <1>0 DEF Drop, Goto, call, VInv, IInv, TypeOK
<1>2. \A y \in Holders : y # t => ptr'[y] = ptr[y] /\ (ptr[y] # Null => mem'[ptr[y]] = mem[ptr[y]])
  BY <1>0, GivingUp DEF Drop
<1>3. ptr'[t] = Null
  BY <1>0 DEF Drop, RemoveRef, Decrement, VInv, IInv, TypeOK
<1>4. ValuesOf(t)'
  <2>1. Content(s)' = text'[s]
    <3>1. Content(s) = text[s]
      BY <1>0 DEF ValuesOf
    <3>2. ptr'[s] = ptr[s] /\ (ptr[s] # Null => mem'[ptr[s]] = mem[ptr[s]])
      BY <1>0, <1>2
    <3> QED BY <1>1, <3>1, <3>2 DEF Content
  <2>2. ptr'[s] # Null => \A x \in Holders : ptr'[x] = ptr'[s] => x = s
    BY <1>0, <1>2, <1>3 DEF ValuesOf
  <2> QED BY <1>0, <1>1, <2>1, <2>2 DEF ValuesOf
<1>5. ASSUME NEW u \in Threads, u # t, at[u] # Null, pc[u] \in {"copy", "drop", "write"},
             ptr[at[u]] # Null
      PROVE  ptr'[s] # ptr[at[u]] /\ ptr'[t] # ptr[at[u]]
  <2>1. \A x \in Holders : ptr[x] = ptr[at[u]] => x = at[u]
    BY <1>5 DEF VInv, Values, ValuesOf
  <2>2. at[u] # s
    BY <1>0, <1>5, AtOne DEF VInv
  <2> QED BY <1>0, <1>2, <1>3, <1>5, <2>1, <2>2
<1>6. \A y \in Holders : y \notin {s, t} =>
         ptr'[y] = ptr[y] /\ (ptr[y] # Null => mem'[ptr[y]] = mem[ptr[y]])
  BY <1>2
<1>7. OnlyOwn(t, s)
  BY <1>1, <1>5, <1>6 DEF OnlyOwn
<1>8. LeavesWell(t, s)
  BY <1>1, <1>4 DEF LeavesWell
<1> QED BY <1>0, <1>7, <1>8, Frame

(* Writing to a buffer that only s uses, or to the stack buffer of s.      *)
LEMMA PutVInv ==
  ASSUME VInv, "replace" \notin Ops, NEW t \in Threads, NEW s \in Strings, s = at[t],
         NEW chs, Put(s, chs, Null), ptr' = ptr, at'[t] \in {s, Null}, text'[s] = chs,
         pc[t] \in {"copy", "write"},
         \A u \in Threads : u # t => pc'[u] = pc[u] /\ at'[u] = at[u] /\ raw'[u] = raw[u],
         \A y \in Strings : y # s => text'[y] = text[y],
         at'[t] = s => pc'[t] = "drop"
  PROVE  Values' /\ ValueSemantics'
<1> USE StringAssumption
<1>0. s \in Holders /\ t \in Holders /\ s # t /\ s # Null
  BY DEF Holders
<1>1. ptr[s] # Null => \A x \in Holders : ptr[x] = ptr[s] => x = s
  BY <1>0, ZenonT(60) DEF VInv, Values, ValuesOf
<1>2. \A y \in Holders : y # s /\ ptr[y] # Null => mem'[ptr[y]] = mem[ptr[y]]
  <2>1. ASSUME NEW y \in Holders, y # s, ptr[y] # Null PROVE mem'[ptr[y]] = mem[ptr[y]]
    <3>1. ptr[y] \in Buffers /\ ptr[y] # ptr[s]
      BY <1>1, <2>1, ZenonT(60) DEF VInv, IInv, TypeOK
    <3> QED BY <2>1, <3>1 DEF Put
  <2> QED BY <2>1
<1>3. \A y \in Strings : y # s => short'[y] = short[y]
  BY DEF Put, VInv, IInv, TypeOK
<1>4. Content(s)' = text'[s]
  BY <1>0 DEF Put, Content, VInv, IInv, TypeOK
<1>5. at'[t] = s => ValuesOf(t)'
  BY <1>0, <1>1, <1>4 DEF ValuesOf
<1>6. ASSUME NEW u \in Threads, u # t, at[u] # Null, pc[u] \in {"copy", "drop", "write"},
             ptr[at[u]] # Null
      PROVE  ptr'[s] # ptr[at[u]] /\ ptr'[t] # ptr[at[u]]
  <2>1. \A x \in Holders : ptr[x] = ptr[at[u]] => x = at[u]
    BY <1>6 DEF VInv, Values, ValuesOf
  <2>2. at[u] # s /\ at[u] \in Strings
    BY <1>6, AtOne, ZenonT(60) DEF VInv, IInv, TypeOK
  <2>3. at[u] # t
    BY <2>2
  <2> QED BY <1>0, <2>1, <2>2, <2>3
<1>7. OnlyOwn(t, s)
  BY <1>2, <1>3, <1>6 DEF OnlyOwn
<1>8. LeavesWell(t, s)
  BY <1>4, <1>5 DEF LeavesWell
<1> QED BY <1>7, <1>8, Frame

LEMMA CopyVInv ==
  ASSUME VInv, "replace" \notin Ops, NEW t \in Threads, CopyOld(t)
  PROVE  Values' /\ ValueSemantics'
<1> USE StringAssumption
<1>0. PICK s \in Strings : s = at[t] /\ pc[t] = "copy" /\ op[t] = "set"
  <2>1. pc[t] = "copy"
    BY DEF CopyOld
  <2>2. at[t] \in Strings
    BY <2>1, Working DEF VInv, IInv
  <2>3. op[t] = "set"
    <3>1. op[t] \in Ops \cup {Null}
      BY DEF VInv, IInv, TypeOK
    <3>2. op[t] \in {"set", "replace"}
      BY <2>1 DEF VInv, IInv, Shape, ShapeOf
    <3> QED BY <3>1, <3>2
  <2> QED BY <2>1, <2>2, <2>3
<1>1. s # Null
  OBVIOUS
<1>2. (IF raw[t] = Null THEN short[s] ELSE mem[raw[t]]) = text[s]
  BY <1>0, <1>1 DEF VInv, Values, ValuesOf
<1>3. Put(s, text[s], Null) /\ ptr' = ptr /\ Goto(t, "drop") /\ UNCHANGED <<text, call, raw>>
  BY <1>0, <1>2 DEF CopyOld
<1>4. /\ \A u \in Threads : u # t => pc'[u] = pc[u] /\ at'[u] = at[u] /\ raw'[u] = raw[u]
      /\ at'[t] = s /\ pc'[t] = "drop"
  BY <1>0, <1>3 DEF Goto, call, VInv, IInv, TypeOK
<1> QED BY <1>0, <1>3, <1>4, PutVInv

LEMMA WriteVInv ==
  ASSUME VInv, "replace" \notin Ops, NEW t \in Threads, Write(t)
  PROVE  Values' /\ ValueSemantics'
<1> USE StringAssumption
<1>0. PICK s \in Strings : s = at[t] /\ pc[t] = "write"
  BY DEF Write, VInv, IInv, Shape, ShapeOf, TypeOK
<1>1. s # Null
  OBVIOUS
<1>2. Content(s) = text[s]
  BY <1>0, <1>1 DEF VInv, Values, ValuesOf
<1>3. Put(s, text[s] \cup {tok[t]}, Null) /\ ptr' = ptr /\ Done(t)
  BY <1>0, <1>2 DEF Write
<1>4. /\ \A u \in Threads : u # t => pc'[u] = pc[u] /\ at'[u] = at[u] /\ raw'[u] = raw[u]
      /\ at'[t] = Null
  BY <1>3 DEF Done, Goto, VInv, IInv, TypeOK
<1>5. text'[s] = text[s] \cup {tok[t]} /\ \A y \in Strings : y # s => text'[y] = text[y]
  BY <1>0 DEF Write, VInv, IInv, TypeOK
<1>6. pc[t] \in {"copy", "write"} /\ at'[t] \in {s, Null} /\ (at'[t] = s => pc'[t] = "drop")
  BY <1>0, <1>1, <1>4
<1> HIDE DEF VInv
<1> QED BY <1>0, <1>3, <1>4, <1>5, <1>6, PutVInv

LEMMA NextVInv ==
  ASSUME "replace" \notin Ops
  PROVE  VInv /\ [Next]_vars => VInv'
<1> SUFFICES ASSUME VInv, [Next]_vars PROVE Values' /\ ValueSemantics'
  BY NextIInv DEF VInv
<1>1. CASE UNCHANGED vars
  BY <1>1 DEF VInv, Values, ValuesOf, ValueSemantics, NotModified, Content, vars, chars, call
<1>2. ASSUME NEW t \in Threads, Step(t) PROVE Values' /\ ValueSemantics'
  <2>1. ASSUME NEW s \in Strings, NEW src \in Strings, Copy(t, s, src) PROVE Values' /\ ValueSemantics'
    BY <2>1, BeginVInv DEF Copy
  <2>2. ASSUME NEW s \in Strings, Destroy(t, s) PROVE Values' /\ ValueSemantics'
    BY <2>2, BeginVInv DEF Destroy
  <2>3. ASSUME NEW s \in Strings, NEW x \in Tokens, NEW o \in Ops, Set(t, s, x, o)
        PROVE  Values' /\ ValueSemantics'
    BY <2>3, BeginVInv DEF Set
  <2> QED BY <1>2, <2>1, <2>2, <2>3, ReleaseVInv, ShareVInv, CheckVInv, AllocateVInv, DropVInv,
             CopyVInv, WriteVInv DEF Step
<1> QED BY <1>1, <1>2 DEF Next

(* Without doReplace strings are values for any number of threads, strings *)
(* and buffers: a modification is seen in the modified string alone, and   *)
(* the array a modification copies from is allocated (copyFrom, releaseArray,*)
(* cloneArrayIfNeeded with doCopyArray).                                   *)
THEOREM StringsAreValues ==
  ASSUME "replace" \notin Ops
  PROVE  Spec => [](ValueSemantics /\ OldArrayAlive)
<1>1. Init => VInv
  <2> SUFFICES ASSUME Init PROVE Values /\ ValueSemantics
    BY InitIInv DEF VInv
  <2>1. Values
    BY DEF Init, Values, ValuesOf
  <2>2. ValueSemantics
    BY DEF Init, ValueSemantics, Content, Holders
  <2> QED BY <2>1, <2>2
<1>2. VInv => ValueSemantics /\ OldArrayAlive
  <2> SUFFICES ASSUME VInv PROVE OldArrayAlive
    BY DEF VInv
  <2> SUFFICES ASSUME NEW t \in Threads, pc[t] = "copy", raw[t] # Null PROVE raw[t] \in alive
    BY DEF OldArrayAlive
  <2>1. op[t] = "set"
    <3>1. op[t] \in Ops \cup {Null}
      BY DEF VInv, IInv, TypeOK
    <3>2. op[t] \in {"set", "replace"}
      BY DEF VInv, IInv, Shape, ShapeOf
    <3> QED BY <3>1, <3>2, StringAssumption
  <2>2. ptr[t] = raw[t] /\ raw[t] \in Buffers /\ t \in Holders
    BY <2>1 DEF VInv, IInv, Shape, ShapeOf, TypeOK, Holders
  <2> QED BY <2>2 DEF VInv, IInv, CountsExact
<1> QED BY <1>1, <1>2, NextVInv, PTL DEF Spec
=============================================================================
