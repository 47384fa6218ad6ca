---------------------------- MODULE StringBuffer ----------------------------
(***************************************************************************)
(* The shared character buffers of UnicodeString (unistr.cpp): strings are *)
(* values, but a copy shares the buffer of a long string, with an atomic   *)
(* count, until one of them is modified.                                   *)
(*                                                                         *)
(* A string object belongs to a thread and others only copy from it while  *)
(* it is not being modified: that the caller sees to.  The buffers are     *)
(* shared without the caller knowing, so the steps on them interleave.     *)
(* Text is a set of tokens that modifications add to; a token is lost or   *)
(* appears in the wrong string when a buffer is read or written wrongly.   *)
(***************************************************************************)
EXTENDS Integers, FiniteSets

CONSTANTS
  Threads,
  Strings,
  Owner,      \* [Strings -> Threads]
  Buffers,    \* addresses of buffers; a freed one may be used again
  Tokens,
  Null,
  Ops         \* SUBSET {"copy", "set", "replace", "destroy"}

ASSUME StringAssumption ==
  /\ IsFiniteSet(Strings) /\ IsFiniteSet(Threads)
  /\ Strings \cap Threads = {}
  /\ Owner \in [Strings -> Threads]
  /\ Ops \subseteq {"copy", "set", "replace", "destroy"}
  /\ Null \notin Strings \cup Threads \cup Buffers \cup {"copy", "set", "replace", "destroy"}

VARIABLES
  ptr,        \* [Holders -> Buffers \cup {Null}]: fArray of a string that does
              \* not use its stack buffer; the counted old array of a thread
  count,      \* [Buffers -> Nat]: the count in front of the characters
  alive,      \* SUBSET Buffers: allocated
  mem,        \* [Buffers -> SUBSET (Tokens \cup {Null})]: the characters;
              \* {Null} in a buffer that nobody has filled
  short,      \* [Strings -> SUBSET (Tokens \cup {Null})]: the stack buffer
  text,       \* the same: history, what the string should be; {Null} is bogus
  pc,         \* [Threads -> Loc]
  at,         \* [Threads -> Strings \cup {Null}]: the string worked on
  from,       \* [Threads -> Strings \cup {Null}]: the string copied from
  tok,        \* [Threads -> Tokens \cup {Null}]: what is being added
  op,         \* [Threads -> Ops \cup {Null}]
  raw,        \* [Threads -> Buffers \cup {Null}]: oldArray
  del         \* [Threads -> Buffers \cup {Null}]: bufferToDelete

chars == <<ptr, count, alive, mem, short>>
call == <<at, from, tok, op>>
vars == <<chars, text, pc, call, raw, del>>

Holders == Strings \cup Threads
Loc == {"idle", "release", "share", "check", "allocate", "copy", "drop", "write"}
Content(s) == IF ptr[s] = Null THEN short[s] ELSE mem[ptr[s]]

TypeOK ==
  /\ ptr \in [Holders -> Buffers \cup {Null}]
  /\ count \in [Buffers -> Int] /\ alive \subseteq Buffers
  /\ mem \in [Buffers -> SUBSET (Tokens \cup {Null})]
  /\ short \in [Strings -> SUBSET (Tokens \cup {Null})]
  /\ text \in [Strings -> SUBSET (Tokens \cup {Null})]
  /\ pc \in [Threads -> Loc]
  /\ at \in [Threads -> Strings \cup {Null}] /\ from \in [Threads -> Strings \cup {Null}]
  /\ tok \in [Threads -> Tokens \cup {Null}] /\ op \in [Threads -> Ops \cup {Null}]
  /\ raw \in [Threads -> Buffers \cup {Null}] /\ del \in [Threads -> Buffers \cup {Null}]

Init ==
  /\ ptr = [x \in Holders |-> Null] /\ count = [b \in Buffers |-> 0] /\ alive = {}
  /\ mem = [b \in Buffers |-> {Null}]
  /\ short = [s \in Strings |-> {}] /\ text = [s \in Strings |-> {}]
  /\ pc = [t \in Threads |-> "idle"]
  /\ at = [t \in Threads |-> Null] /\ from = [t \in Threads |-> Null]
  /\ tok = [t \in Threads |-> Null] /\ op = [t \in Threads |-> Null]
  /\ raw = [t \in Threads |-> Null] /\ del = [t \in Threads |-> Null]

-----------------------------------------------------------------------------
Goto(t, loc) == pc' = [pc EXCEPT ![t] = loc]

(* What the caller sees to.                                                *)
NotModified(s) == \A t \in Threads : at[t] # s
NotCopied(s) == \A t \in Threads : from[t] # s

Begin(t, s, src, x, o, loc) ==
  /\ o \in Ops /\ pc[t] = "idle" /\ Owner[s] = t /\ NotCopied(s)
  /\ at' = [at EXCEPT ![t] = s] /\ from' = [from EXCEPT ![t] = src]
  /\ tok' = [tok EXCEPT ![t] = x] /\ op' = [op EXCEPT ![t] = o]
  /\ Goto(t, loc)
  /\ UNCHANGED <<chars, text, raw, del>>

Done(t) ==
  /\ at' = [at EXCEPT ![t] = Null] /\ from' = [from EXCEPT ![t] = Null]
  /\ tok' = [tok EXCEPT ![t] = Null] /\ op' = [op EXCEPT ![t] = Null]
  /\ raw' = [raw EXCEPT ![t] = Null] /\ del' = [del EXCEPT ![t] = Null]
  /\ Goto(t, "idle")

(* operator= and the copy constructor; the destructor.                     *)
Copy(t, s, src) == s # src /\ NotModified(src) /\ Begin(t, s, src, Null, "copy", "release")
Destroy(t, s) == Begin(t, s, Null, Null, "destroy", "release")

(* doReplace, and the modifications that copy in cloneArrayIfNeeded.       *)
Set(t, s, x, o) == o \in {"set", "replace"} /\ Begin(t, s, Null, x, o, "check")

-----------------------------------------------------------------------------
(* umtx_atomic_dec on the count of b, for its holder x; and with the free  *)
(* that follows when it is the last one.                                   *)
Decrement(x, b) ==
  /\ ptr' = [ptr EXCEPT ![x] = Null]
  /\ count' = [count EXCEPT ![b] = @ - 1]

RemoveRef(x, b) ==
  /\ Decrement(x, b)
  /\ alive' = IF count[b] = 1 THEN alive \ {b} ELSE alive
  /\ mem' = IF count[b] = 1 THEN [mem EXCEPT ![b] = {Null}] ELSE mem

(* releaseArray, of a string that is assigned to, destroyed or bogus.      *)
ReleaseArray(t) ==
  LET s == at[t] IN
  /\ pc[t] = "release"
  /\ IF ptr[s] # Null THEN RemoveRef(s, ptr[s]) ELSE UNCHANGED <<ptr, count, alive, mem>>
  /\ IF op[t] = "copy"
     THEN Goto(t, "share") /\ UNCHANGED <<short, text, call, raw, del>>
     ELSE LET empty == IF op[t] = "destroy" THEN {} ELSE {Null} IN
          /\ short' = [short EXCEPT ![s] = empty] /\ text' = [text EXCEPT ![s] = empty]
          /\ Done(t)

ShareUncounted(t) ==
  LET s == at[t]  src == from[t] IN
  /\ pc[t] = "share"
  /\ ptr' = [ptr EXCEPT ![s] = ptr[src]]
  /\ short' = [short EXCEPT ![s] = short[src]]
  /\ text' = [text EXCEPT ![s] = text[src]]
  /\ Done(t)
  /\ UNCHANGED <<count, alive, mem>>

(* The rest of copyFrom: a long string's buffer is shared.                 *)
Share(t) ==
  LET s == at[t]  src == from[t] IN
  /\ pc[t] = "share"
  /\ IF ptr[src] # Null
     THEN /\ ptr' = [ptr EXCEPT ![s] = ptr[src]]
          /\ count' = [count EXCEPT ![ptr[src]] = @ + 1]
          /\ UNCHANGED short
     ELSE short' = [short EXCEPT ![s] = short[src]] /\ UNCHANGED <<ptr, count>>
  /\ text' = [text EXCEPT ![s] = text[src]]
  /\ Done(t)
  /\ UNCHANGED <<alive, mem>>

-----------------------------------------------------------------------------
CheckUnshared(t) ==
  LET s == at[t] IN
  /\ pc[t] = "check"
  /\ Goto(t, IF ptr[s] # Null THEN "write" ELSE "allocate")
  /\ UNCHANGED <<chars, text, call, raw, del>>

(* cloneArrayIfNeeded: a bogus string is left alone; a shared buffer, or   *)
(* one that is too small, is replaced.                                     *)
Check(t) ==
  LET s == at[t]
      bogus == ptr[s] = Null /\ short[s] = {Null}
      shared == ptr[s] # Null /\ count[ptr[s]] > 1
  IN
  /\ pc[t] = "check"
  /\ \/ bogus /\ Done(t)
     \/ \E tooSmall \in BOOLEAN :
          /\ ~bogus
          /\ Goto(t, IF shared \/ tooSmall THEN "allocate" ELSE "write")
          /\ UNCHANGED <<call, raw, del>>
  /\ UNCHANGED <<chars, text>>

(* allocate: the stack buffer when the text fits there, a new buffer, or   *)
(* no memory, after which setToBogus releases the old one.                 *)
Allocated(t, s) ==
  /\ raw' = [raw EXCEPT ![t] = ptr[s]]
  /\ Goto(t, IF op[t] = "replace" THEN "drop" ELSE "copy")
  /\ UNCHANGED <<text, call, del>>

Allocate(t) ==
  LET s == at[t] IN
  /\ pc[t] = "allocate"
  /\ \/ /\ ptr[s] # Null
        /\ ptr' = [ptr EXCEPT ![s] = Null, ![t] = ptr[s]]
        /\ short' = [short EXCEPT ![s] = {Null}]
        /\ Allocated(t, s)
        /\ UNCHANGED <<count, alive, mem>>
     \/ \E b \in Buffers \ alive :
          /\ ptr' = [ptr EXCEPT ![s] = b, ![t] = ptr[s]]
          /\ count' = [count EXCEPT ![b] = 1]
          /\ alive' = alive \cup {b}
          /\ Allocated(t, s)
          /\ UNCHANGED <<mem, short>>
     \/ Goto(t, "release") /\ UNCHANGED <<chars, text, call, raw, del>>

(* Releasing the old array: cloneArrayIfNeeded leaves the free to          *)
(* doReplace when doReplace asks for it.                                   *)
Drop(t) ==
  /\ pc[t] = "drop"
  /\ \/ ptr[t] = Null /\ UNCHANGED <<ptr, count, alive, mem, del>>
     \/ ptr[t] # Null /\ op[t] = "set" /\ RemoveRef(t, ptr[t]) /\ UNCHANGED del
     \/ /\ ptr[t] # Null /\ op[t] = "replace" /\ Decrement(t, ptr[t])
        /\ del' = [del EXCEPT ![t] = IF count[ptr[t]] = 1 THEN ptr[t] ELSE Null]
        /\ UNCHANGED <<alive, mem>>
  /\ Goto(t, IF op[t] = "replace" THEN "copy" ELSE "write")
  /\ UNCHANGED <<short, text, call, raw>>

(* Writing the characters of the string: into its buffer, or its stack.    *)
Put(s, chs, free) ==
  /\ mem' = [b \in Buffers |-> IF b = ptr[s] THEN chs ELSE IF b = free THEN {Null} ELSE mem[b]]
  /\ short' = IF ptr[s] = Null THEN [short EXCEPT ![s] = chs] ELSE short

(* Copying the old characters: before the old array is released in         *)
(* cloneArrayIfNeeded, after it in doReplace, which then frees it.         *)
CopyOld(t) ==
  LET s == at[t]
      old == IF raw[t] = Null THEN short[s] ELSE mem[raw[t]]
  IN
  /\ pc[t] = "copy"
  /\ \/ /\ op[t] = "set"
        /\ Put(s, old, Null)
        /\ Goto(t, "drop")
        /\ UNCHANGED <<alive, text, call, raw, del>>
     \/ /\ op[t] = "replace"
        /\ Put(s, old \cup {tok[t]}, del[t])
        /\ alive' = alive \ {del[t]}
        /\ text' = [text EXCEPT ![s] = @ \cup {tok[t]}]
        /\ Done(t)
  /\ UNCHANGED <<ptr, count>>

Write(t) ==
  LET s == at[t] IN
  /\ pc[t] = "write"
  /\ Put(s, Content(s) \cup {tok[t]}, Null)
  /\ text' = [text EXCEPT ![s] = @ \cup {tok[t]}]
  /\ Done(t)
  /\ UNCHANGED <<ptr, count, alive>>

Step(t) ==
  \/ \E s, src \in Strings : Copy(t, s, src)
  \/ \E s \in Strings : Destroy(t, s)
  \/ \E s \in Strings, x \in Tokens, o \in Ops : Set(t, s, x, o)
  \/ ReleaseArray(t) \/ Share(t)
  \/ Check(t) \/ Allocate(t) \/ Drop(t) \/ CopyOld(t) \/ Write(t)

Next == \E t \in Threads : Step(t)
Spec == Init /\ [][Next]_vars

-----------------------------------------------------------------------------
(* The count in front of a buffer is the number of strings that use it,    *)
(* and of threads that are replacing it: an addRef or removeRef is never   *)
(* lost, whatever the interleaving.  A buffer is allocated exactly while   *)
(* it is counted or doReplace has still to free it.                        *)
CountsExact ==
  \A b \in Buffers :
    /\ count[b] = Cardinality({x \in Holders : ptr[x] = b})
    /\ b \in alive <=> (\E x \in Holders : ptr[x] = b) \/ (\E t \in Threads : del[t] = b)

(* Strings are values: what one thread does to its string is never seen in *)
(* another string, and no string loses what was put in it, although the    *)
(* buffers are shared (copyFrom, cloneArrayIfNeeded, refCount() > 1).      *)
ValueSemantics ==
  \A s \in Strings : NotModified(s) => Content(s) = text[s]

(* The old array is still allocated when its characters are copied: the    *)
(* comment in doReplace, "delayed delete [...] to keep oldArray alive for  *)
(* the above operations".                                                  *)
OldArrayAlive ==
  \A t \in Threads : pc[t] = "copy" /\ raw[t] # Null => raw[t] \in alive
=============================================================================
