--------------------------- MODULE ConverterCache ---------------------------
(***************************************************************************)
(* The cache of converter tables (ucnv_bld.cpp), the converters that share *)
(* them (ucnv.c, ucnv2022.cpp, ucnvmbcs.cpp) and the one default converter *)
(* that is passed round (ustr_cnv.cpp).                                    *)
(*                                                                         *)
(* A converter uses one table, or several when it is compound (ISO-2022);  *)
(* the table of an extension-only converter uses its base table.  Tables   *)
(* are counted under cnvCacheMutex; between its critical sections the      *)
(* threads interleave.                                                     *)
(***************************************************************************)
EXTENDS Naturals, Sequences, FiniteSets, FiniteSetsExt, SequencesExt

CONSTANTS
  Threads,
  Names,      \* names of converter tables
  BaseOf,     \* [Names -> Names \cup {""}]: the base of an extension-only one
  Kinds,      \* SUBSET Seq(Names): the tables a converter to be opened uses
  DefaultKind,\* the kind ucnv_open(NULL) opens, when it is data-based
  Addresses,  \* where a table (UConverterSharedData) may be allocated
  Converters, \* where a UConverter may be
  Null,
  MaxCalls    \* bound: calls per thread

VARIABLES
  data,       \* [Addresses -> a table or Null]: what is allocated there
  table,      \* [Names -> Addresses \cup {Null}]: SHARED_DATA_HASHTABLE
  uses,       \* [Converters -> Seq(Addresses)]: sharedData and subconverters
  has,        \* [Threads -> SUBSET Converters]: the converters of a thread
  default,    \* Converters \cup {Null}: gDefaultConverter
  pc,         \* [Threads -> Loc]
  want,       \* [Threads -> Seq(Names)]: tables still to load
  got,        \* [Threads -> Seq(Addresses)]: tables loaded, or to be unloaded
  cnv,        \* [Threads -> Converters \cup {Null}]: the converter at hand
  test,       \* [Threads -> BOOLEAN]: onlyTestIsLoadable
  calls       \* [Threads -> 0 .. MaxCalls]: calls left

local == <<pc, want, got, cnv, test>>
vars == <<data, table, uses, has, default, local, calls>>

Loc == {"idle", "load", "unload", "clone", "take", "flushDefault", "flushClose", "flush"}
Table == [name : Names, count : Nat, cached : BOOLEAN, base : Addresses \cup {Null}]

TypeOK ==
  /\ data \in [Addresses -> Table \cup {Null}]
  /\ table \in [Names -> Addresses \cup {Null}]
  /\ uses \in [Converters -> Seq(Addresses)]
  /\ has \in [Threads -> SUBSET Converters] /\ default \in Converters \cup {Null}
  /\ pc \in [Threads -> Loc]
  /\ want \in [Threads -> Seq(Names)] /\ got \in [Threads -> Seq(Addresses)]
  /\ cnv \in [Threads -> Converters \cup {Null}]
  /\ test \in [Threads -> BOOLEAN] /\ calls \in [Threads -> 0 .. MaxCalls]

Init ==
  /\ data = [x \in Addresses |-> Null] /\ table = [n \in Names |-> Null]
  /\ uses = [c \in Converters |-> <<>>] /\ has = [t \in Threads |-> {}]
  /\ default = Null
  /\ pc = [t \in Threads |-> "idle"] /\ want = [t \in Threads |-> <<>>]
  /\ got = [t \in Threads |-> <<>>] /\ cnv = [t \in Threads |-> Null]
  /\ test = [t \in Threads |-> FALSE] /\ calls = [t \in Threads |-> MaxCalls]

-----------------------------------------------------------------------------
(* Critical sections of cnvCacheMutex, on the state s = [data, table].     *)

(* ucnv_deleteSharedConverterData for a table nobody counts; the unload of *)
(* an extension table unloads its base.  ucnv_unload counts down and       *)
(* deletes what is not cached.                                             *)
RECURSIVE Unload(_, _)

(* Mutant: the base is forgotten.                                          *)
DeleteKeepsBase(s, x) == [s EXCEPT !.data[x] = Null]

Delete(s, x) ==
  LET base == s.data[x].base
      freed == [s EXCEPT !.data[x] = Null]
  IN IF base = Null THEN freed ELSE Unload(freed, base)

Unload(s, x) ==
  LET s1 == IF s.data[x].count > 0 THEN [s EXCEPT !.data[x].count = @ - 1] ELSE s
  IN IF s1.data[x].count = 0 /\ ~s1.data[x].cached THEN Delete(s1, x) ELSE s1

RECURSIVE Load(_, _, _)

(* ucnv_load: count the cached table, or make one from the file and cache  *)
(* it (not when only testing); an extension loads its base first.          *)
Load(s, n, onlyTest) ==
  LET b == IF BaseOf[n] = "" THEN [s |-> s, x |-> Null] ELSE Load(s, BaseOf[n], onlyTest)
      kept == IF onlyTest /\ b.x # Null THEN Unload(b.s, b.x) ELSE b.s
      x == CHOOSE a \in Addresses : kept.data[a] = Null
      made == [kept EXCEPT !.data[x] =
                 [name |-> n, count |-> 1, cached |-> ~onlyTest,
                  base |-> IF onlyTest THEN Null ELSE b.x]]
  IN IF s.table[n] # Null
     THEN [s |-> [s EXCEPT !.data[s.table[n]].count = @ + 1], x |-> s.table[n]]
     ELSE [s |-> IF onlyTest THEN made ELSE [made EXCEPT !.table[n] = x], x |-> x]

(* One pass of ucnv_flushCache over the table, in the order of the hashes. *)
FlushPass(s, order) ==
  LET Visit(n, s1) ==
        IF s1.table[n] # Null /\ s1.data[s1.table[n]].count = 0
        THEN Delete([s1 EXCEPT !.table[n] = Null, !.data[s1.table[n]].cached = FALSE],
                    s1.table[n])
        ELSE s1
  IN FoldLeft(LAMBDA s1, n : Visit(n, s1), s, order)

(* Mutant: one pass.                                                       *)
FlushCacheOnce(s, order) == FlushPass(s, order)

(* ucnv_flushCache makes a second pass, for the bases of what went in the  *)
(* first.                                                                  *)
FlushCache(s, order) == FlushPass(FlushPass(s, order), order)

Shared == [data |-> data, table |-> table]
SetShared(s) == data' = s.data /\ table' = s.table

-----------------------------------------------------------------------------
Call(t) == pc[t] = "idle" /\ calls[t] > 0 /\ calls' = [calls EXCEPT ![t] = @ - 1]
Goto(t, loc) == pc' = [pc EXCEPT ![t] = loc]
Unused == Converters \ (UNION {has[t] : t \in Threads} \cup {default})
NewConverter(t, tables) ==
  LET c == CHOOSE x \in Unused : TRUE
  IN /\ Unused # {}
     /\ has' = [has EXCEPT ![t] = @ \cup {c}]
     /\ uses' = [uses EXCEPT ![c] = tables]

(* ucnv_open, and ucnv_canCreateConverter, which opens and gives back.     *)
Open(t, kind, onlyTest) ==
  /\ Call(t)
  /\ want' = [want EXCEPT ![t] = kind]
  /\ test' = [test EXCEPT ![t] = onlyTest]
  /\ Goto(t, "load")
  /\ UNCHANGED <<data, table, uses, has, default, got, cnv>>

(* ucnv_loadSharedData of the next table, under the mutex.  When the file  *)
(* is not there or memory runs out, what was loaded is unloaded.           *)
LoadTable(t) ==
  /\ pc[t] = "load" /\ want[t] # <<>>
  /\ \/ LET l == Load(Shared, Head(want[t]), test[t])
        IN /\ SetShared(l.s)
           /\ got' = [got EXCEPT ![t] = Append(@, l.x)]
           /\ want' = [want EXCEPT ![t] = Tail(@)]
           /\ UNCHANGED pc
     \/ /\ Goto(t, "unload")
        /\ want' = [want EXCEPT ![t] = <<>>]
        /\ UNCHANGED <<data, table, got>>
  /\ UNCHANGED <<uses, has, default, cnv, test, calls>>

(* ucnv_createConverterFromSharedData; there may be no memory for it.      *)
Create(t) ==
  /\ pc[t] = "load" /\ want[t] = <<>>
  /\ \/ /\ ~test[t] /\ NewConverter(t, got[t])
        /\ got' = [got EXCEPT ![t] = <<>>]
        /\ Goto(t, "idle")
     \/ Goto(t, "unload") /\ UNCHANGED <<uses, has, got>>
  /\ UNCHANGED <<data, table, default, want, cnv, test, calls>>

(* ucnv_unloadSharedDataIfReady of one table at a time: the end of         *)
(* ucnv_close, of ucnv_canCreateConverter and of a failed open.            *)
UnloadTable(t) ==
  /\ pc[t] \in {"unload", "flushClose"}
  /\ IF got[t] = <<>>
     THEN Goto(t, IF pc[t] = "unload" THEN "idle" ELSE "flush") /\ UNCHANGED <<data, table, got>>
     ELSE /\ SetShared(Unload(Shared, Head(got[t])))
          /\ got' = [got EXCEPT ![t] = Tail(@)]
          /\ UNCHANGED pc
  /\ UNCHANGED <<uses, has, default, want, cnv, test, calls>>

(* ucnv_close.                                                             *)
Close(t, c) ==
  /\ pc[t] = "idle" /\ c \in has[t]
  /\ has' = [has EXCEPT ![t] = @ \ {c}]
  /\ got' = [got EXCEPT ![t] = uses[c]]
  /\ uses' = [uses EXCEPT ![c] = <<>>]
  /\ Goto(t, "unload")
  /\ UNCHANGED <<data, table, default, want, cnv, test, calls>>

(* ucnv_safeClone: every table is counted once more, one at a time.        *)
Clone(t, c) ==
  /\ Call(t) /\ c \in has[t]
  /\ cnv' = [cnv EXCEPT ![t] = c]
  /\ Goto(t, "clone")
  /\ UNCHANGED <<data, table, uses, has, default, want, got, test>>

CountTable(t) ==
  /\ pc[t] = "clone"
  /\ IF Len(got[t]) < Len(uses[cnv[t]])
     THEN LET x == uses[cnv[t]][Len(got[t]) + 1]
          IN /\ data' = [data EXCEPT ![x].count = @ + 1]
             /\ got' = [got EXCEPT ![t] = Append(@, x)]
             /\ UNCHANGED <<pc, uses, has, cnv>>
     ELSE /\ NewConverter(t, got[t])
          /\ got' = [got EXCEPT ![t] = <<>>]
          /\ cnv' = [cnv EXCEPT ![t] = Null]
          /\ Goto(t, "idle")
          /\ UNCHANGED data
  /\ UNCHANGED <<table, default, want, test, calls>>

-----------------------------------------------------------------------------
(* u_getDefaultConverter: the first look is not under the mutex, so it may *)
(* see an old value; the converter may be taken by another thread before   *)
(* the second.  With none to take, one is opened.                          *)
GetDefault(t) ==
  /\ Call(t)
  /\ \/ /\ default # Null
        /\ cnv' = [cnv EXCEPT ![t] = default]
        /\ Goto(t, "take")
        /\ UNCHANGED want
     \/ /\ want' = [want EXCEPT ![t] = DefaultKind]
        /\ Goto(t, "load")
        /\ UNCHANGED cnv
  /\ test' = [test EXCEPT ![t] = FALSE]
  /\ UNCHANGED <<data, table, uses, has, default, got>>

(* Mutant: what the first look saw is taken without the second look.       *)
TakeDefaultUnchecked(t) ==
  /\ pc[t] = "take"
  /\ has' = [has EXCEPT ![t] = @ \cup {cnv[t]}]
  /\ default' = Null
  /\ cnv' = [cnv EXCEPT ![t] = Null]
  /\ Goto(t, "idle")
  /\ UNCHANGED <<data, table, uses, want, got, test, calls>>

TakeDefault(t) ==
  /\ pc[t] = "take"
  /\ IF default # Null
     THEN /\ has' = [has EXCEPT ![t] = @ \cup {default}]
          /\ default' = Null
          /\ Goto(t, "idle")
          /\ UNCHANGED want
     ELSE /\ want' = [want EXCEPT ![t] = DefaultKind]
          /\ Goto(t, "load")
          /\ UNCHANGED <<has, default>>
  /\ cnv' = [cnv EXCEPT ![t] = Null]
  /\ UNCHANGED <<data, table, uses, got, test, calls>>

(* u_releaseDefaultConverter, when the place is free; otherwise it closes. *)
ReleaseDefault(t, c) ==
  /\ pc[t] = "idle" /\ c \in has[t] /\ default = Null
  /\ default' = c
  /\ has' = [has EXCEPT ![t] = @ \ {c}]
  /\ UNCHANGED <<data, table, uses, local, calls>>

(* ucnv_flushCache: close the default converter; then flush the table,     *)
(* unless the look at it, outside the mutex, sees that there is none yet.  *)
Flush(t) ==
  /\ Call(t)
  /\ Goto(t, "flushDefault")
  /\ UNCHANGED <<data, table, uses, has, default, want, got, cnv, test>>

FlushDefault(t) ==
  /\ pc[t] = "flushDefault"
  /\ \/ /\ default # Null
        /\ got' = [got EXCEPT ![t] = uses[default]]
        /\ uses' = [uses EXCEPT ![default] = <<>>]
        /\ default' = Null
        /\ Goto(t, "flushClose")
     \/ Goto(t, "flush") /\ UNCHANGED <<uses, default, got>>
  /\ UNCHANGED <<data, table, has, want, cnv, test, calls>>

FlushTable(t) ==
  /\ pc[t] = "flush"
  /\ \/ \E order \in SetToSeqs(Names) : SetShared(FlushCache(Shared, order))
     \/ UNCHANGED <<data, table>>
  /\ Goto(t, "idle")
  /\ UNCHANGED <<uses, has, default, want, got, cnv, test, calls>>

Step(t) ==
  \/ LoadTable(t) \/ Create(t) \/ UnloadTable(t) \/ CountTable(t)
  \/ TakeDefault(t) \/ FlushDefault(t) \/ FlushTable(t)

Next == \E t \in Threads :
  \/ \E kind \in Kinds, onlyTest \in BOOLEAN : Open(t, kind, onlyTest)
  \/ \E c \in Converters : Close(t, c) \/ Clone(t, c) \/ ReleaseDefault(t, c)
  \/ GetDefault(t) \/ Flush(t) \/ Step(t)

Spec == Init /\ [][Next]_vars

-----------------------------------------------------------------------------
Occurrences(x, seq) == Cardinality({i \in DOMAIN seq : seq[i] = x})

(* A table's referenceCounter is exactly the number of uses by converters, *)
(* by calls under way and by extension tables, at every step of every      *)
(* thread: nothing in use can be freed, nothing unused is kept from being. *)
RefCountsExact ==
  \A x \in Addresses :
    LET used == MapThenSumSet(LAMBDA c : Occurrences(x, uses[c]), Converters)
                + MapThenSumSet(LAMBDA t : Occurrences(x, got[t]), Threads)
                + Cardinality({y \in Addresses : data[y] # Null /\ data[y].base = x})
    IN used = IF data[x] = Null THEN 0 ELSE data[x].count

(* The hash table has one table for a name, exactly those marked cached,   *)
(* and a table that is not in it has a user: what ucnv_canCreateConverter  *)
(* loads beside it to test does not stay.                                  *)
CachedOnce ==
  \A x \in Addresses : data[x] # Null =>
    /\ data[x].cached <=> table[data[x].name] = x
    /\ data[x].cached \/ data[x].count > 0

(* A flush that frees anything leaves no table without users: two passes   *)
(* are enough for bases, in whatever order the hash table is visited.      *)
FlushRemovesUnused ==
  [][\A t \in Threads :
       pc[t] = "flush" /\ pc'[t] = "idle" /\ table' # table =>
         \A n \in Names : table'[n] # Null => data'[table'[n]].count > 0]_vars

(* A converter is used by one thread only, also the default converter that *)
(* threads hand on through gDefaultConverter.                              *)
ConvertersExclusive ==
  /\ \A t \in Threads : default \notin has[t]
  /\ \A t, u \in Threads : t # u => has[t] \cap has[u] = {}
=============================================================================
