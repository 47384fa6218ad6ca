------------------------------ MODULE MCCaches ------------------------------
(* Small instances of the library's three large caches, one per scene:     *)
(* - UnifiedCache, where the value for en_US is made from the value for en *)
(*   as in unifiedcachetest.cpp, and where either creating a value may     *)
(*   fail or allocating the table entry for it;                            *)
(* - ResourceCache, over a package with an alias, a pool, an explicit      *)
(*   parent, a missing parent and a missing bundle, and a user override;   *)
(* - ConverterCache, with an extension-only table, its base and a table    *)
(*   that a converter uses as well.                                        *)
(* Whatever does not take part in a scene stays as it was initialised.     *)
EXTENDS UnifiedCache, TLC

CONSTANTS t1, t2, en, en_US, x1, x2, x3, b1, b2, Requests, Directs

MCDepOf == [k \in Keys |-> IF k = en_US THEN en ELSE Null]

MCLevel == [k \in Keys |-> IF k = en_US THEN 1 ELSE 0]

NoMemory == INSTANCE UnifiedCache WITH Failures <- {"put"}, MaxCalls <- 2
-----------------------------------------------------------------------------
Locales == {"root", "pool", "de", "de_AT", "no", "en_GB", "en_001", "en", "xx"}

Chop == [n \in Locales |-> CASE n = "de_AT" -> "de" [] n \in {"en_GB", "en_001"} -> "en"
                             [] OTHER -> ""]

Plain == [real |-> TRUE, alias |-> "", pooled |-> FALSE, parent |-> "",
          parentIsRoot |-> FALSE, noFallback |-> FALSE]

Data == [key \in {"dat", "usr"} \X Locales |->
  CASE key \in {<<"dat", "root">>, <<"dat", "de">>} -> [Plain EXCEPT !.pooled = TRUE]
    [] key = <<"dat", "en_GB">> -> [Plain EXCEPT !.parent = "en_001"]
    [] key = <<"dat", "no">> -> [Plain EXCEPT !.alias = "de_AT"]
    [] key \in {<<"dat", "en">>, <<"dat", "xx">>} -> [Plain EXCEPT !.real = FALSE]
    [] key[1] = "usr" -> [Plain EXCEPT !.real = key[2] \in {"de", "en_GB"}]
    [] OTHER -> Plain]

MCRequests == {"dat"} \X {"de", "de_AT", "no", "en_GB", "xx"}
MCDirects == {"dat"} \X {"de_AT", "en_GB", "xx"}

VARIABLES cache, bundles, locale, leaked, failures

resourceVars == <<cache, bundles, locale, leaked, failures>>

Resource == INSTANCE ResourceCache
  WITH Bundles <- {b1, b2}, Defaults <- {"de_AT", "xx"}, default <- locale,
       Faults <- {}, MaxFailures <- 1

(* Memory may run out when the entry of de is made or put into the table.  *)
Faulty == INSTANCE ResourceCache
  WITH Bundles <- {b1, b2}, Defaults <- {"de_AT", "xx"}, default <- locale,
       Requests <- {"dat"} \X {"de", "de_AT", "no"}, Directs <- {<<"dat", "de_AT">>},
       Faults <- {"malloc", "put"} \X {<<"dat", "de">>}, MaxFailures <- 1
-----------------------------------------------------------------------------
Names == {"ibm-943", "windows-932", "jisx-212"}

VARIABLES data, shared, uses, has, default, at, want, got, cnv, test, left

converterVars == <<data, shared, uses, has, default, at, want, got, cnv, test, left>>

Converter == INSTANCE ConverterCache
  WITH BaseOf <- [n \in Names |-> IF n = "windows-932" THEN "ibm-943" ELSE ""],
       Kinds <- {<<"ibm-943">>, <<"windows-932">>, <<"windows-932", "jisx-212">>},
       DefaultKind <- <<"windows-932">>, Addresses <- 1..6, Converters <- 1..4, MaxCalls <- 2,
       table <- shared, pc <- at, calls <- left
-----------------------------------------------------------------------------
VARIABLE scene

CONSTANT Scenes

Symmetry == Permutations({t1, t2}) \cup Permutations({x1, x2, x3}) \cup Permutations({b1, b2})

SceneInit ==
  /\ Resource!Init /\ Converter!Init
  /\ scene \in Scenes
  /\ IF scene = "put" THEN NoMemory!Init ELSE Init

SceneNext ==
  /\ \/ scene = "create" /\ Next /\ UNCHANGED <<resourceVars, converterVars>>
     \/ scene = "put" /\ NoMemory!Next /\ UNCHANGED <<resourceVars, converterVars>>
     \/ scene = "resource" /\ Resource!Next /\ UNCHANGED <<vars, converterVars>>
     \/ scene = "faulty" /\ Faulty!Next /\ UNCHANGED <<vars, converterVars>>
     \/ scene = "converter" /\ Converter!Next /\ UNCHANGED <<vars, resourceVars>>
  /\ UNCHANGED scene

SceneSpec == SceneInit /\ [][SceneNext]_<<scene, vars, resourceVars, converterVars>>
-----------------------------------------------------------------------------
(* As long as there is memory for table entries, clients of one key share  *)
(* one value, whoever created it (_putIfAbsentAndGet).                     *)
SharedWhileStored == scene = "create" => ClientsShare

(* uresbund.cpp: every link between entries and every open bundle leads to *)
(* an entry, whose fCountExisting is the number of its users, as           *)
(* ures_flushCache relies on.                                              *)
EntryCountsAccurate ==
  scene \in {"resource", "faulty"} => Resource!TypeOK /\ Resource!CountsAccurate

(* uresbund.cpp: u_cleanup leaves no entry behind.                         *)
CleanupFreesAll == scene \in {"resource", "faulty"} => Resource!CleanupFreesAll

(* uresbund.cpp: an open bundle looks through exactly the parents that its *)
(* data names, whatever was opened before.                                 *)
ProperFallback == scene \in {"resource", "faulty"} => Resource!ProperFallback

(* uresbund.cpp: the chain of an open bundle never changes, so following   *)
(* fParent without the mutex is safe.                                      *)
ChainsStable == Resource!ChainsStable

(* uresbund.cpp: an open that ends without a warning gave the bundle asked *)
(* for.                                                                    *)
TellsFallback == scene \in {"resource", "faulty"} => Resource!TellsFallback

(* ucnv_bld.cpp: referenceCounter is the number of converters, extension   *)
(* tables and calls that use a table, and a table that knows itself cached *)
(* is in SHARED_DATA_HASHTABLE, once.                                      *)
TableCountsExact ==
  scene = "converter" =>
    Converter!TypeOK /\ Converter!RefCountsExact /\ Converter!CachedOnce

(* ucnv_bld.cpp: ucnv_flushCache leaves no unused table in the cache, base *)
(* tables of extensions that went in the same call included.               *)
FlushRemovesUnused == Converter!FlushRemovesUnused

(* ustr_cnv.cpp: no two threads use the default converter at once.         *)
ConvertersExclusive == scene = "converter" => Converter!ConvertersExclusive
=============================================================================
