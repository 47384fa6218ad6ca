----------------------------- MODULE ZoneNames ------------------------------
(* tznames.cpp: the cache of time zone names.  The names of a locale are   *)
(* loaded once and shared by all TimeZoneNamesDelegate objects of that     *)
(* locale, which count their uses; every SWEEP_INTERVAL-th construction    *)
(* sweeps the entries that nobody uses and that are older than             *)
(* CACHE_EXPIRATION.  Every operation holds gTimeZoneNamesLock from        *)
(* beginning to end, so that each is one step, whichever thread makes it.  *)
EXTENDS Integers, FiniteSets

CONSTANTS
  Locales, Delegates, Null,
  SWEEP_INTERVAL, CACHE_EXPIRATION,
  MaxTime          \* bound on the clock

(* What a locale is told apart from.                                       *)
NamesAssumption ==
  IsFiniteSet(Delegates) /\ "deleted" \notin Locales /\ Null \notin Locales

VARIABLES
  gTimeZoneNamesCache,   \* locale -> [refCount, lastAccess]
  gAccessCount,
  fTZnamesCacheEntry,    \* delegate -> locale of its entry, Null, or "deleted"
  now                    \* uprv_getUTCtime()

vars == <<gTimeZoneNamesCache, gAccessCount, fTZnamesCacheEntry, now>>

TypeOK ==
  /\ fTZnamesCacheEntry \in [Delegates -> Locales \cup {"deleted", Null}]
  /\ DOMAIN gTimeZoneNamesCache \subseteq Locales
  /\ gTimeZoneNamesCache \in
       [DOMAIN gTimeZoneNamesCache -> [refCount : Int, lastAccess : Int]]
  /\ gAccessCount \in Int /\ now \in Int

Init ==
  /\ gTimeZoneNamesCache = <<>> /\ gAccessCount = 0
  /\ fTZnamesCacheEntry = [d \in Delegates |-> "deleted"]
  /\ now = 0
-----------------------------------------------------------------------------
SweepByAge(cache) ==
  [l \in {x \in DOMAIN cache : now - cache[x].lastAccess <= CACHE_EXPIRATION} |-> cache[l]]

SweepCache(cache) ==
  LET swept == {l \in DOMAIN cache : /\ cache[l].refCount <= 0
                                     /\ now - cache[l].lastAccess > CACHE_EXPIRATION}
  IN [l \in DOMAIN cache \ swept |-> cache[l]]

(* The look-up in the cache; names that are not there are loaded, which    *)
(* may fail.                                                               *)
Entered(l, loads) ==
  CASE l \in DOMAIN gTimeZoneNamesCache ->
         [gTimeZoneNamesCache EXCEPT ![l] = [refCount |-> @.refCount + 1, lastAccess |-> now]]
    [] l \notin DOMAIN gTimeZoneNamesCache /\ loads ->
         [n \in DOMAIN gTimeZoneNamesCache \cup {l} |->
            IF n = l THEN [refCount |-> 1, lastAccess |-> now] ELSE gTimeZoneNamesCache[n]]
    [] OTHER -> gTimeZoneNamesCache

(* TimeZoneNamesDelegate(locale): without names the object has no entry.   *)
Construct(d, l, loads) ==
  LET cache == Entered(l, loads)
      sweep == gAccessCount + 1 >= SWEEP_INTERVAL
  IN /\ fTZnamesCacheEntry[d] = "deleted"
     /\ gTimeZoneNamesCache' = IF sweep THEN SweepCache(cache) ELSE cache
     /\ gAccessCount' = IF sweep THEN 0 ELSE gAccessCount + 1
     /\ fTZnamesCacheEntry' =
          [fTZnamesCacheEntry EXCEPT ![d] = IF l \in DOMAIN cache THEN l ELSE Null]
     /\ UNCHANGED now

(* clone(): neither an access nor a sweep.                                 *)
Clone(d, e) ==
  /\ fTZnamesCacheEntry[d] \notin {"deleted", Null} /\ fTZnamesCacheEntry[e] = "deleted"
  /\ fTZnamesCacheEntry' = [fTZnamesCacheEntry EXCEPT ![e] = fTZnamesCacheEntry[d]]
  /\ gTimeZoneNamesCache' = [gTimeZoneNamesCache EXCEPT ![fTZnamesCacheEntry[d]].refCount = @ + 1]
  /\ UNCHANGED <<gAccessCount, now>>

(* ~TimeZoneNamesDelegate: the entry stays for the next one.               *)
Delete(d) ==
  /\ fTZnamesCacheEntry[d] # "deleted"
  /\ fTZnamesCacheEntry' = [fTZnamesCacheEntry EXCEPT ![d] = "deleted"]
  /\ gTimeZoneNamesCache' =
       IF fTZnamesCacheEntry[d] = Null THEN gTimeZoneNamesCache
       ELSE [gTimeZoneNamesCache EXCEPT ![fTZnamesCacheEntry[d]].refCount = @ - 1]
  /\ UNCHANGED <<gAccessCount, now>>

(* timeZoneNames_cleanup, when nothing is in use; the count stays.         *)
Cleanup ==
  /\ \A d \in Delegates : fTZnamesCacheEntry[d] = "deleted"
  /\ gTimeZoneNamesCache # <<>> /\ gTimeZoneNamesCache' = <<>>
  /\ UNCHANGED <<gAccessCount, fTZnamesCacheEntry, now>>

Tick ==
  /\ now < MaxTime /\ now' = now + 1
  /\ UNCHANGED <<gTimeZoneNamesCache, gAccessCount, fTZnamesCacheEntry>>

Next ==
  \/ \E d \in Delegates, l \in Locales, loads \in BOOLEAN : Construct(d, l, loads)
  \/ \E d, e \in Delegates : Clone(d, e)
  \/ \E d \in Delegates : Delete(d)
  \/ Cleanup \/ Tick

Spec == Init /\ [][Next]_vars
-----------------------------------------------------------------------------
(* A delegate uses its entry without the lock, so the entry must stay in   *)
(* the cache for as long as there is a delegate, however old it is: the    *)
(* count of an entry is the number of its delegates, clones included, and  *)
(* an entry with delegates is never swept (sweepCache).                    *)
NamesInUseStay ==
  /\ \A d \in Delegates :
       fTZnamesCacheEntry[d] \in DOMAIN gTimeZoneNamesCache \cup {"deleted", Null}
  /\ \A l \in DOMAIN gTimeZoneNamesCache :
       gTimeZoneNamesCache[l].refCount =
         Cardinality({d \in Delegates : fTZnamesCacheEntry[d] = l})
=============================================================================
