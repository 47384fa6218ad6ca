------------------------------ MODULE Calendar ------------------------------
(* calendar.cpp: which fields of a Calendar were set, and in which order.  *)
(* Setting a field stamps it with a number that grows, so that conflicting *)
(* fields are resolved in favour of the newest, and when the numbers reach *)
(* STAMP_MAX they are all given anew.  Values of fields and the time are   *)
(* left out; the calendar is lenient, as it is by default, so that         *)
(* computing the time does not fail.                                       *)
EXTENDS Integers, Sequences, FiniteSets, SequencesExt

CONSTANT STAMP_MAX

VARIABLES
  fStamp, fNextStamp,
  fIsTimeSet, fAreFieldsSet, fAreFieldsVirtuallySet,
  sets   \* the fields the caller has set and not cleared, the newest last

vars == <<fStamp, fNextStamp, fIsTimeSet, fAreFieldsSet, fAreFieldsVirtuallySet, sets>>

(* The fields that differ in how stamps are used: EXTENDED_YEAR is written *)
(* when the time is computed, JULIAN_DAY keeps it from being so.           *)
Fields == {"YEAR", "MONTH", "EXTENDED_YEAR", "JULIAN_DAY"}

kUnset == 0
kInternallySet == 1
kMinimumUserStamp == 2

Init ==
  /\ fStamp = [f \in Fields |-> kUnset] /\ fNextStamp = kMinimumUserStamp
  /\ fIsTimeSet = FALSE /\ fAreFieldsSet = FALSE /\ fAreFieldsVirtuallySet = FALSE
  /\ sets = <<>>
-----------------------------------------------------------------------------
(* computeFields, with the internalSet() of handleComputeFields.           *)
ComputedFields == [f \in Fields |-> kInternallySet]

(* recalculateStamp: again and again the lowest stamp above those already  *)
(* given anew gets the next number.                                        *)
RECURSIVE Recalculated(_, _)
Recalculated(stamps, next) ==
  LET higher == {f \in Fields : stamps[f] > next /\ stamps[f] < STAMP_MAX}
      index == CHOOSE f \in higher : \A g \in higher : stamps[f] <= stamps[g]
  IN IF higher = {} THEN [stamps |-> stamps, next |-> next + 1]
     ELSE Recalculated([stamps EXCEPT ![index] = next + 1], next + 1)

RecalculateNext(stamps) == [stamps |-> stamps, next |-> kMinimumUserStamp]

RecalculateStamp(stamps) == Recalculated(stamps, 1)

(* A change of a field makes the time, and the other fields, out of date.  *)
Changed == fIsTimeSet' = FALSE /\ fAreFieldsSet' = FALSE /\ fAreFieldsVirtuallySet' = FALSE

Stamps == IF fAreFieldsVirtuallySet THEN ComputedFields ELSE fStamp

Set(f) ==
  /\ LET r == IF fNextStamp = STAMP_MAX THEN RecalculateStamp(Stamps)
              ELSE [stamps |-> Stamps, next |-> fNextStamp]
     IN /\ fStamp' = [r.stamps EXCEPT ![f] = r.next]
        /\ fNextStamp' = r.next + 1
  /\ sets' = Append(Remove(sets, f), f)
  /\ Changed

ClearField(f) ==
  /\ fStamp' = [Stamps EXCEPT ![f] = kUnset]
  /\ sets' = Remove(sets, f)
  /\ Changed
  /\ UNCHANGED fNextStamp

Clear ==
  /\ fStamp' = [f \in Fields |-> kUnset]
  /\ sets' = <<>>
  /\ Changed
  /\ UNCHANGED fNextStamp

SetTimeInMillis ==
  /\ fStamp' = [f \in Fields |-> kUnset]
  /\ sets' = <<>>
  /\ fIsTimeSet' = TRUE /\ fAreFieldsSet' = FALSE /\ fAreFieldsVirtuallySet' = TRUE
  /\ UNCHANGED fNextStamp
-----------------------------------------------------------------------------
(* computeJulianDay: JULIAN_DAY counts when the caller set it after all    *)
(* other date fields; otherwise handleComputeJulianDay writes the year it  *)
(* resolved to EXTENDED_YEAR, by internalSet().                            *)
ComputeTime ==
  IF /\ fStamp["JULIAN_DAY"] >= kMinimumUserStamp
     /\ \A f \in Fields : fStamp[f] <= fStamp["JULIAN_DAY"]
  THEN fStamp
  ELSE [fStamp EXCEPT !["EXTENDED_YEAR"] = kInternallySet]

UpdateTime ==
  /\ fStamp' = ComputeTime
  /\ fIsTimeSet' = TRUE /\ fAreFieldsSet' = FALSE /\ fAreFieldsVirtuallySet' = FALSE

GetTimeInMillis == ~fIsTimeSet /\ UpdateTime /\ UNCHANGED <<fNextStamp, sets>>

(* get() completes the calendar: the time from the fields if need be, then *)
(* all fields from the time.                                               *)
Get ==
  /\ ~fAreFieldsSet
  /\ fStamp' = ComputedFields
  /\ sets' = <<>>
  /\ fAreFieldsVirtuallySet' = (fIsTimeSet /\ fAreFieldsVirtuallySet)
  /\ fIsTimeSet' = TRUE /\ fAreFieldsSet' = TRUE
  /\ UNCHANGED fNextStamp

Next ==
  \/ \E f \in Fields : Set(f) \/ ClearField(f)
  \/ Clear \/ SetTimeInMillis \/ GetTimeInMillis \/ Get

Spec == Init /\ [][Next]_vars
-----------------------------------------------------------------------------
(* "The calendar will give preference to fields set more recently"         *)
(* (calendar.h): the stamps of the fields that the caller has set are in   *)
(* the order of the calls, however often the numbers were given anew, no   *)
(* other field is taken for one of them, and the next number is above all. *)
(* Only EXTENDED_YEAR loses its stamp when the time is computed.           *)
StampsFollowSets ==
  LET kept == SelectSeq(sets, LAMBDA f : f # "EXTENDED_YEAR" \/ fStamp[f] # kInternallySet)
  IN /\ \A i \in DOMAIN kept : fStamp[kept[i]] \in kMinimumUserStamp .. fNextStamp - 1
     /\ \A i, j \in DOMAIN kept : i < j => fStamp[kept[i]] < fStamp[kept[j]]
     /\ \A f \in Fields \ ToSet(kept) : fStamp[f] \in {kUnset, kInternallySet}
     /\ fNextStamp <= STAMP_MAX
=============================================================================
