------------------------------ MODULE OnceSpec ------------------------------
(***************************************************************************)
(* What a once-control promises, without mutexes, states or wake-ups.      *)
(*                                                                         *)
(* Every once-control o has at most one outcome until it is reset.  The    *)
(* outcome is decided by the single thread that runs the initialiser, and  *)
(* a caller leaves only after there is an outcome.  A caller that leaves   *)
(* with success has seen the outcome "ok"; one that leaves a failed        *)
(* once-control carries the failure away in its error code.                *)
(***************************************************************************)
CONSTANTS Threads, Onces

VARIABLES
  outcome,  \* [Onces -> {"none", "ok", "fail"}]
  phase,    \* [Threads -> [Onces -> {"out", "in", "running"}]]
  err       \* [Threads -> {"ok", "fail"}]: the UErrorCode of a thread's call

vars == <<outcome, phase, err>>

Init ==
  /\ outcome = [o \in Onces |-> "none"]
  /\ phase = [t \in Threads |-> [o \in Onces |-> "out"]]
  /\ err = [t \in Threads |-> "ok"]

(* A thread enters a call of its own, or one nested in an initialiser it  *)
(* is running; it never enters with a failure in its error code.          *)
Enter(t, o) ==
  /\ phase[t][o] = "out"
  /\ phase' = [phase EXCEPT ![t][o] = "in"]
  /\ err' = [err EXCEPT ![t] = "ok"]
  /\ \/ err[t] = "ok"
     \/ \A p \in Onces : phase[t][p] = "out"
  /\ UNCHANGED outcome

(* One thread is elected to run the initialiser.                          *)
Elect(t, o) ==
  /\ phase[t][o] = "in"
  /\ outcome[o] = "none"
  /\ \A u \in Threads : phase[u][o] # "running"
  /\ phase' = [phase EXCEPT ![t][o] = "running"]
  /\ UNCHANGED <<outcome, err>>

(* The initialiser itself fails.                                          *)
Fails(t, o) ==
  /\ phase[t][o] = "running"
  /\ err' = [err EXCEPT ![t] = "fail"]
  /\ UNCHANGED <<outcome, phase>>

(* The elected thread publishes its error code as the outcome.            *)
Decide(t, o) ==
  /\ phase[t][o] = "running"
  /\ outcome[o] = "none"
  /\ outcome' = [outcome EXCEPT ![o] = err[t]]
  /\ phase' = [phase EXCEPT ![t][o] = "in"]
  /\ UNCHANGED err

(* A caller leaves, with the failure if that was the outcome.             *)
Leave(t, o) ==
  /\ phase[t][o] = "in"
  /\ outcome[o] # "none"
  /\ phase' = [phase EXCEPT ![t][o] = "out"]
  /\ err' = [err EXCEPT ![t] = IF outcome[o] = "fail" THEN "fail" ELSE @]
  /\ UNCHANGED outcome

(* Library clean-up, allowed when no thread is inside a call.             *)
Reset ==
  /\ \A t \in Threads, o \in Onces : phase[t][o] = "out"
  /\ outcome' = [o \in Onces |-> "none"]
  /\ UNCHANGED <<phase, err>>

Next ==
  \/ \E t \in Threads, o \in Onces :
       Enter(t, o) \/ Elect(t, o) \/ Fails(t, o) \/ Decide(t, o) \/ Leave(t, o)
  \/ Reset

Spec == Init /\ [][Next]_vars
=============================================================================
