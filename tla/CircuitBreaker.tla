---------------------------- MODULE CircuitBreaker ----------------------------
(***************************************************************************)
(* AsyncCircuitBreaker of backend/app/services/circuit_breaker.py, with    *)
(* its two kinds of caller: call(), which records the outcome and lets the *)
(* trial slot go in one piece of the event loop, and the token stream of   *)
(* llm_client.py, which may wait for the response body between the two.    *)
(*                                                                         *)
(* No critical section of the breaker awaits, so each is one step.  The    *)
(* monotonic clock is abstracted to whether the reset timeout has elapsed  *)
(* since _last_failure_time was set.                                       *)
(***************************************************************************)
EXTENDS Integers, FiniteSets

CONSTANTS
    Calls,             \* concurrent callers
    Streams,           \* those that are token streams
    FailMax,           \* fail_max
    SuccessThreshold,  \* success_threshold
    MaxResets          \* bound: reconfigurations in a behaviour

ASSUME StreamsAssumption == Streams \subseteq Calls
ASSUME ThresholdsAssumption ==
    FailMax \in Nat \ {0} /\ SuccessThreshold \in Nat \ {0} /\ MaxResets \in Nat

VARIABLES
    state,     \* _state
    fails,     \* _fail_counter
    succs,     \* _success_counter
    clock,     \* _last_failure_time: None, within reset_timeout, or past it
    trial,     \* _half_open_trial
    phase,     \* where each caller is
    holder,    \* callers whose holds_trial is TRUE
    answering, \* the service answers every call from now on
    overtaken, \* an outcome or a reset has overtaken a trial in flight
    resets     \* resets so far

breaker == <<state, fails, succs, clock, trial>>
breakerVars == <<breaker, phase, holder, answering, overtaken, resets>>

BreakerTypeOK ==
    /\ state \in {"closed", "open", "half_open"}
    /\ fails \in Nat /\ succs \in Nat /\ resets \in Nat
    /\ clock \in {"none", "running", "elapsed"}
    /\ trial \in BOOLEAN /\ answering \in BOOLEAN /\ overtaken \in BOOLEAN
    /\ phase \in [Calls -> {"away", "calling", "draining"}]
    /\ holder \subseteq Calls

BreakerInit ==
    /\ state = "closed" /\ fails = 0 /\ succs = 0
    /\ clock = "none" /\ trial = FALSE
    /\ phase = [c \in Calls |-> "away"]
    /\ holder = {}
    /\ answering = FALSE /\ overtaken = FALSE /\ resets = 0

-------------------------------------------------------------------------------
(* The transitions, on the fields they assign.                             *)

ToOpen == state' = "open" /\ clock' = "running" /\ UNCHANGED succs

ToClosed ==
    /\ state' = "closed" /\ fails' = 0 /\ succs' = 0
    /\ clock' = "none" /\ trial' = FALSE

\* record_failure, which leaves the trial slot to its holder.
RecordFailure ==
    \/ /\ state = "half_open"
       /\ ToOpen /\ UNCHANGED fails
    \/ /\ state = "closed"
       /\ fails' = fails + 1
       /\ IF fails + 1 >= FailMax THEN ToOpen ELSE UNCHANGED <<state, succs, clock>>
    \/ /\ state = "open"
       /\ UNCHANGED <<state, fails, succs, clock>>

\* Deviation: a successful trial starts the count over.
RecordSuccessRestarting(slot) ==
    \/ /\ state = "half_open" /\ SuccessThreshold = 1
       /\ ToClosed
    \/ /\ state = "half_open" /\ SuccessThreshold > 1
       /\ succs' = 1 /\ trial' = slot
       /\ UNCHANGED <<state, fails, clock>>
    \/ /\ state = "closed"
       /\ fails' = 0 /\ trial' = slot
       /\ UNCHANGED <<state, succs, clock>>
    \/ /\ state = "open"
       /\ trial' = slot
       /\ UNCHANGED <<state, fails, succs, clock>>

\* record_success, after which trial is slot unless the breaker closes.
RecordSuccess(slot) ==
    \/ /\ state = "half_open" /\ succs + 1 >= SuccessThreshold
       /\ ToClosed
    \/ /\ state = "half_open" /\ succs + 1 < SuccessThreshold
       /\ succs' = succs + 1 /\ trial' = slot
       /\ UNCHANGED <<state, fails, clock>>
    \/ /\ state = "closed"
       /\ fails' = 0 /\ trial' = slot
       /\ UNCHANGED <<state, succs, clock>>
    \/ /\ state = "open"
       /\ trial' = slot
       /\ UNCHANGED <<state, fails, succs, clock>>

\* The trial slot once c has let go of it: release_trial clears it for whoever
\* holds it, as long as c was admitted as a trial.
SlotAfter(c) == trial /\ c \notin holder

-------------------------------------------------------------------------------
(* Callers.                                                                *)

\* Deviation: a trial is admitted although the slot is taken.
EnterRegardless(c) ==
    /\ phase[c] = "away"
    /\ state = "half_open" \/ (state = "open" /\ clock = "elapsed")
    /\ state' = "half_open"
    /\ trial' = TRUE
    /\ holder' = holder \cup {c}
    /\ succs' = IF state = "open" THEN 0 ELSE succs
    /\ phase' = [phase EXCEPT ![c] = "calling"]
    /\ UNCHANGED <<fails, clock, answering, overtaken, resets>>

\* acquire_trial_or_raise in CLOSED: no slot to hold.
EnterClosed(c) ==
    /\ phase[c] = "away"
    /\ state = "closed"
    /\ phase' = [phase EXCEPT ![c] = "calling"]
    /\ UNCHANGED <<breaker, holder, answering, overtaken, resets>>

\* acquire_trial_or_raise in HALF_OPEN, or in OPEN once the timeout has elapsed:
\* _check_timeout half-opens, and the caller takes the slot if it is free.
EnterTrial(c) ==
    /\ phase[c] = "away"
    /\ state = "half_open" \/ (state = "open" /\ clock = "elapsed")
    /\ ~trial
    /\ state' = "half_open"
    /\ succs' = IF state = "open" THEN 0 ELSE succs
    /\ trial' = TRUE
    /\ holder' = holder \cup {c}
    /\ phase' = [phase EXCEPT ![c] = "calling"]
    /\ UNCHANGED <<fails, clock, answering, overtaken, resets>>

\* A rejection half-opens an expired OPEN breaker all the same.
EnterRejected(c) ==
    /\ phase[c] = "away"
    /\ state = "open" /\ clock = "elapsed" /\ trial
    /\ state' = "half_open" /\ succs' = 0
    /\ UNCHANGED <<fails, clock, trial, phase, holder, answering, overtaken, resets>>

\* c reports an outcome while another caller's trial is in flight.
Overtakes(c) == overtaken' = (overtaken \/ (state = "half_open" /\ c \notin holder /\ holder # {}))

Leave(c) ==
    /\ phase' = [phase EXCEPT ![c] = "away"]
    /\ holder' = holder \ {c}
    /\ UNCHANGED <<answering, resets>>

Succeed(c) ==
    /\ phase[c] = "calling"
    /\ RecordSuccess(SlotAfter(c)) /\ Overtakes(c)
    /\ Leave(c)

\* call(): the failure and the release are one step of the event loop.
Fail(c) ==
    /\ phase[c] = "calling" /\ ~answering
    /\ RecordFailure /\ Overtakes(c)
    /\ trial' = SlotAfter(c)
    /\ Leave(c)

\* A stream records the failure, then waits for the response to close or for the
\* error body before its finally clause runs.
FailStream(c) ==
    /\ c \in Streams
    /\ phase[c] = "calling" /\ ~answering
    /\ RecordFailure /\ Overtakes(c)
    /\ phase' = [phase EXCEPT ![c] = "draining"]
    /\ UNCHANGED <<trial, holder, answering, resets>>

\* Deviation: an unrecorded end skips the release.
EndUnrecordedKeepsSlot(c) ==
    /\ phase[c] = "draining" \/ (phase[c] = "calling" /\ ~answering)
    /\ UNCHANGED <<breaker, overtaken>>
    /\ Leave(c)

\* A neutral error, a cancellation, a closed generator, or the end of a drain:
\* nothing is recorded.
EndUnrecorded(c) ==
    /\ phase[c] = "draining" \/ (phase[c] = "calling" /\ ~answering)
    /\ trial' = SlotAfter(c)
    /\ UNCHANGED <<state, fails, succs, clock, overtaken>>
    /\ Leave(c)

-------------------------------------------------------------------------------
(* The environment.                                                        *)

ResetTimeoutElapses ==
    /\ clock = "running"
    /\ clock' = "elapsed"
    /\ UNCHANGED <<state, fails, succs, trial, phase, holder, answering, overtaken, resets>>

ServiceRecovers ==
    /\ ~answering
    /\ answering' = TRUE
    /\ UNCHANGED <<breaker, phase, holder, overtaken, resets>>

\* reset: the endpoint is reconfigured, whatever is in flight.
Reset ==
    /\ resets < MaxResets
    /\ ToClosed
    /\ resets' = resets + 1
    /\ overtaken' = (overtaken \/ holder # {})
    /\ UNCHANGED <<phase, holder, answering>>

-------------------------------------------------------------------------------
Enter(c) == EnterClosed(c) \/ EnterTrial(c) \/ EnterRejected(c)

End(c) == Succeed(c) \/ Fail(c) \/ FailStream(c) \/ EndUnrecorded(c)

BreakerNext ==
    \/ \E c \in Calls : Enter(c) \/ End(c)
    \/ ResetTimeoutElapses
    \/ ServiceRecovers
    \/ Reset

BreakerSpec == BreakerInit /\ [][BreakerNext]_breakerVars

\* Every HTTP call is bounded by a timeout, callers keep coming, and the clock
\* advances; nothing obliges the service to recover.
BreakerFairness ==
    /\ WF_breakerVars(\E c \in Calls : Enter(c))
    /\ \A c \in Calls : WF_breakerVars(End(c))
    /\ WF_breakerVars(ResetTimeoutElapses)

BreakerFairSpec == BreakerSpec /\ BreakerFairness

-------------------------------------------------------------------------------
(* Safety.                                                                 *)

\* A taken trial slot always has a caller in flight that will let it go: no
\* outcome, neutral error, cancelled stream or reset wedges the breaker
\* half-open with nobody on trial.
SlotHasItsHolder ==
    trial => \E c \in holder : phase[c] # "away"

\* CLOSED has not used up its failure budget and HALF_OPEN not its success
\* threshold, and an OPEN breaker knows when it opened, or it would stay open.
BudgetsAreOpen ==
    /\ state = "closed" => fails < FailMax
    /\ state = "half_open" => succs < SuccessThreshold
    /\ state # "closed" => clock # "none"

\* Not quite one trial at a time, since the slot has no owner: two trials are in flight together only after a
\* call admitted before the breaker opened reported into the trial's HALF_OPEN, or
\* a reset came while the trial was in flight.
OneTrialUnlessOvertaken == ~overtaken => \A c, d \in holder : c = d

-------------------------------------------------------------------------------
(* Liveness.                                                               *)

\* Once the service answers every call, the breaker closes for good, whatever
\* calls were in flight and whoever held the trial slot.
RecoversWithTheService == [](answering => <>[](state = "closed"))

===============================================================================
