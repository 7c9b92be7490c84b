------------------------- MODULE TTPRetransmission -------------------------
(***************************************************************************)
(* RetransmissionManager over TTPTimer (ttp/retransmission.py,             *)
(* ttp/timer.py).  The clock is abstracted to one event: a running timer   *)
(* becomes expired at some point after it was started, and stays expired   *)
(* until it is started again or stopped.  Nothing calls back: the          *)
(* connection polls `expired`.                                             *)
(***************************************************************************)
EXTENDS Integers

CONSTANT MaxRetries

ASSUME MaxRetriesAssumption == MaxRetries \in Nat

TimerState == {"stopped", "running", "expired"}

RetransmissionManager == [timer : TimerState, retries : Nat]

Fresh == [timer |-> "stopped", retries |-> 0]

Start(r) == [timer |-> "running", retries |-> 0]

Restart(r) == [timer |-> "running", retries |-> r.retries + 1]

Stop(r) == [timer |-> "stopped", retries |-> r.retries]

\* time.monotonic() passes started_at + timeout.
Expire(r) == [timer |-> "expired", retries |-> r.retries]

\* MUTANT: off by one.
ExhaustedTooLate(r) == r.retries > MaxRetries

Exhausted(r) == r.retries >= MaxRetries
=============================================================================
