----------------------------- MODULE HttpClient -----------------------------
(***************************************************************************)
(* RequestClient.get_text: one request at a time, retried with exponential *)
(* backoff, under a deadline that all requests of a run share.  `clock` is *)
(* the time since the deadline was set.  httpx bounds every phase of a     *)
(* request by the timeout, not the whole: a slow body may overrun it.      *)
(***************************************************************************)
EXTENDS Integers

CONSTANTS Deadline, Timeout, Retries, Backoff, Overrun

ASSUME HttpAssumption ==
  /\ Deadline \in Nat \ {0} /\ Timeout \in Nat \ {0}
  /\ Retries \in Nat /\ Backoff \in Nat /\ Overrun \in Nat

VARIABLES clock, attempt
clientVars == <<clock, attempt>>

ClientInit == clock = 0 /\ attempt = 0

Remaining == Deadline - clock
Expired   == Remaining <= 0

\* What an attempt may take: nothing to speak of, or all that it is given,
\* and then what a slow body adds.
RequestTimeout == IF Timeout <= Remaining THEN Timeout ELSE Remaining
Durations      == {0, RequestTimeout, RequestTimeout + Overrun}

Delay == Backoff * 2^attempt

\* Mutant: the backoff does not look at the deadline.
SleepsAnyway(took) == FALSE

\* No time is left for the backoff after the attempt.
NoTimeToSleep(took) == Delay > 0 /\ Delay >= Remaining - took

\* A response that is not an error.
Answered(took) ==
  /\ ~Expired
  /\ clock' = clock + took
  /\ attempt' = 0

\* A failure that may pass, another attempt, and the time to wait for it.
Retry(took) ==
  /\ ~Expired
  /\ attempt < Retries
  /\ ~NoTimeToSleep(took)
  /\ clock' = clock + took + Delay
  /\ attempt' = attempt + 1

\* SourceUnavailableError: a permanent answer, the last attempt, or a
\* backoff that the deadline does not leave room for.
GiveUp(took) ==
  /\ ~Expired
  /\ clock' = clock + took
  /\ attempt' = 0

\* SourceUnavailableError before the attempt: the deadline has passed.
Refuse ==
  /\ Expired
  /\ attempt' = 0
  /\ UNCHANGED clock

=============================================================================
