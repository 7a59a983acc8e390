------------------------------ MODULE Transport ------------------------------
(***************************************************************************)
(* src/http.rs: one call of send_with_retry_statuses, with its retries.    *)
(* A status is one of the classes the code tells apart; u32 is narrowed to *)
(* 0..U32Max and time is counted in seconds.                               *)
(***************************************************************************)
EXTENDS Integers

CONSTANTS
  U32Max,      \* the largest u32
  RetryMaxes,  \* values of retry_max
  WaitCaps,    \* values of retry_wait_max, in seconds
  RetryAfters, \* what the Retry-After header may ask for, in seconds
  None         \* no value

ASSUME TransportAssumption ==
  /\ U32Max \in Nat \ {0}
  /\ RetryMaxes \subseteq 0..U32Max
  /\ WaitCaps \subseteq Nat
  /\ RetryAfters \subseteq Nat
  /\ None \notin Int \cup STRING

(* "denied" stands for 401 and 403, "other" for all that is never retried. *)
Statuses == {"ok", "429", "501", "503", "5xx", "denied", "other"}
Outcomes == Statuses \cup {"error"}

VARIABLES
  retryMax, \* options.retry_max
  cap,      \* options.retry_wait_max
  extra,    \* additional_retry_statuses
  clonable, \* whether the request's body can be sent twice
  pc,       \* "start", "sending", "waiting" between two attempts, "done"
  attempt,  \* the attempt being made, from 0
  lastErr,  \* last_err is set
  result,   \* an outcome, or the error "request failed"
  \* history
  outcome,  \* how the last attempt ended
  arrived,  \* how often the request has reached the service, up to U32Max + 1
  slept,    \* how long the call has slept between its attempts
  asked     \* how long the service has asked it to

options == <<retryMax, cap, extra, clonable>>
vars == <<options, pc, attempt, lastErr, result, outcome, arrived, slept, asked>>

SmallerOf(a, b) == IF a <= b THEN a ELSE b

(* saturating_add: with retry_max at its limit, one attempt fewer.         *)
AttemptsWrapping == (retryMax + 1) % (U32Max + 1)  \* mutant: wrapping_add
Attempts == SmallerOf(retryMax + 1, U32Max)

(* should_retry_status, and the statuses this request adds to it.          *)
ShouldRetryServerErrors(s) == s \in {"429", "501", "503", "5xx"} \cup extra  \* mutant: every 5xx
ShouldRetry(s) == s \in {"429", "503", "5xx"} \cup extra

(* backoff_duration: one second, doubled after each attempt; saturating at *)
(* the largest u32, and at most cap.                                       *)
BackoffDurationUncapped(k) == SmallerOf(2 ^ k, U32Max)  \* mutant: no cap
BackoffDuration(k) ==
  LET longest == SmallerOf(U32Max, cap)
  IN  IF 2 ^ k \in 0..longest THEN 2 ^ k ELSE longest

(* retry_after_duration: only 429 and 503 are asked for the header.        *)
RetryAfter(s) == IF s \in {"429", "503"} THEN RetryAfters \cup {None} ELSE {None}

-----------------------------------------------------------------------------
Init ==
  /\ retryMax \in RetryMaxes
  /\ cap \in WaitCaps
  /\ extra \in {{}, {"denied"}}
  /\ clonable \in BOOLEAN
  /\ pc = "start"
  /\ attempt = 0
  /\ lastErr = FALSE
  /\ result = None /\ outcome = None
  /\ arrived = 0 /\ slept = 0 /\ asked = 0

Return(r) == pc' = "done" /\ result' = r

(* The head of the loop, before attempt k; behind it, unwrap_or_else.      *)
Loop(k) ==
  IF k < Attempts
  THEN pc' = "sending" /\ attempt' = k /\ UNCHANGED result
  ELSE Return(IF lastErr THEN "error" ELSE "request failed") /\ UNCHANGED attempt

Arrives == arrived' = SmallerOf(arrived + 1, U32Max + 1)

(* backoff: as long as the service asks for, or else the backoff's own.    *)
Backoff(after) ==
  /\ pc' = "waiting"
  /\ slept' = slept + (IF after = None THEN BackoffDuration(attempt) ELSE after)
  /\ asked' = asked + (IF after = None THEN 0 ELSE after)
  /\ UNCHANGED result

-----------------------------------------------------------------------------
Enter ==
  /\ pc = "start"
  /\ Loop(0)
  /\ UNCHANGED <<options, lastErr, outcome, arrived, slept, asked>>

(* The body cannot be sent twice: one attempt, whatever comes of it.       *)
SendOnce ==
  /\ pc = "sending"
  /\ ~clonable
  /\ \E o \in Outcomes :
       /\ outcome' = o
       /\ Return(o)
       /\ Arrives \/ (o = "error" /\ UNCHANGED arrived)
  /\ UNCHANGED <<options, attempt, lastErr, slept, asked>>

(* The service answers.                                                    *)
Answer(s) ==
  /\ pc = "sending"
  /\ clonable
  /\ Arrives
  /\ outcome' = s
  /\ \/ /\ ~ShouldRetry(s) \/ attempt + 1 >= Attempts
        /\ Return(s)
        /\ UNCHANGED <<slept, asked>>
     \/ /\ ShouldRetry(s) /\ attempt + 1 < Attempts
        /\ \E after \in RetryAfter(s) : Backoff(after)
  /\ UNCHANGED <<options, attempt, lastErr>>

(* The attempt ends in an error: the connection, or options.timeout.  The  *)
(* request may have reached the service.                                   *)
SendFails ==
  /\ pc = "sending"
  /\ clonable
  /\ Arrives \/ UNCHANGED arrived
  /\ outcome' = "error"
  /\ lastErr' = TRUE
  /\ \/ /\ attempt + 1 >= Attempts
        /\ Return("error")
        /\ UNCHANGED <<slept, asked>>
     \/ /\ attempt + 1 < Attempts
        /\ Backoff(None)
  /\ UNCHANGED <<options, attempt>>

(* The sleep is over.                                                      *)
WakeForgetful ==  \* mutant: the attempts are not counted
  /\ pc = "waiting"
  /\ Loop(attempt)
  /\ UNCHANGED <<options, lastErr, outcome, arrived, slept, asked>>

Wake ==
  /\ pc = "waiting"
  /\ Loop(attempt + 1)
  /\ UNCHANGED <<options, lastErr, outcome, arrived, slept, asked>>

Step == Enter \/ SendOnce \/ (\E s \in Statuses : Answer(s)) \/ SendFails \/ Wake

Next == Step \/ (pc = "done" /\ UNCHANGED vars)

Spec == Init /\ [][Next]_vars

-----------------------------------------------------------------------------
TypeOK ==
  /\ retryMax \in 0..U32Max
  /\ cap \in Nat
  /\ extra \subseteq Statuses
  /\ clonable \in BOOLEAN
  /\ pc \in {"start", "sending", "waiting", "done"}
  /\ attempt \in 0..Attempts - 1
  /\ lastErr \in BOOLEAN
  /\ result \in Outcomes \cup {None}
  /\ outcome \in Outcomes \cup {None}
  /\ arrived \in 0..U32Max + 1
  /\ slept \in Nat
  /\ asked \in Nat

(* The service never sees a request more often than retry_max + 1 times,   *)
(* which is what bounds the duplicates of a request that is not idempotent.*)
AttemptsBounded == arrived <= retryMax + 1

(* What the caller gets is how the last attempt ended: not an error of an  *)
(* earlier one (last_err outlives it), and never the made-up "request      *)
(* failed", whatever retry_max is.                                         *)
ResultIsLastOutcome == pc = "done" => result = outcome

(* A request is made again only after an error, or an answer that says to  *)
(* try again: once accepted or refused, by a 501 too, it is not repeated.  *)
OnlyRetryableRepeated ==
  [][arrived' > arrived => outcome \in {None, "error", "429", "503", "5xx"} \cup extra]_vars

(* But for what the service asks for, which nothing bounds, the waits of a *)
(* call add up to at most retry_max times retry_wait_max.                  *)
SleepBounded == slept <= asked + retryMax * cap
=============================================================================
