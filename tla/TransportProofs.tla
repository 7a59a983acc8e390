--------------------------- MODULE TransportProofs ---------------------------
(***************************************************************************)
(* Theorems about the module Transport, for every width of u32 and all     *)
(* options: the retries of a call are bounded in number and in time, and   *)
(* its result is that of its last attempt.                                 *)
(***************************************************************************)
EXTENDS Transport, TLAPS

USE TransportAssumption

(* There is always a first attempt, and never more than retry_max + 1.     *)
LEMMA AttemptsRange ==
  ASSUME retryMax \in 0..U32Max
  PROVE  Attempts \in 1..U32Max /\ Attempts <= retryMax + 1
BY DEF Attempts, SmallerOf

(* Without a Retry-After header a wait is at most retry_wait_max.          *)
LEMMA BackoffRange ==
  ASSUME cap \in Nat, NEW k \in Nat
  PROVE  BackoffDuration(k) \in 0..cap
<1> DEFINE d == 2 ^ k
<1>1. SmallerOf(U32Max, cap) \in 0..cap
  BY DEF SmallerOf
<1>2. ASSUME NEW n \in 0..cap PROVE (IF d \in 0..n THEN d ELSE n) \in 0..cap
  <2> HIDE DEF d
  <2> QED BY <1>2
<1> QED BY <1>1, <1>2 DEF BackoffDuration

-----------------------------------------------------------------------------
(* What holds wherever the call is: before attempt k it has been sent at   *)
(* most k times and has slept at most k times, and a call that sleeps has  *)
(* an attempt left.                                                        *)
Progress ==
  /\ pc = "start" => attempt = 0 /\ arrived = 0 /\ slept = asked
  /\ pc = "sending" => arrived <= attempt /\ slept <= asked + attempt * cap
  /\ pc = "waiting" =>
       /\ attempt + 1 < Attempts
       /\ arrived <= attempt + 1
       /\ slept <= asked + (attempt + 1) * cap
  /\ pc = "done" => result = outcome

TInv == TypeOK /\ AttemptsBounded /\ SleepBounded /\ Progress

(* A call that has made k attempts has not slept more than retry_max caps. *)
LEMMA Waits ==
  ASSUME NEW c \in Nat, NEW k \in Nat, NEW n \in Nat, k <= n
  PROVE  k * c <= n * c /\ k * c \in Nat /\ n * c \in Nat /\ (k + 1) * c = k * c + c
<1>1. PICK d \in Nat : n = k + d
  <2>1. n - k \in Nat /\ n = k + (n - k)
    OBVIOUS
  <2> QED BY <2>1
<1>2. d * c \in Nat /\ k * c \in Nat
  OBVIOUS
<1>3. n * c = k * c + d * c
  BY <1>1
<1>4. (k + 1) * c = k * c + c
  OBVIOUS
<1> QED BY <1>2, <1>3, <1>4

LEMMA Invariance == Spec => []TInv
<1>1. Init => TInv
  <2> SUFFICES ASSUME Init PROVE TInv
    OBVIOUS
  <2>1. retryMax \in 0..U32Max /\ cap \in Nat
    BY DEF Init
  <2>2. TypeOK
    <3>1. Attempts \in 1..U32Max /\ 0 \in 0..Attempts - 1
      BY <2>1, AttemptsRange
    <3>2. extra \subseteq Statuses
      BY DEF Init, Statuses
    <3>3. arrived \in 0..U32Max + 1
      BY DEF Init
    <3> QED BY <2>1, <3>1, <3>2, <3>3 DEF Init, TypeOK
  <2>3. retryMax * cap \in Nat
    BY <2>1
  <2> QED BY <2>1, <2>2, <2>3 DEF Init, TInv, Progress, AttemptsBounded, SleepBounded
<1>2. TInv /\ [Next]_vars => TInv'
  <2> SUFFICES ASSUME TInv, [Next]_vars PROVE TInv'
    OBVIOUS
  <2> USE DEF TInv
  <2>1. TypeOK /\ attempt \in Nat /\ Attempts \in 1..U32Max /\ Attempts <= retryMax + 1
    BY AttemptsRange DEF TypeOK
  <2>2. BackoffDuration(attempt) \in 0..cap
    BY <2>1, BackoffRange DEF TypeOK
  <2>3. /\ retryMax \in Nat /\ cap \in Nat
        /\ attempt * cap \in Nat /\ (attempt + 1) * cap = attempt * cap + cap
        /\ attempt + 1 < Attempts => (attempt + 1) * cap <= retryMax * cap
        /\ retryMax * cap \in Nat
    <3>1. retryMax \in Nat /\ cap \in Nat /\ attempt <= retryMax
      BY <2>1 DEF TypeOK
    <3>2. attempt + 1 < Attempts => attempt + 1 <= retryMax
      BY <2>1, <3>1
    <3>3. attempt * cap \in Nat /\ (attempt + 1) * cap = attempt * cap + cap
          /\ retryMax * cap \in Nat
      BY <2>1, <3>1, Waits
    <3>4. attempt + 1 <= retryMax => (attempt + 1) * cap <= retryMax * cap
      BY <2>1, <3>1, Waits, attempt + 1 \in Nat
    <3> QED BY <3>1, <3>2, <3>3, <3>4
  <2>4. ASSUME UNCHANGED options PROVE Attempts' = Attempts
    BY <2>4 DEF options, Attempts
  <2>5. ASSUME Enter PROVE TInv'
    <3>1. pc' = "sending" /\ attempt' = 0 /\ UNCHANGED result
      <4>1. 0 < Attempts
        BY <2>1
      <4> QED BY <2>5, <4>1 DEF Enter, Loop
    <3> QED BY <2>1, <2>3, <2>4, <2>5, <3>1
            DEF Enter, TypeOK, Progress, AttemptsBounded, SleepBounded, options
  <2>6. ASSUME Wake PROVE TInv'
    <3>1. pc' = "sending" /\ attempt' = attempt + 1 /\ UNCHANGED result
      BY <2>1, <2>6 DEF Wake, Loop, Progress
    <3> QED BY <2>1, <2>3, <2>4, <2>6, <3>1
            DEF Wake, TypeOK, Progress, AttemptsBounded, SleepBounded, options
  <2>7. ASSUME Arrives \/ UNCHANGED arrived, pc = "sending", UNCHANGED <<options, attempt>>
        PROVE  /\ arrived' \in 0..U32Max + 1
               /\ arrived' <= attempt + 1
               /\ arrived' <= retryMax + 1
    BY <2>1, <2>3, <2>7 DEF Arrives, SmallerOf, TypeOK, Progress
  <2>8. ASSUME NEW a \in Nat \cup {None}, Backoff(a)
        PROVE  /\ slept' \in Nat /\ asked' \in Nat
               /\ slept <= asked + attempt * cap => slept' <= asked' + (attempt + 1) * cap
    <3> DEFINE b == BackoffDuration(attempt)
    <3>1. CASE a = None
      <4>1. slept' = slept + b /\ asked' = asked + 0
        BY <2>8, <3>1 DEF Backoff
      <4> HIDE DEF b
      <4>2. b \in 0..cap
        BY <2>2 DEF b
      <4> QED BY <4>1, <4>2, <2>3, <2>1 DEF TypeOK
    <3>2. CASE a # None
      <4>1. slept' = slept + a /\ asked' = asked + a /\ a \in Nat
        BY <2>8, <3>2 DEF Backoff
      <4> QED BY <4>1, <2>3, <2>1 DEF TypeOK
    <3> QED BY <3>1, <3>2
  <2>9. ASSUME SendOnce PROVE TInv'
    <3>1. PICK o \in Outcomes : outcome' = o /\ Return(o)
      BY <2>9 DEF SendOnce
    <3>2. (Arrives \/ UNCHANGED arrived) /\ UNCHANGED <<options, attempt, lastErr, slept, asked>>
          /\ pc = "sending"
      BY <2>9 DEF SendOnce
    <3> QED BY <2>1, <2>4, <2>7, <3>1, <3>2
            DEF Return, TypeOK, Progress, AttemptsBounded, SleepBounded, options
  <2>10. ASSUME Arrives \/ UNCHANGED arrived, pc = "sending",
                UNCHANGED <<options, attempt>>, lastErr' \in BOOLEAN,
                NEW o \in Outcomes, outcome' = o,
                \/ Return(o) /\ UNCHANGED <<slept, asked>>
                \/ attempt + 1 < Attempts /\ \E a \in Nat \cup {None} : Backoff(a)
         PROVE  TInv'
    <3>1. CASE Return(o) /\ UNCHANGED <<slept, asked>>
      BY <2>1, <2>4, <2>7, <2>10, <3>1
      DEF Return, TypeOK, Progress, AttemptsBounded, SleepBounded, options
    <3>2. CASE attempt + 1 < Attempts /\ \E a \in Nat \cup {None} : Backoff(a)
      <4>1. PICK a \in Nat \cup {None} : Backoff(a)
        BY <3>2
      <4>2. pc' = "waiting" /\ UNCHANGED result
        BY <4>1 DEF Backoff
      <4>3. slept' \in Nat /\ asked' \in Nat /\ slept' <= asked' + (attempt + 1) * cap
        BY <4>1, <2>8, <2>10 DEF Progress
      <4>4. slept' <= asked' + retryMax * cap
        <5>1. ASSUME NEW p \in Nat, NEW q \in Nat, NEW x \in Nat, NEW y \in Nat,
                     p <= q + x, x <= y
              PROVE  p <= q + y
          BY <5>1
        <5>2. (attempt + 1) * cap \in Nat /\ retryMax * cap \in Nat
              /\ (attempt + 1) * cap <= retryMax * cap
          BY <3>2, <2>3
        <5> QED BY <4>3, <5>1, <5>2
      <4>5. UNCHANGED <<retryMax, cap, extra, clonable, attempt, Attempts>>
        BY <2>4, <2>10 DEF options
      <4>6. SleepBounded'
        BY <4>4, <4>5 DEF SleepBounded
      <4>7. AttemptsBounded'
        BY <2>7, <2>10, <4>5 DEF AttemptsBounded
      <4>8. TypeOK'
        BY <2>7, <2>10, <4>2, <4>3, <4>5 DEF TypeOK
      <4>9. Progress'
        BY <2>7, <2>10, <3>2, <4>2, <4>3, <4>5 DEF Progress
      <4> QED BY <4>6, <4>7, <4>8, <4>9
    <3> QED BY <2>10, <3>1, <3>2
  <2>11. ASSUME NEW s \in Statuses, Answer(s) PROVE TInv'
    <3>1. ASSUME NEW a \in RetryAfter(s) PROVE a \in Nat \cup {None}
      BY DEF RetryAfter
    <3>2. s \in Outcomes
      BY DEF Outcomes
    <3> QED BY <2>1, <2>10, <2>11, <3>1, <3>2 DEF Answer, TypeOK
  <2>12. ASSUME SendFails PROVE TInv'
    <3>1. "error" \in Outcomes
      BY DEF Outcomes
    <3> QED BY <2>10, <2>12, <3>1 DEF SendFails
  <2>13. ASSUME UNCHANGED vars PROVE TInv'
    BY <2>4, <2>13 DEF vars, options, TypeOK, Progress, AttemptsBounded, SleepBounded
  <2> QED BY <2>5, <2>6, <2>9, <2>11, <2>12, <2>13 DEF Next, Step
<1> QED BY <1>1, <1>2, PTL DEF Spec

-----------------------------------------------------------------------------
(* Type correctness; the attempt stays below the number of attempts.       *)
THEOREM Typing == Spec => []TypeOK
BY Invariance, PTL DEF TInv

(* send_with_retry_statuses makes a request at most retry_max + 1 times,   *)
(* also when retry_max is the largest u32.                                 *)
THEOREM BoundedAttempts == Spec => []AttemptsBounded
BY Invariance, PTL DEF TInv

(* The caller gets the outcome of the last attempt, and "request failed"   *)
(* is unreachable.                                                         *)
THEOREM LastOutcome == Spec => []ResultIsLastOutcome
<1>1. TInv => ResultIsLastOutcome
  BY DEF TInv, Progress, ResultIsLastOutcome
<1> QED BY Invariance, <1>1, PTL

(* But for Retry-After, a call sleeps at most retry_max * retry_wait_max.  *)
THEOREM BoundedSleep == Spec => []SleepBounded
BY Invariance, PTL DEF TInv

(* The call sleeps only before a request that may be repeated, so no       *)
(* request is made again once it is accepted or refused.                   *)
Sleeping ==
  /\ pc \in {"start"} => outcome = None
  /\ pc = "sending" \/ pc = "waiting" =>
       outcome \in {None, "error", "429", "503", "5xx"} \cup extra

THEOREM RepeatsOnlyRetryable == Spec => OnlyRetryableRepeated
<1>1. Init => Sleeping
  BY DEF Init, Sleeping
<1>2. Sleeping /\ [Next]_vars => Sleeping'
  <2> SUFFICES ASSUME Sleeping, [Next]_vars PROVE Sleeping'
    OBVIOUS
  <2>1. ASSUME Enter PROVE Sleeping'
    BY <2>1 DEF Enter, Loop, Return, Sleeping, options
  <2>2. ASSUME Wake PROVE Sleeping'
    BY <2>2 DEF Wake, Loop, Return, Sleeping, options
  <2>3. ASSUME SendOnce PROVE Sleeping'
    BY <2>3 DEF SendOnce, Return, Sleeping
  <2>4. ASSUME NEW s \in Statuses, Answer(s) PROVE Sleeping'
    <3>1. CASE Return(s)
      BY <3>1 DEF Return, Sleeping
    <3>2. CASE ShouldRetry(s) /\ pc' = "waiting"
      BY <3>2, <2>4 DEF Answer, ShouldRetry, Sleeping, options
    <3> QED BY <2>4, <3>1, <3>2 DEF Answer, Backoff
  <2>5. ASSUME SendFails PROVE Sleeping'
    BY <2>5 DEF SendFails, Return, Backoff, Sleeping
  <2>6. ASSUME UNCHANGED vars PROVE Sleeping'
    BY <2>6 DEF vars, options, Sleeping
  <2> QED BY <2>1, <2>2, <2>3, <2>4, <2>5, <2>6 DEF Next, Step
<1>3. TypeOK /\ Sleeping /\ [Next]_vars =>
        [arrived' > arrived => outcome \in {None, "error", "429", "503", "5xx"} \cup extra]_vars
  <2> SUFFICES ASSUME TypeOK, Sleeping, Next, arrived' # arrived
               PROVE  outcome \in {None, "error", "429", "503", "5xx"} \cup extra
    BY DEF TypeOK, vars
  <2>1. pc = "sending"
    BY DEF Next, Step, Enter, Wake, SendOnce, Answer, SendFails, vars
  <2> QED BY <2>1 DEF Sleeping
<1> QED BY <1>1, <1>2, <1>3, Typing, PTL DEF Spec, OnlyRetryableRepeated
=============================================================================
