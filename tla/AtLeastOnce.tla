----------------------------- MODULE AtLeastOnce -----------------------------
(***************************************************************************)
(* What the listener promises about the message queue (README.md,          *)
(* "Message acknowledgment", and the module comment of src/lib.rs): a      *)
(* message is removed from the queue only when every call it asks for has  *)
(* succeeded, the calls of one message succeed in their order, and a       *)
(* message stays available until then.  A call may be repeated any number  *)
(* of times, before and after the acknowledgment.                          *)
(***************************************************************************)
EXTENDS Messages

VARIABLES
  next,   \* the id the next published message will get
  queue,  \* ids of the messages the service still holds
  done    \* done[m]: the calls of m that have succeeded at least once

vars == <<next, queue, done>>

Init ==
  /\ next = 1
  /\ queue = {}
  /\ done = [m \in MessageIds |-> {}]

Publish ==
  /\ next <= MaxId
  /\ next' = next + 1
  /\ queue' = queue \cup {next}
  /\ UNCHANGED done

(* A call of a published message succeeds: never ahead of an earlier one.  *)
Deliver(m, c) ==
  /\ m < next
  /\ Before(m, c[1], c[2]) \subseteq done[m]
  /\ done' = [done EXCEPT ![m] = @ \cup {c}]
  /\ UNCHANGED <<next, queue>>

(* Messages leave the queue, all of their calls made.  Several at once,    *)
(* because one crash may leave several delete requests in flight.          *)
Acknowledge(S) ==
  /\ \A m \in S : Calls(m) \subseteq done[m]
  /\ queue' = queue \ S
  /\ UNCHANGED <<next, done>>

Next ==
  \/ Publish
  \/ \E m \in MessageIds : \E c \in Calls(m) : Deliver(m, c)
  \/ \E S \in SUBSET queue : Acknowledge(S)

Spec == Init /\ [][Next]_vars
=============================================================================
