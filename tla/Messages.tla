------------------------------ MODULE Messages ------------------------------
(***************************************************************************)
(* The batches of job messages a scale set's queue holds, as far as        *)
(* src/listener.rs looks at them: which calls one batch obliges the        *)
(* listener to make, and in which order.  A statistics snapshot is named   *)
(* by a version: version v is what the service counted when it published   *)
(* message v, so a larger version is a newer count.                        *)
(***************************************************************************)
EXTENDS Integers, FiniteSets

CONSTANTS
  MaxId,  \* messages are numbered 1..MaxId in the order they are published
  Body    \* Body[m]: the fields of message m the listener reads

MessageIds == 1..MaxId

(* job_available_messages is only tested for emptiness; the two lists the  *)
(* listener walks through are known by their lengths.  parses is FALSE for *)
(* a response parse_runner_scale_set_message rejects, hasStats is FALSE    *)
(* when the optional statistics are missing.                               *)
MessageBody ==
  [available: BOOLEAN, started: Nat, completed: Nat,
   hasStats: BOOLEAN, parses: BOOLEAN]

ASSUME MessagesAssumption ==
  /\ MaxId \in Nat
  /\ Body \in [MessageIds -> MessageBody]

Kinds == {"acquire", "started", "completed", "desired"}

(* Calls(m): the calls that make up the processing of m; <<kind, k>> is    *)
(* the k-th call of that kind.                                             *)
Calls(m) ==
  (IF Body[m].available THEN {<<"acquire", 1>>} ELSE {})
    \cup {<<"started", k>> : k \in 1..Body[m].started}
    \cup {<<"completed", k>> : k \in 1..Body[m].completed}
    \cup {<<"desired", 1>>}

Rank == [acquire |-> 1, started |-> 2, completed |-> 3, desired |-> 4, delete |-> 5]

(* Before(m, kind, k): the calls of m that come ahead of <<kind, k>>.      *)
Before(m, kind, k) ==
  {c \in Calls(m) : Rank[c[1]] < Rank[kind] \/ (c[1] = kind /\ c[2] < k)}
=============================================================================
