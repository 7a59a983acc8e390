----------------------------- MODULE MCListener -----------------------------
(***************************************************************************)
(* Queues for the listener's runs.                                         *)
(***************************************************************************)
EXTENDS Listener, TLC

CONSTANTS t1, t2

OneTask == {t1}
TwoTasks == {t1, t2}
NoTask == {}

SomeCapacities == {-1, 0}

Message(a, s, c) ==
  [available |-> a, started |-> s, completed |-> c, hasStats |-> TRUE, parses |-> TRUE]

(* Every kind of call; a list of two; nothing but the runner count; a      *)
(* message without statistics; one that does not parse.                    *)
Full == Message(TRUE, 1, 1)
Lists == Message(TRUE, 2, 2)
Count == Message(FALSE, 0, 0)
Started == Message(FALSE, 1, 0)
NoStatistics == [Full EXCEPT !.hasStats = FALSE]
Garbled == [Full EXCEPT !.parses = FALSE]

TwoBodies == <<Message(TRUE, 0, 0), Message(FALSE, 1, 0)>>
ManyBodies == <<Lists, Count, Full>>
BadBodies == <<Started, Garbled, NoStatistics>>
LiveBodies == <<Full, Count>>
ShortBodies == <<Started, Count>>
=============================================================================
