------------------------------ MODULE Listener ------------------------------
(***************************************************************************)
(* src/listener.rs: the loop that long-polls a scale set's queue, hands    *)
(* every message to the Scaler and then deletes it.  The messages' service *)
(* and the Scaler are the environment.  A task is one future that runs     *)
(* run, run_until or handle_one on the one shared Listener; the code       *)
(* between two awaits is one step.                                         *)
(***************************************************************************)
EXTENDS Messages

CONSTANTS
  Tasks,      \* the tasks that share the Listener
  Stoppable,  \* those that call run_until, with a stop receiver; others run
  Handlers,   \* those that may call handle_one instead of a run
  Capacities, \* the values max_runners is given
  NilSessions \* whether the service may send a session without statistics

ASSUME ListenerAssumption ==
  /\ Stoppable \subseteq Tasks
  /\ Handlers \subseteq Tasks
  /\ Capacities \subseteq Int
  /\ NilSessions \in BOOLEAN

NoStats == -1              \* no statistics: None, or a nil session
Versions == 0..MaxId
Snapshots == Versions \cup {NoStats}

VARIABLES
  \* the service
  next,       \* the id the next message will get
  queue,      \* the ids of the messages not yet deleted
  \* shared by the tasks
  latest,     \* latest_statistics
  maxRunners, \* max_runners
  session,    \* the statistics in the session object get_message keeps
  \* the watch channel of run_until
  stop,       \* the value sent last
  dropped,    \* the sender is gone
  unseen,     \* unseen[t]: t's receiver has not seen the last send
  \* local to a task
  pc,         \* where the task is; "idle" outside any call
  loop,       \* the call is a run, and goes on after a message
  last,       \* last_message_id
  msg,        \* the message the current call took up last, 0 if none
  cursor,     \* position in the list of messages being walked through
  offered,    \* the capacity the poll was made with
  count,      \* the statistics about to be handed to the scaler
  result,     \* what the last finished call returned
  \* history
  done,       \* done[m]: the calls of m that have succeeded
  target      \* the statistics the scaler was told last

service == <<next, queue>>
channel == <<stop, dropped, unseen>>
shared  == <<latest, maxRunners, session>>
history == <<done, target>>
locals  == <<loop, last, cursor, offered, count>>
vars == <<service, shared, channel, pc, msg, locals, result, history>>

Calling    == Kinds \cup {"delete"}           \* awaits inside handle_message
Desiring   == {"initial", "idleDesired", "desired"}
OverSession == {"polling", "acquire", "delete"} \* awaits on the session
Awaits     == Calling \cup Desiring \cup {"polling"}
Locations  == Awaits \cup {"idle", "top"}

SessionSnapshots == {next - 1} \cup (IF NilSessions THEN {NoStats} ELSE {})

ALO == INSTANCE AtLeastOnce WITH next <- next, queue <- queue, done <- done

-----------------------------------------------------------------------------
Init ==
  /\ next = 1
  /\ queue = {}
  /\ latest = NoStats
  /\ maxRunners \in {n \in Capacities : n >= 0}
  /\ session \in SessionSnapshots
  /\ stop = FALSE
  /\ dropped = FALSE
  /\ unseen = [t \in Tasks |-> FALSE]
  /\ pc = [t \in Tasks |-> "idle"]
  /\ loop = [t \in Tasks |-> FALSE]
  /\ last = [t \in Tasks |-> 0]
  /\ msg = [t \in Tasks |-> 0]
  /\ cursor = [t \in Tasks |-> 1]
  /\ offered = [t \in Tasks |-> 0]
  /\ count = [t \in Tasks |-> 0]
  /\ result = [t \in Tasks |-> "none"]
  /\ done = [m \in MessageIds |-> {}]
  /\ target = NoStats

(* The call of task t is over, and its local state gone.                   *)
Returned(t, r) ==
  /\ pc' = [pc EXCEPT ![t] = "idle"]
  /\ result' = [result EXCEPT ![t] = r]
  /\ loop' = [loop EXCEPT ![t] = FALSE]
  /\ last' = [last EXCEPT ![t] = 0]
  /\ cursor' = [cursor EXCEPT ![t] = 1]
  /\ offered' = [offered EXCEPT ![t] = 0]
  /\ count' = [count EXCEPT ![t] = 0]

Goto(t, c) ==
  /\ pc' = [pc EXCEPT ![t] = c[1]]
  /\ cursor' = [cursor EXCEPT ![t] = c[2]]

(* process: where the calls of m begin, skipping those it has no use for.  *)
ToCompleted(m) == IF Body[m].completed > 0 THEN <<"completed", 1>> ELSE <<"desired", 1>>
ToStarted(m) == IF Body[m].started > 0 THEN <<"started", 1>> ELSE ToCompleted(m)
FirstCallSkipsAcquire(m) == ToStarted(m)  \* mutant: jobs are never acquired
FirstCall(m) == IF Body[m].available THEN <<"acquire", 1>> ELSE ToStarted(m)

(* The call task t waits for succeeds, and the one at c comes next.        *)
Succeed(t, c) ==
  /\ done' = [done EXCEPT ![msg[t]] = @ \cup {<<pc[t], cursor[t]>>}]
  /\ Goto(t, c)

-----------------------------------------------------------------------------
(* The service queues another message.                                     *)
Publish ==
  /\ next <= MaxId
  /\ next' = next + 1
  /\ queue' = queue \cup {next}
  /\ UNCHANGED <<shared, channel, pc, msg, locals, result, history>>

StartForgetsStatistics(t) ==  \* mutant: the session's statistics are not kept
  /\ pc[t] = "idle"
  /\ session # NoStats
  /\ msg' = [msg EXCEPT ![t] = 0]
  /\ count' = [count EXCEPT ![t] = session]
  /\ loop' = [loop EXCEPT ![t] = TRUE]
  /\ pc' = [pc EXCEPT ![t] = "initial"]
  /\ UNCHANGED <<service, shared, channel, last, cursor, offered, result, history>>

(* run, run_until: read the session, keep its statistics, and call the     *)
(* scaler.  run_until's receiver is the one kept for t, or a fresh one.    *)
Start(t) ==
  /\ pc[t] = "idle"
  /\ msg' = [msg EXCEPT ![t] = 0]
  /\ unseen' \in {unseen, [unseen EXCEPT ![t] = FALSE]}
  /\ \/ /\ session = NoStats
        /\ Returned(t, "failed")
        /\ UNCHANGED latest
     \/ /\ session # NoStats
        /\ latest' = session
        /\ count' = [count EXCEPT ![t] = session]
        /\ loop' = [loop EXCEPT ![t] = TRUE]
        /\ last' = [last EXCEPT ![t] = 0]
        /\ pc' = [pc EXCEPT ![t] = "initial"]
        /\ UNCHANGED <<cursor, offered, result>>
  /\ UNCHANGED <<service, maxRunners, session, stop, dropped, history>>

(* The scaler accepts the count of the session, or of the last message     *)
(* when a poll came back empty.                                            *)
InitialDesiredOk(t) ==
  /\ pc[t] = "initial"
  /\ target' = count[t]
  /\ pc' = [pc EXCEPT ![t] = "top"]
  /\ UNCHANGED <<service, shared, channel, msg, locals, result, done>>

IdleDesiredOk(t) ==
  /\ pc[t] = "idleDesired"
  /\ target' = count[t]
  /\ pc' = [pc EXCEPT ![t] = "top"]
  /\ UNCHANGED <<service, shared, channel, msg, locals, result, done>>

PollUnchecked(t) ==  \* mutant: the stop value is not read before polling
  /\ pc[t] = "top"
  /\ offered' = [offered EXCEPT ![t] = maxRunners]
  /\ pc' = [pc EXCEPT ![t] = "polling"]
  /\ UNCHANGED <<service, shared, channel, msg, loop, last, cursor, count, result, history>>

PollOldCapacity(t) ==  \* mutant: max_runners is only loaded for the first poll
  /\ pc[t] = "top"
  /\ \/ /\ t \in Stoppable /\ stop
        /\ Returned(t, "ok")
     \/ /\ ~(t \in Stoppable /\ stop)
        /\ offered' = [offered EXCEPT ![t] = IF last[t] = 0 THEN maxRunners ELSE @]
        /\ pc' = [pc EXCEPT ![t] = "polling"]
        /\ UNCHANGED <<loop, last, cursor, count, result>>
  /\ UNCHANGED <<service, shared, channel, msg, history>>

(* The top of the loop: leave if told to, else poll.                       *)
Poll(t) ==
  /\ pc[t] = "top"
  /\ \/ /\ t \in Stoppable /\ stop
        /\ Returned(t, "ok")
     \/ /\ ~(t \in Stoppable /\ stop)
        /\ offered' = [offered EXCEPT ![t] = maxRunners]
        /\ pc' = [pc EXCEPT ![t] = "polling"]
        /\ UNCHANGED <<loop, last, cursor, count, result>>
  /\ UNCHANGED <<service, shared, channel, msg, history>>

StopSeenAnywhere(t) ==  \* mutant: select! covers the handling of the message too
  /\ pc[t] \in Awaits
  /\ t \in Stoppable
  /\ unseen[t] /\ stop
  /\ unseen' = [unseen EXCEPT ![t] = FALSE]
  /\ Returned(t, "ok")
  /\ UNCHANGED <<service, shared, stop, dropped, msg, history>>

(* select! takes the branch of the stop channel and drops the poll.        *)
StopSeen(t) ==
  /\ pc[t] = "polling"
  /\ t \in Stoppable
  /\ \/ /\ unseen[t]
        /\ unseen' = [unseen EXCEPT ![t] = FALSE]
        /\ \/ stop /\ Returned(t, "ok")
           \/ ~stop /\ pc' = [pc EXCEPT ![t] = "top"] /\ UNCHANGED <<locals, result>>
     \/ /\ ~unseen[t] /\ dropped
        /\ Returned(t, "ok")
        /\ UNCHANGED unseen
  /\ UNCHANGED <<service, shared, stop, dropped, msg, history>>

(* The poll comes back empty: report the latest statistics again.          *)
GetEmpty(t) ==
  /\ pc[t] = "polling"
  /\ \/ /\ latest = NoStats
        /\ Returned(t, "failed")
     \/ /\ latest # NoStats
        /\ count' = [count EXCEPT ![t] = latest]
        /\ pc' = [pc EXCEPT ![t] = "idleDesired"]
        /\ UNCHANGED <<loop, last, cursor, offered, result>>
  /\ UNCHANGED <<service, shared, channel, msg, history>>

HandleMessageKeepsOld(t, m) ==  \* mutant: the message's statistics are not kept
  /\ msg' = [msg EXCEPT ![t] = m]
  /\ Body[m].hasStats
  /\ count' = [count EXCEPT ![t] = m]
  /\ Goto(t, FirstCall(m))
  /\ UNCHANGED <<latest, loop, last, offered, result>>

(* handle_message up to the first call that process awaits.                *)
HandleMessage(t, m) ==
  /\ msg' = [msg EXCEPT ![t] = m]
  /\ \/ /\ ~Body[m].hasStats
        /\ Returned(t, "failed")
        /\ UNCHANGED latest
     \/ /\ Body[m].hasStats
        /\ latest' = m
        /\ count' = [count EXCEPT ![t] = m]
        /\ Goto(t, FirstCall(m))
        /\ UNCHANGED <<loop, last, offered, result>>

GetMessageDeletesFirst(t) ==  \* mutant: delete, then process
  /\ pc[t] = "polling"
  /\ \E m \in queue :
       /\ m > last[t]
       /\ Body[m].parses
       /\ HandleMessage(t, m)
       /\ queue' = queue \ {m}
  /\ UNCHANGED <<next, maxRunners, session, channel, history>>

GetMessageSkipsGarbled(t) ==  \* mutant: a message that does not parse is passed over
  /\ pc[t] = "polling"
  /\ \E m \in queue :
       /\ ~Body[m].parses
       /\ last' = [last EXCEPT ![t] = m]
  /\ pc' = [pc EXCEPT ![t] = "top"]
  /\ UNCHANGED <<service, shared, channel, msg, loop, cursor, offered, count, result, history>>

(* The poll brings the first message after last_message_id.                *)
GetMessage(t) ==
  /\ pc[t] = "polling"
  /\ \E m \in queue :
       /\ m > last[t]
       /\ \A k \in queue : k > last[t] => m <= k
       /\ \/ /\ Body[m].parses
             /\ HandleMessage(t, m)
          \/ /\ ~Body[m].parses
             /\ Returned(t, "failed")
             /\ UNCHANGED <<latest, msg>>
  /\ UNCHANGED <<service, maxRunners, session, channel, history>>

(* A caller with a loop of its own hands over a message it has fetched.    *)
HandleOne(t, m) ==
  /\ pc[t] = "idle"
  /\ t \in Handlers
  /\ m < next
  /\ Body[m].parses
  /\ HandleMessage(t, m)
  /\ UNCHANGED <<service, maxRunners, session, channel, history>>

(* process, call by call.                                                  *)
AcquireOk(t) ==
  /\ pc[t] = "acquire"
  /\ Succeed(t, ToStarted(msg[t]))
  /\ UNCHANGED <<service, shared, channel, msg, loop, last, offered, count,
                 result, target>>

StartedOk(t) ==
  /\ pc[t] = "started"
  /\ Succeed(t, IF cursor[t] < Body[msg[t]].started
                THEN <<"started", cursor[t] + 1>> ELSE ToCompleted(msg[t]))
  /\ UNCHANGED <<service, shared, channel, msg, loop, last, offered, count,
                 result, target>>

CompletedOk(t) ==
  /\ pc[t] = "completed"
  /\ Succeed(t, IF cursor[t] < Body[msg[t]].completed
                THEN <<"completed", cursor[t] + 1>> ELSE <<"desired", 1>>)
  /\ UNCHANGED <<service, shared, channel, msg, loop, last, offered, count,
                 result, target>>

DesiredOkForgetsDelete(t) ==  \* mutant: the message is processed and kept
  /\ pc[t] = "desired"
  /\ Succeed(t, <<"top", 1>>)
  /\ target' = count[t]
  /\ UNCHANGED <<service, shared, channel, msg, loop, last, offered, count, result>>

DesiredOk(t) ==
  /\ pc[t] = "desired"
  /\ Succeed(t, <<"delete", 1>>)
  /\ target' = count[t]
  /\ UNCHANGED <<service, shared, channel, msg, loop, last, offered, count, result>>

(* The service deletes the message; only now does the loop's cursor move.  *)
DeleteOk(t) ==
  /\ pc[t] = "delete"
  /\ queue' = queue \ {msg[t]}
  /\ \/ /\ loop[t]
        /\ last' = [last EXCEPT ![t] = msg[t]]
        /\ pc' = [pc EXCEPT ![t] = "top"]
        /\ UNCHANGED <<loop, cursor, offered, count, result>>
     \/ /\ ~loop[t]
        /\ Returned(t, "ok")
  /\ UNCHANGED <<next, shared, channel, msg, history>>

InterruptedGoesOn(t) ==  \* mutant: a failed callback is only logged
  /\ pc[t] \in Awaits
  /\ \/ pc[t] # "started" /\ Returned(t, "failed")
     \/ /\ pc[t] = "started"
        /\ Goto(t, ToCompleted(msg[t]))
        /\ UNCHANGED <<loop, last, offered, count, result>>
  /\ UNCHANGED <<service, shared, channel, msg, history>>

InterruptedDeleteGoesOn(t) ==  \* mutant: a failed delete is only logged
  /\ pc[t] = "delete"
  /\ last' = [last EXCEPT ![t] = msg[t]]
  /\ pc' = [pc EXCEPT ![t] = "top"]
  /\ UNCHANGED <<service, shared, channel, msg, loop, cursor, offered, count,
                 result, history>>

(* The call a task waits for fails, or the task is aborted there.  The far *)
(* side may have acted on it all the same.                                 *)
Interrupted(t) ==
  /\ pc[t] \in Awaits
  /\ Returned(t, "failed")
  /\ queue' \in {queue} \cup (IF pc[t] = "delete" THEN {queue \ {msg[t]}} ELSE {})
  /\ target' \in {target} \cup (IF pc[t] \in Desiring THEN {count[t]} ELSE {})
  /\ UNCHANGED <<next, shared, channel, msg, done>>

(* set_max_runners; a negative count is refused.                           *)
SetMaxRunners(n) ==
  /\ n >= 0
  /\ maxRunners' = n
  /\ UNCHANGED <<service, latest, session, channel, pc, msg, locals, result, history>>

(* The owner of the stop channel sends a value, or lets go of the sender.  *)
SendStop(b) ==
  /\ ~dropped /\ Stoppable # {}
  /\ stop' = b
  /\ unseen' = [t \in Tasks |-> t \in Stoppable]
  /\ UNCHANGED <<service, shared, dropped, pc, msg, locals, result, history>>

DropSender ==
  /\ ~dropped /\ Stoppable # {}
  /\ dropped' = TRUE
  /\ UNCHANGED <<service, shared, stop, unseen, pc, msg, locals, result, history>>

(* A call over the session meets an expired token, and refresh_session     *)
(* replaces the session object, statistics included.                       *)
RefreshSession ==
  /\ \E t \in Tasks : pc[t] \in OverSession
  /\ session' \in SessionSnapshots
  /\ UNCHANGED <<service, latest, maxRunners, channel, pc, msg, locals, result, history>>

(* The process stops anywhere, and a new one makes a session, a Listener   *)
(* and a stop channel.  What was in flight may still have its effect.      *)
Crash ==
  /\ queue' \in {queue \ S : S \in SUBSET {msg[t] : t \in {u \in Tasks : pc[u] = "delete"}}}
  /\ target' \in {target} \cup {count[t] : t \in {u \in Tasks : pc[u] \in Desiring}}
  /\ latest' = NoStats
  /\ maxRunners' \in {n \in Capacities : n >= 0}
  /\ session' \in SessionSnapshots
  /\ stop' = FALSE
  /\ dropped' = FALSE
  /\ unseen' = [t \in Tasks |-> FALSE]
  /\ pc' = [t \in Tasks |-> "idle"]
  /\ loop' = [t \in Tasks |-> FALSE]
  /\ last' = [t \in Tasks |-> 0]
  /\ msg' = [t \in Tasks |-> 0]
  /\ cursor' = [t \in Tasks |-> 1]
  /\ offered' = [t \in Tasks |-> 0]
  /\ count' = [t \in Tasks |-> 0]
  /\ result' = [t \in Tasks |-> "none"]
  /\ UNCHANGED <<next, done>>

CallOk(t) ==
  \/ AcquireOk(t) \/ StartedOk(t) \/ CompletedOk(t) \/ DesiredOk(t) \/ DeleteOk(t)
  \/ InitialDesiredOk(t) \/ IdleDesiredOk(t)

TaskStep(t) ==
  \/ Start(t) \/ Poll(t) \/ StopSeen(t) \/ GetEmpty(t) \/ GetMessage(t)
  \/ CallOk(t)
  \/ Interrupted(t)
  \/ \E m \in MessageIds : HandleOne(t, m)

Environment ==
  \/ Publish
  \/ \E n \in Capacities : SetMaxRunners(n)
  \/ \E b \in BOOLEAN : SendStop(b)
  \/ DropSender
  \/ RefreshSession
  \/ Crash

Next == Environment \/ \E t \in Tasks : TaskStep(t)

Spec == Init /\ [][Next]_vars

(* What the environment owes a run for it to get anywhere: a failed run is *)
(* started again, and neither a crash nor a failed call hits the same step *)
(* for ever.                                                               *)
EventualSuccess(t) ==
  /\ WF_vars(Start(t)) /\ SF_vars(InitialDesiredOk(t) \/ IdleDesiredOk(t))
  /\ SF_vars(Poll(t)) /\ SF_vars(GetMessage(t))
  /\ SF_vars(AcquireOk(t)) /\ SF_vars(StartedOk(t)) /\ SF_vars(CompletedOk(t))
  /\ SF_vars(DesiredOk(t)) /\ SF_vars(DeleteOk(t))

(* What the runtime owes a task whose calls may all fail: every call ends, *)
(* one way or the other, a task that is ready runs, and select!, which     *)
(* looks at its branches in random order, does not pass over the stop      *)
(* branch each time it is ready.                                           *)
EventualEnd(t) ==
  /\ WF_vars(Poll(t))
  /\ WF_vars(CallOk(t) \/ (pc[t] # "polling" /\ Interrupted(t)))
  /\ WF_vars(GetEmpty(t) \/ GetMessage(t) \/ StopSeen(t))
  /\ SF_vars(StopSeen(t))

SuccessSpec == Spec /\ \A t \in Tasks : EventualSuccess(t)
EndSpec == Spec /\ \A t \in Tasks : EventualEnd(t)

-----------------------------------------------------------------------------
TypeOK ==
  /\ next \in 1..MaxId + 1
  /\ queue \subseteq 1..next - 1
  /\ latest \in Snapshots
  /\ maxRunners \in Nat
  /\ session \in Snapshots
  /\ stop \in BOOLEAN /\ dropped \in BOOLEAN
  /\ unseen \in [Tasks -> BOOLEAN]
  /\ pc \in [Tasks -> Locations]
  /\ loop \in [Tasks -> BOOLEAN]
  /\ last \in [Tasks -> Versions]
  /\ msg \in [Tasks -> Versions]
  /\ cursor \in [Tasks -> Nat]
  /\ offered \in [Tasks -> Nat]
  /\ count \in [Tasks -> Versions]
  /\ result \in [Tasks -> {"none", "ok", "failed"}]
  /\ done \in [MessageIds -> SUBSET (Kinds \X Nat)]
  /\ target \in Snapshots

(* A message is gone from the queue only once every call it asks for has   *)
(* succeeded, whichever task, retry or crash took it there: delete_message *)
(* comes after process in handle_message, and every `?` in process counts. *)
AckAfterProcessing ==
  \A m \in MessageIds : m < next /\ m \notin queue => Calls(m) \subseteq done[m]

(* acquire_jobs, the started jobs, the completed jobs, the runner count:   *)
(* no call of a message succeeds before those ahead of it have.            *)
CallsInOrder ==
  \A m \in MessageIds : \A c \in done[m] : Before(m, c[1], c[2]) \subseteq done[m]

(* While a task handles a message, the calls ahead of the one it waits for *)
(* have succeeded, and a run has nothing older in the queue.               *)
InFlight ==
  \A t \in Tasks : pc[t] \in Calling =>
    /\ msg[t] \in 1..next - 1
    /\ <<pc[t], cursor[t]>> \in Calls(msg[t]) \cup {<<"delete", 1>>}
    /\ Before(msg[t], pc[t], cursor[t]) \subseteq done[msg[t]]
    /\ loop[t] => \A m \in queue : msg[t] <= m

(* A run never polls past a message that is still in the queue: since the  *)
(* service only sends ids above last_message_id, that run would never see  *)
(* it again.                                                               *)
NoMessageSkipped ==
  \A t \in Tasks : pc[t] # "idle" /\ loop[t] => \A m \in queue : m > last[t]

(* A call that returns Ok leaves no message half handled: stopping a run   *)
(* never interrupts the handling of the message it took up last.           *)
CleanStop ==
  \A t \in Tasks :
    pc[t] = "idle" /\ result[t] = "ok" => msg[t] \notin queue

(* "latest statistics is nil" cannot happen: whoever polls has statistics  *)
(* to fall back on when the poll comes back empty.                         *)
EmptyPollHasStatistics ==
  \A t \in Tasks : pc[t] = "polling" => latest # NoStats

(* With one task, what the scaler was told last, between two messages and  *)
(* however many empty polls, is the count of the message acknowledged last *)
(* (of the session before the first message).                              *)
ScalerUpToDate ==
  \A t \in Tasks :
    pc[t] \in {"top", "polling", "idleDesired"} =>
      /\ target = latest
      /\ last[t] > 0 => target = last[t]

(* The listener delivers as the module AtLeastOnce says.                   *)
ImplementsAtLeastOnce == ALO!Spec

(* Unless the owner stops the run for good, each message is acknowledged:  *)
(* no failure, abort or crash makes the listener lose its place for ever.  *)
AllAcknowledged ==
  <>[](~stop /\ ~dropped) => \A m \in MessageIds : (m \in queue) ~> (m \notin queue)

(* run_until "exits when `stop` is set or the sender is dropped".          *)
StopHonoured ==
  \A t \in Stoppable : [](stop \/ dropped) ~> (pc[t] = "idle")

(* A capacity that stays set is the one every later poll offers.           *)
CapacityTakesEffect ==
  \A n \in Capacities :
    <>[](maxRunners = n) => <>[](\A t \in Tasks : pc[t] = "polling" => offered[t] = n)
=============================================================================
