--------------------------- MODULE ListenerProofs ---------------------------
(***************************************************************************)
(* The listener's safety properties, for every set of tasks and every      *)
(* queue of messages.                                                      *)
(***************************************************************************)
EXTENDS Listener, TLAPS

-----------------------------------------------------------------------------
(* The calls of a message, and their order.                                *)

LEMMA BodyTyped ==
  ASSUME NEW m \in MessageIds
  PROVE  /\ Body[m] \in MessageBody
         /\ Body[m].started \in Nat
         /\ Body[m].completed \in Nat
PROOF BY MessagesAssumption DEF MessageBody

LEMMA CallsTyped ==
  ASSUME NEW m \in MessageIds, NEW c \in Calls(m)
  PROVE  /\ c \in Kinds \X Nat
         /\ c = <<c[1], c[2]>>
         /\ Rank[c[1]] \in 1..4
PROOF
  <1>1. c \in Kinds \X Nat
    BY BodyTyped DEF Calls, Kinds
  <1>2. \A k \in Kinds : Rank[k] \in 1..4
    BY DEF Kinds, Rank
  <1> QED BY <1>1, <1>2

(* Nothing comes ahead of the first call, which is a call of the message.  *)
LEMMA FirstCallIsFirst ==
  ASSUME NEW m \in MessageIds
  PROVE  /\ FirstCall(m) \in Calls(m)
         /\ Before(m, FirstCall(m)[1], FirstCall(m)[2]) = {}
PROOF
  <1> USE BodyTyped, CallsTyped
  <1>1. CASE Body[m].available
    BY <1>1 DEF FirstCall, Calls, Before, Rank
  <1>2. CASE ~Body[m].available /\ Body[m].started > 0
    BY <1>2 DEF FirstCall, ToStarted, Calls, Before, Rank
  <1>3. CASE ~Body[m].available /\ ~(Body[m].started > 0) /\ Body[m].completed > 0
    BY <1>3 DEF FirstCall, ToStarted, ToCompleted, Calls, Before, Rank
  <1>4. CASE ~Body[m].available /\ ~(Body[m].started > 0) /\ ~(Body[m].completed > 0)
    BY <1>4 DEF FirstCall, ToStarted, ToCompleted, Calls, Before, Rank
  <1> QED BY <1>1, <1>2, <1>3, <1>4

(* c is the next call after d: it is one of the calls, or the deletion,    *)
(* and at most d comes between the calls ahead of d and those ahead of c.  *)
Follows(m, d, c) ==
  /\ c \in Calls(m) \cup {<<"delete", 1>>}
  /\ Before(m, c[1], c[2]) \subseteq Before(m, d[1], d[2]) \cup {d}

LEMMA AfterAcquire ==
  ASSUME NEW m \in MessageIds
  PROVE  Follows(m, <<"acquire", 1>>, ToStarted(m))
PROOF
  <1> USE BodyTyped, CallsTyped
  <1>1. CASE Body[m].started > 0
    BY <1>1 DEF Follows, ToStarted, Calls, Before, Rank
  <1>2. CASE ~(Body[m].started > 0) /\ Body[m].completed > 0
    BY <1>2 DEF Follows, ToStarted, ToCompleted, Calls, Before, Rank
  <1>3. CASE ~(Body[m].started > 0) /\ ~(Body[m].completed > 0)
    BY <1>3 DEF Follows, ToStarted, ToCompleted, Calls, Before, Rank
  <1> QED BY <1>1, <1>2, <1>3

LEMMA AfterStarted ==
  ASSUME NEW m \in MessageIds, NEW k \in 1..Body[m].started
  PROVE  Follows(m, <<"started", k>>,
                 IF k < Body[m].started THEN <<"started", k + 1>> ELSE ToCompleted(m))
PROOF
  <1> USE BodyTyped, CallsTyped
  <1>1. CASE k < Body[m].started
    BY <1>1 DEF Follows, Calls, Before, Rank
  <1>2. CASE ~(k < Body[m].started) /\ Body[m].completed > 0
    BY <1>2 DEF Follows, ToCompleted, Calls, Before, Rank
  <1>3. CASE ~(k < Body[m].started) /\ ~(Body[m].completed > 0)
    BY <1>3 DEF Follows, ToCompleted, Calls, Before, Rank
  <1> QED BY <1>1, <1>2, <1>3

LEMMA AfterCompleted ==
  ASSUME NEW m \in MessageIds, NEW k \in 1..Body[m].completed
  PROVE  Follows(m, <<"completed", k>>,
                 IF k < Body[m].completed THEN <<"completed", k + 1>> ELSE <<"desired", 1>>)
PROOF
  <1> USE BodyTyped, CallsTyped
  <1>1. CASE k < Body[m].completed
    BY <1>1 DEF Follows, Calls, Before, Rank
  <1>2. CASE ~(k < Body[m].completed)
    BY <1>2 DEF Follows, Calls, Before, Rank
  <1> QED BY <1>1, <1>2

LEMMA AfterDesired ==
  ASSUME NEW m \in MessageIds
  PROVE  /\ Follows(m, <<"desired", 1>>, <<"delete", 1>>)
         /\ Before(m, "delete", 1) = Calls(m)
PROOF BY BodyTyped, CallsTyped DEF Follows, Calls, Before, Rank

-----------------------------------------------------------------------------
(* Types.                                                                  *)

USE ListenerAssumption, MessagesAssumption

LEMMA LocationSets ==
  /\ Calling \subseteq Locations /\ Kinds \subseteq Calling
  /\ "idle" \in Locations /\ "top" \in Locations /\ "polling" \in Locations
  /\ Desiring \subseteq Locations
  /\ \A l \in Calling : l # "idle" /\ l # "top" /\ l # "polling"
PROOF BY DEF Locations, Awaits, Calling, Desiring, Kinds

LEMMA ZeroIsVersion == 0 \in Versions
PROOF BY DEF Versions

(* The places a call of a message may lead to.                             *)
LEMMA Targets ==
  ASSUME NEW m \in MessageIds
  PROVE  /\ FirstCall(m) \in Kinds \X Nat
         /\ ToStarted(m) \in Kinds \X Nat
         /\ ToCompleted(m) \in Kinds \X Nat
PROOF BY DEF FirstCall, ToStarted, ToCompleted, Kinds

LEMMA ReturnedTyped ==
  ASSUME TypeOK, NEW t \in Tasks, NEW r \in {"none", "ok", "failed"}, Returned(t, r)
  PROVE  /\ pc' \in [Tasks -> Locations]
         /\ loop' \in [Tasks -> BOOLEAN]
         /\ last' \in [Tasks -> Versions]
         /\ cursor' \in [Tasks -> Nat]
         /\ offered' \in [Tasks -> Nat]
         /\ count' \in [Tasks -> Versions]
         /\ result' \in [Tasks -> {"none", "ok", "failed"}]
PROOF BY LocationSets, ZeroIsVersion DEF TypeOK, Returned

LEMMA GotoTyped ==
  ASSUME TypeOK, NEW t \in Tasks, NEW c \in Calling \X Nat, Goto(t, c)
  PROVE  /\ pc' \in [Tasks -> Locations]
         /\ cursor' \in [Tasks -> Nat]
PROOF BY LocationSets DEF TypeOK, Goto

LEMMA SucceedTyped ==
  ASSUME TypeOK, NEW t \in Tasks, NEW c \in Calling \X Nat, pc[t] \in Kinds, Succeed(t, c)
  PROVE  /\ pc' \in [Tasks -> Locations]
         /\ cursor' \in [Tasks -> Nat]
         /\ done' \in [MessageIds -> SUBSET (Kinds \X Nat)]
PROOF
  <1>1. pc' \in [Tasks -> Locations] /\ cursor' \in [Tasks -> Nat]
    BY GotoTyped DEF Succeed
  <1>2. <<pc[t], cursor[t]>> \in Kinds \X Nat
    BY DEF TypeOK
  <1>3. done' \in [MessageIds -> SUBSET (Kinds \X Nat)]
    BY <1>2 DEF TypeOK, Succeed
  <1> QED BY <1>1, <1>3

LEMMA HandleMessageTyped ==
  ASSUME TypeOK, NEW t \in Tasks, NEW m \in MessageIds, HandleMessage(t, m)
  PROVE  /\ pc' \in [Tasks -> Locations]
         /\ loop' \in [Tasks -> BOOLEAN]
         /\ last' \in [Tasks -> Versions]
         /\ msg' \in [Tasks -> Versions]
         /\ cursor' \in [Tasks -> Nat]
         /\ offered' \in [Tasks -> Nat]
         /\ count' \in [Tasks -> Versions]
         /\ result' \in [Tasks -> {"none", "ok", "failed"}]
         /\ latest' \in Snapshots
PROOF
  <1>1. m \in Versions /\ m \in Snapshots
    BY DEF Versions, Snapshots, MessageIds
  <1>2. msg' \in [Tasks -> Versions]
    BY <1>1 DEF HandleMessage, TypeOK
  <1>3. CASE ~Body[m].hasStats
    BY <1>2, <1>3, ReturnedTyped DEF HandleMessage, TypeOK
  <1>4. CASE Body[m].hasStats
    <2>1. FirstCall(m) \in Calling \X Nat
      BY Targets, LocationSets
    <2> QED BY <1>1, <1>2, <1>4, <2>1, GotoTyped DEF HandleMessage, TypeOK
  <1> QED BY <1>3, <1>4

LEMMA SessionSnapshotsTyped ==
  ASSUME TypeOK PROVE SessionSnapshots \subseteq Snapshots
PROOF BY DEF TypeOK, SessionSnapshots, Snapshots, Versions

LEMMA TypeInit == Init => TypeOK
PROOF
  <1> SUFFICES ASSUME Init PROVE TypeOK
    OBVIOUS
  <1>1. session \in Snapshots
    BY DEF Init, SessionSnapshots, Snapshots, Versions
  <1>2. latest \in Snapshots /\ target \in Snapshots
    BY DEF Init, Snapshots
  <1>3. next \in 1..MaxId + 1 /\ queue \subseteq 1..next - 1 /\ maxRunners \in Nat
    BY DEF Init
  <1>4. stop \in BOOLEAN /\ dropped \in BOOLEAN /\ unseen \in [Tasks -> BOOLEAN]
    BY DEF Init
  <1>5. /\ pc \in [Tasks -> Locations] /\ loop \in [Tasks -> BOOLEAN]
        /\ last \in [Tasks -> Versions] /\ msg \in [Tasks -> Versions]
        /\ cursor \in [Tasks -> Nat] /\ offered \in [Tasks -> Nat]
        /\ count \in [Tasks -> Versions] /\ result \in [Tasks -> {"none", "ok", "failed"}]
    BY LocationSets, ZeroIsVersion DEF Init
  <1>6. done \in [MessageIds -> SUBSET (Kinds \X Nat)]
    BY DEF Init
  <1> QED BY <1>1, <1>2, <1>3, <1>4, <1>5, <1>6 DEF TypeOK

(* The steps of a task.                                                    *)
LEMMA TypeTask ==
  ASSUME TypeOK, NEW t \in Tasks, TaskStep(t)
  PROVE  TypeOK'
PROOF
  <1> USE DEF service, channel, shared, history, locals
  <1>1. CASE Start(t)
    <2>1. unseen' \in [Tasks -> BOOLEAN] /\ msg' \in [Tasks -> Versions]
      BY <1>1, ZeroIsVersion DEF Start, TypeOK
    <2>2. CASE session = NoStats
      BY <1>1, <2>1, <2>2, ReturnedTyped DEF Start, TypeOK
    <2>3. CASE session # NoStats
      <3>1. session \in Versions /\ "initial" \in Locations
        BY <2>3, LocationSets DEF TypeOK, Snapshots, Desiring
      <3>2. /\ latest' = session
            /\ count' = [count EXCEPT ![t] = session]
            /\ loop' = [loop EXCEPT ![t] = TRUE]
            /\ last' = [last EXCEPT ![t] = 0]
            /\ pc' = [pc EXCEPT ![t] = "initial"]
            /\ UNCHANGED <<cursor, offered, result, next, queue, maxRunners,
                           session, stop, dropped, done, target>>
        BY <1>1, <2>3 DEF Start
      <3>3. pc' \in [Tasks -> Locations] /\ count' \in [Tasks -> Versions]
        BY <3>1, <3>2 DEF TypeOK
      <3>4. loop' \in [Tasks -> BOOLEAN]
        BY <3>2 DEF TypeOK
      <3>5. latest' \in Snapshots
        BY <3>2 DEF TypeOK
      <3>6. last' \in [Tasks -> Versions]
        BY <3>2, ZeroIsVersion DEF TypeOK
      <3> QED BY <2>1, <3>2, <3>3, <3>4, <3>5, <3>6 DEF TypeOK
    <2> QED BY <2>2, <2>3
  <1>2. CASE Poll(t)
    <2>1. CASE t \in Stoppable /\ stop
      BY <1>2, <2>1, ReturnedTyped DEF Poll, TypeOK
    <2>2. CASE ~(t \in Stoppable /\ stop)
      BY <1>2, <2>2, LocationSets DEF Poll, TypeOK
    <2> QED BY <2>1, <2>2
  <1>3. CASE StopSeen(t)
    <2>1. CASE Returned(t, "ok")
      BY <1>3, <2>1, ReturnedTyped DEF StopSeen, TypeOK
    <2>2. CASE pc' = [pc EXCEPT ![t] = "top"] /\ UNCHANGED <<locals, result>>
      BY <1>3, <2>2, LocationSets DEF StopSeen, TypeOK
    <2> QED BY <1>3, <2>1, <2>2 DEF StopSeen
  <1>4. CASE GetEmpty(t)
    <2>1. CASE latest = NoStats
      BY <1>4, <2>1, ReturnedTyped DEF GetEmpty, TypeOK
    <2>2. CASE latest # NoStats
      <3>1. latest \in Versions /\ "idleDesired" \in Locations
        BY <2>2, LocationSets DEF TypeOK, Snapshots, Desiring
      <3> QED BY <1>4, <2>2, <3>1 DEF GetEmpty, TypeOK
    <2> QED BY <2>1, <2>2
  <1>5. CASE GetMessage(t)
    <2>1. PICK m \in queue :
             HandleMessage(t, m) \/ (Returned(t, "failed") /\ UNCHANGED <<latest, msg>>)
      BY <1>5 DEF GetMessage
    <2>2. m \in MessageIds
      BY DEF TypeOK, MessageIds
    <2>3. CASE HandleMessage(t, m)
      BY <1>5, <2>2, <2>3, HandleMessageTyped DEF GetMessage, TypeOK
    <2>4. CASE Returned(t, "failed") /\ UNCHANGED <<latest, msg>>
      BY <1>5, <2>4, ReturnedTyped DEF GetMessage, TypeOK
    <2> QED BY <2>1, <2>3, <2>4
  <1>6. CASE \E m \in MessageIds : HandleOne(t, m)
    BY <1>6, HandleMessageTyped DEF HandleOne, TypeOK
  <1>7. CASE AcquireOk(t) \/ StartedOk(t) \/ CompletedOk(t) \/ DesiredOk(t)
    <2>1. PICK c \in Calling \X Nat : Succeed(t, c) /\ pc[t] \in Kinds
      <3>1. ToStarted(msg[t]) \in Calling \X Nat /\ ToCompleted(msg[t]) \in Calling \X Nat
        BY DEF ToStarted, ToCompleted, Calling, Kinds
      <3>2. cursor[t] + 1 \in Nat
        BY DEF TypeOK
      <3> QED BY <1>7, <3>1, <3>2
            DEF AcquireOk, StartedOk, CompletedOk, DesiredOk, Calling, Kinds
    <2>2. target' \in Snapshots
      BY <1>7 DEF AcquireOk, StartedOk, CompletedOk, DesiredOk, TypeOK, Snapshots
    <2> QED BY <1>7, <2>1, <2>2, SucceedTyped
          DEF AcquireOk, StartedOk, CompletedOk, DesiredOk, TypeOK
  <1>8. CASE DeleteOk(t)
    <2>1. CASE loop[t]
      BY <1>8, <2>1, LocationSets DEF DeleteOk, TypeOK
    <2>2. CASE ~loop[t]
      BY <1>8, <2>2, ReturnedTyped DEF DeleteOk, TypeOK
    <2> QED BY <2>1, <2>2
  <1>9. CASE InitialDesiredOk(t) \/ IdleDesiredOk(t)
    BY <1>9, LocationSets DEF InitialDesiredOk, IdleDesiredOk, TypeOK, Snapshots
  <1>10. CASE Interrupted(t)
    <2>1. queue' \subseteq queue /\ target' \in Snapshots
      BY <1>10 DEF Interrupted, TypeOK, Snapshots
    <2> QED BY <1>10, <2>1, ReturnedTyped DEF Interrupted, TypeOK
  <1> QED BY <1>1, <1>2, <1>3, <1>4, <1>5, <1>6, <1>7, <1>8, <1>9, <1>10
        DEF TaskStep, CallOk

(* The steps of the environment.                                           *)
LEMMA TypeEnvironment ==
  ASSUME TypeOK, Environment
  PROVE  TypeOK'
PROOF
  <1> USE DEF service, channel, shared, history, locals
  <1>1. CASE Publish
    BY <1>1 DEF Publish, TypeOK
  <1>2. CASE \E n \in Capacities : SetMaxRunners(n)
    BY <1>2 DEF SetMaxRunners, TypeOK
  <1>3. CASE \E b \in BOOLEAN : SendStop(b)
    BY <1>3 DEF SendStop, TypeOK
  <1>4. CASE DropSender
    BY <1>4 DEF DropSender, TypeOK
  <1>5. CASE RefreshSession
    BY <1>5, SessionSnapshotsTyped DEF RefreshSession, TypeOK
  <1>6. CASE Crash
    <2>1. queue' \subseteq queue
      BY <1>6 DEF Crash
    <2>2. target' \in Snapshots
      BY <1>6 DEF Crash, TypeOK, Snapshots
    <2>3. next' = next /\ queue' \subseteq 1..next' - 1
      BY <1>6, <2>1 DEF Crash, TypeOK
    <2>4. session' \in Snapshots /\ latest' \in Snapshots /\ maxRunners' \in Nat
      BY <1>6, SessionSnapshotsTyped DEF Crash, Snapshots
    <2>5. /\ unseen' \in [Tasks -> BOOLEAN] /\ pc' \in [Tasks -> Locations]
          /\ loop' \in [Tasks -> BOOLEAN] /\ last' \in [Tasks -> Versions]
          /\ msg' \in [Tasks -> Versions] /\ cursor' \in [Tasks -> Nat]
          /\ offered' \in [Tasks -> Nat] /\ count' \in [Tasks -> Versions]
          /\ result' \in [Tasks -> {"none", "ok", "failed"}]
      BY <1>6, LocationSets, ZeroIsVersion DEF Crash
    <2>6. stop' \in BOOLEAN /\ dropped' \in BOOLEAN /\ done' = done
      BY <1>6 DEF Crash
    <2> QED BY <2>2, <2>3, <2>4, <2>5, <2>6 DEF TypeOK
  <1> QED BY <1>1, <1>2, <1>3, <1>4, <1>5, <1>6 DEF Environment

(* Every variable stays within its type.                                   *)
THEOREM Typing == Spec => []TypeOK
PROOF
  <1>1. TypeOK /\ [Next]_vars => TypeOK'
    <2> SUFFICES ASSUME TypeOK, [Next]_vars PROVE TypeOK'
      OBVIOUS
    <2>1. CASE UNCHANGED vars
      BY <2>1 DEF vars, service, channel, shared, history, locals, TypeOK
    <2> QED BY <2>1, TypeTask, TypeEnvironment DEF Next
  <1> QED BY <1>1, TypeInit, PTL DEF Spec

-----------------------------------------------------------------------------
(* The inductive invariant.  AckAfterProcessing survives a deletion only   *)
(* because the task that deletes has made every call of its message        *)
(* (InFlight), and NoMessageSkipped survives the move of last_message_id   *)
(* only because nothing older was left behind (InFlight) and nothing yet   *)
(* to be published is below it (the last conjunct).                        *)

TaskInv(t) ==
  /\ pc[t] \in Calling =>
       /\ msg[t] \in 1..next - 1
       /\ <<pc[t], cursor[t]>> \in Calls(msg[t]) \cup {<<"delete", 1>>}
       /\ Before(msg[t], pc[t], cursor[t]) \subseteq done[msg[t]]
       /\ loop[t] => \A m \in queue : msg[t] <= m
  /\ pc[t] # "idle" /\ loop[t] => \A m \in queue : m > last[t]
  /\ pc[t] = "idle" => ~loop[t]
  /\ last[t] < next

IInv ==
  /\ TypeOK
  /\ AckAfterProcessing
  /\ CallsInOrder
  /\ \A t \in Tasks : TaskInv(t)

LEMMA InvInit == Init => IInv
PROOF
  <1> SUFFICES ASSUME Init PROVE IInv
    OBVIOUS
  <1>1. TypeOK
    BY TypeInit
  <1>2. AckAfterProcessing /\ CallsInOrder
    BY DEF Init, AckAfterProcessing, CallsInOrder, MessageIds
  <1>3. ASSUME NEW t \in Tasks PROVE TaskInv(t)
    BY LocationSets DEF Init, TaskInv
  <1> QED BY <1>1, <1>2, <1>3 DEF IInv

(* The other tasks do not mind what one of them does.                      *)
Others(t) ==
  \A u \in Tasks \ {t} :
    /\ pc'[u] = pc[u] /\ msg'[u] = msg[u] /\ cursor'[u] = cursor[u]
    /\ loop'[u] = loop[u] /\ last'[u] = last[u]

LEMMA Frame ==
  ASSUME IInv, NEW t \in Tasks, Others(t),
         next' = next, queue' \subseteq queue,
         \A m \in MessageIds : done[m] \subseteq done'[m]
  PROVE  \A u \in Tasks \ {t} : TaskInv(u)'
PROOF
  <1> SUFFICES ASSUME NEW u \in Tasks \ {t} PROVE TaskInv(u)'
    OBVIOUS
  <1>1. TaskInv(u)
    BY DEF IInv
  <1>2. ASSUME pc[u] \in Calling
        PROVE  Before(msg[u], pc[u], cursor[u]) \subseteq done'[msg[u]]
    <2>1. msg[u] \in MessageIds
      BY <1>1, <1>2 DEF TaskInv, MessageIds, IInv, TypeOK
    <2> QED BY <1>1, <1>2, <2>1 DEF TaskInv
  <1> QED BY <1>1, <1>2 DEF TaskInv, Others

(* A step after which the task handles no message.                         *)
Leaves(t) ==
  /\ pc'[t] \notin Calling
  /\ \/ pc'[t] = "idle" /\ ~loop'[t] /\ last'[t] = 0
     \/ pc'[t] # "idle" /\ pc[t] # "idle" /\ loop'[t] = loop[t] /\ last'[t] = last[t]
     \/ pc'[t] # "idle" /\ last'[t] = 0

LEMMA LeavesInv ==
  ASSUME IInv, TypeOK', NEW t \in Tasks, Others(t), Leaves(t),
         UNCHANGED <<next, done>>, queue' \subseteq queue,
         \A m \in queue \ queue' : Calls(m) \subseteq done[m]
  PROVE  IInv'
PROOF
  <1>1. AckAfterProcessing'
    BY DEF IInv, AckAfterProcessing
  <1>2. CallsInOrder'
    BY DEF IInv, CallsInOrder
  <1>3. TaskInv(t)'
    <2>1. next \in Nat \ {0} /\ queue' \subseteq 1..next - 1
      BY DEF IInv, TypeOK
    <2>2. TaskInv(t) /\ pc'[t] \notin Calling
      BY DEF IInv, Leaves
    <2>3. CASE pc'[t] = "idle" /\ ~loop'[t] /\ last'[t] = 0
      BY <2>1, <2>2, <2>3 DEF TaskInv
    <2>4. CASE pc'[t] # "idle" /\ pc[t] # "idle" /\ loop'[t] = loop[t] /\ last'[t] = last[t]
      BY <2>1, <2>2, <2>4 DEF TaskInv
    <2>5. CASE pc'[t] # "idle" /\ last'[t] = 0
      BY <2>1, <2>2, <2>5 DEF TaskInv
    <2> QED BY <2>3, <2>4, <2>5 DEF Leaves
  <1>4. \A u \in Tasks \ {t} : TaskInv(u)'
    BY Frame
  <1> QED BY <1>1, <1>2, <1>3, <1>4 DEF IInv

(* A task about to delete has made every call of its message.              *)
LEMMA ReadyToDelete ==
  ASSUME IInv, NEW t \in Tasks, pc[t] = "delete"
  PROVE  /\ msg[t] \in MessageIds
         /\ Calls(msg[t]) \subseteq done[msg[t]]
PROOF
  <1>1. TaskInv(t) /\ "delete" \in Calling
    BY DEF IInv, Calling
  <1>2. msg[t] \in MessageIds
    BY <1>1 DEF TaskInv, MessageIds, IInv, TypeOK
  <1>3. <<"delete", cursor[t]>> = <<"delete", 1>>
    <2>1. <<"delete", cursor[t]>> \notin Calls(msg[t])
      BY <1>2, CallsTyped DEF Kinds
    <2> QED BY <1>1, <2>1 DEF TaskInv
  <1>4. cursor[t] = 1
    BY <1>3
  <1> QED BY <1>1, <1>2, <1>4, AfterDesired DEF TaskInv

LEMMA ReturnedLeaves ==
  ASSUME TypeOK, NEW t \in Tasks, NEW r, Returned(t, r),
         NEW m, msg' \in {msg, [msg EXCEPT ![t] = m]}
  PROVE  Leaves(t) /\ Others(t)
PROOF
  <1>1. /\ pc' = [pc EXCEPT ![t] = "idle"]
        /\ loop' = [loop EXCEPT ![t] = FALSE]
        /\ last' = [last EXCEPT ![t] = 0]
        /\ cursor' = [cursor EXCEPT ![t] = 1]
    BY DEF Returned
  <1>2. pc'[t] = "idle" /\ ~loop'[t] /\ last'[t] = 0
    BY <1>1 DEF TypeOK
  <1> QED BY <1>1, <1>2, LocationSets DEF Leaves, Others, TypeOK

(* A task takes up message m.                                              *)
LEMMA TakesUpInv ==
  ASSUME IInv, TypeOK', NEW t \in Tasks, NEW m \in 1..next - 1,
         pc[t] \notin Calling, HandleMessage(t, m), UNCHANGED <<next, queue, done>>,
         loop[t] => (\A k \in queue : m <= k)
  PROVE  IInv'
PROOF
  <1>1. m \in MessageIds /\ TypeOK
    BY DEF MessageIds, IInv, TypeOK
  <1>2. CASE ~Body[m].hasStats
    <2>1. Returned(t, "failed") /\ msg' \in {msg, [msg EXCEPT ![t] = m]}
      BY <1>2 DEF HandleMessage
    <2>2. Leaves(t) /\ Others(t)
      BY <1>1, <2>1, ReturnedLeaves
    <2> QED BY <2>2, LeavesInv
  <1>3. CASE Body[m].hasStats
    <2> DEFINE c == FirstCall(m)
    <2>1. /\ msg' = [msg EXCEPT ![t] = m]
          /\ pc' = [pc EXCEPT ![t] = c[1]]
          /\ cursor' = [cursor EXCEPT ![t] = c[2]]
          /\ loop' = loop /\ last' = last
      BY <1>3 DEF HandleMessage, Goto
    <2>2. /\ c \in Calls(m) /\ c = <<c[1], c[2]>>
          /\ c[1] \in Kinds /\ Before(m, c[1], c[2]) = {}
      BY <1>1, FirstCallIsFirst, CallsTyped
    <2> HIDE DEF c
    <2>3. Others(t)
      BY <1>1, <2>1 DEF Others, TypeOK
    <2>4. \A u \in Tasks \ {t} : TaskInv(u)'
      BY <2>3, Frame
    <2>5. msg'[t] = m /\ pc'[t] = c[1] /\ cursor'[t] = c[2]
      BY <1>1, <2>1 DEF TypeOK
    <2>6. TaskInv(t) /\ c[1] # "idle"
      BY <2>2, LocationSets DEF IInv
    <2>7. pc[t] # "idle" \/ ~loop[t]
      BY <2>6 DEF TaskInv
    <2>8. TaskInv(t)'
      BY <2>1, <2>2, <2>5, <2>6, <2>7 DEF TaskInv
    <2>9. AckAfterProcessing' /\ CallsInOrder'
      BY DEF IInv, AckAfterProcessing, CallsInOrder
    <2> QED BY <2>4, <2>8, <2>9 DEF IInv
  <1> QED BY <1>2, <1>3

(* A call of the message succeeds.                                         *)
LEMMA SuccessInv ==
  ASSUME IInv, TypeOK', NEW t \in Tasks, NEW c, pc[t] \in Kinds,
         Follows(msg[t], <<pc[t], cursor[t]>>, c), c = <<c[1], c[2]>>,
         Succeed(t, c), UNCHANGED <<next, queue, msg, loop, last>>
  PROVE  IInv'
PROOF
  <1> DEFINE m == msg[t]
             d == <<pc[t], cursor[t]>>
  <1>1. TypeOK /\ TaskInv(t) /\ pc[t] \in Calling
    BY LocationSets DEF IInv
  <1>2. m \in MessageIds /\ m \in 1..next - 1
    BY <1>1 DEF TaskInv, MessageIds, TypeOK
  <1>3. pc[t] # "delete"
    BY DEF Kinds
  <1>4. d \in Calls(m) /\ Before(m, pc[t], cursor[t]) \subseteq done[m]
    BY <1>1, <1>3 DEF TaskInv
  <1>5. /\ done' = [done EXCEPT ![m] = @ \cup {d}]
        /\ pc' = [pc EXCEPT ![t] = c[1]]
        /\ cursor' = [cursor EXCEPT ![t] = c[2]]
    BY DEF Succeed, Goto
  <1>6. \A k \in MessageIds : done[k] \subseteq done'[k]
    BY <1>1, <1>2, <1>5 DEF TypeOK
  <1>7. done'[m] = done[m] \cup {d} /\ \A k \in MessageIds \ {m} : done'[k] = done[k]
    BY <1>1, <1>2, <1>5 DEF TypeOK
  <1>8. Others(t) /\ pc'[t] = c[1] /\ cursor'[t] = c[2]
    BY <1>1, <1>5 DEF Others, TypeOK
  <1>9. c \in Calls(m) \cup {<<"delete", 1>>} /\ Before(m, c[1], c[2]) \subseteq done'[m]
    BY <1>4, <1>7 DEF Follows
  <1>10. AckAfterProcessing'
    BY <1>6 DEF IInv, AckAfterProcessing
  <1>11. CallsInOrder'
    BY <1>4, <1>7 DEF IInv, CallsInOrder
  <1>12. TaskInv(t)'
    <2>1. c[1] # "idle" /\ pc[t] # "idle"
      <3>1. \A e \in Calls(m) : e[1] # "idle"
        BY <1>2, CallsTyped DEF Kinds
      <3> QED BY <1>1, <1>9, <3>1, LocationSets
    <2>2. <<pc'[t], cursor'[t]>> = c /\ msg' = msg /\ queue' = queue
      BY <1>8
    <2> QED BY <1>1, <1>2, <1>8, <1>9, <2>1, <2>2 DEF TaskInv
  <1>13. \A u \in Tasks \ {t} : TaskInv(u)'
    BY <1>6, <1>8, Frame
  <1> QED BY <1>10, <1>11, <1>12, <1>13 DEF IInv

LEMMA InvTask ==
  ASSUME IInv, TypeOK', NEW t \in Tasks, TaskStep(t)
  PROVE  IInv'
PROOF
  <1> USE DEF service, channel, shared, history, locals
  <1>0. TypeOK /\ TaskInv(t)
    BY DEF IInv
  <1>1. CASE Start(t)
    <2>1. msg' \in {msg, [msg EXCEPT ![t] = 0]} /\ UNCHANGED <<next, queue, done>>
      BY <1>1 DEF Start
    <2>2. CASE session = NoStats
      <3>1. Returned(t, "failed")
        BY <1>1, <2>2 DEF Start
      <3>2. Leaves(t) /\ Others(t)
        BY <1>0, <2>1, <3>1, ReturnedLeaves
      <3> QED BY <2>1, <3>2, LeavesInv
    <2>3. CASE session # NoStats
      <3>1. /\ pc' = [pc EXCEPT ![t] = "initial"]
            /\ loop' = [loop EXCEPT ![t] = TRUE]
            /\ last' = [last EXCEPT ![t] = 0]
            /\ cursor' = cursor
        BY <1>1, <2>3 DEF Start
      <3>2. Leaves(t) /\ Others(t)
        BY <1>0, <2>1, <3>1 DEF Leaves, Others, TypeOK, Calling, Kinds
      <3> QED BY <2>1, <3>2, LeavesInv
    <2> QED BY <2>2, <2>3
  <1>2. ASSUME Poll(t) \/ StopSeen(t) \/ GetEmpty(t) PROVE IInv'
    <2>1. UNCHANGED <<next, queue, msg, done>>
      BY <1>2 DEF Poll, StopSeen, GetEmpty
    <2>2. CASE \E r : Returned(t, r)
      <3>1. PICK r : Returned(t, r)
        BY <2>2
      <3>2. msg' \in {msg, [msg EXCEPT ![t] = 0]}
        BY <2>1
      <3>3. Leaves(t) /\ Others(t)
        BY <1>0, <3>1, <3>2, ReturnedLeaves
      <3> QED BY <2>1, <3>3, LeavesInv
    <2>3. CASE ~\E r : Returned(t, r)
      <3>1. PICK l \in {"top", "polling", "idleDesired"} :
               /\ pc' = [pc EXCEPT ![t] = l]
               /\ UNCHANGED <<loop, last, cursor>>
        BY <1>2, <2>3 DEF Poll, StopSeen, GetEmpty
      <3>2. pc[t] # "idle"
        BY <1>2 DEF Poll, StopSeen, GetEmpty
      <3>3. Leaves(t) /\ Others(t)
        BY <1>0, <2>1, <3>1, <3>2 DEF Leaves, Others, TypeOK, Calling, Kinds
      <3> QED BY <2>1, <3>3, LeavesInv
    <2> QED BY <2>2, <2>3
  <1>3. CASE GetMessage(t)
    <2>1. PICK m \in queue :
             /\ m > last[t]
             /\ \A k \in queue : k > last[t] => m <= k
             /\ \/ HandleMessage(t, m)
                \/ Returned(t, "failed") /\ UNCHANGED <<latest, msg>>
      BY <1>3 DEF GetMessage
    <2>2. UNCHANGED <<next, queue, done>> /\ pc[t] = "polling"
      BY <1>3 DEF GetMessage
    <2>3. CASE HandleMessage(t, m)
      <3>1. m \in 1..next - 1 /\ pc[t] \notin Calling
        BY <1>0, <2>2, LocationSets DEF TypeOK
      <3>2. loop[t] => \A k \in queue : m <= k
        BY <1>0, <2>1, <2>2 DEF TaskInv
      <3> QED BY <2>2, <2>3, <3>1, <3>2, TakesUpInv
    <2>4. CASE Returned(t, "failed") /\ UNCHANGED <<latest, msg>>
      <3>1. msg' \in {msg, [msg EXCEPT ![t] = 0]}
        BY <2>4
      <3>2. Leaves(t) /\ Others(t)
        BY <1>0, <2>4, <3>1, ReturnedLeaves
      <3> QED BY <2>2, <3>2, LeavesInv
    <2> QED BY <2>1, <2>3, <2>4
  <1>4. CASE \E m \in MessageIds : HandleOne(t, m)
    <2>1. PICK m \in MessageIds : HandleOne(t, m)
      BY <1>4
    <2>2. HandleMessage(t, m) /\ UNCHANGED <<next, queue, done>> /\ pc[t] = "idle"
      BY <2>1 DEF HandleOne
    <2>3. m \in 1..next - 1 /\ pc[t] \notin Calling /\ ~loop[t]
      BY <1>0, <2>1, <2>2, LocationSets DEF HandleOne, TaskInv, MessageIds, TypeOK
    <2> QED BY <2>2, <2>3, TakesUpInv
  <1> DEFINE m == msg[t]
  <1>5. CASE AcquireOk(t) \/ StartedOk(t) \/ CompletedOk(t) \/ DesiredOk(t)
    <2>1. PICK c : /\ Succeed(t, c) /\ pc[t] \in Kinds
                   /\ UNCHANGED <<next, queue, msg, loop, last>>
                   /\ Follows(m, <<pc[t], cursor[t]>>, c) /\ c = <<c[1], c[2]>>
      <3>1. /\ pc[t] \in Kinds /\ UNCHANGED <<next, queue, msg, loop, last>>
        BY <1>5 DEF AcquireOk, StartedOk, CompletedOk, DesiredOk, Kinds
      <3>2. m \in MessageIds /\ <<pc[t], cursor[t]>> \in Calls(m)
        BY <1>0, <3>1, LocationSets DEF TaskInv, TypeOK, MessageIds, Kinds
      <3>3. CASE AcquireOk(t)
        <4>1. pc[t] = "acquire" /\ Succeed(t, ToStarted(m))
          BY <3>3 DEF AcquireOk
        <4>2. cursor[t] = 1
          BY <3>2, <4>1 DEF Calls
        <4>3. ToStarted(m) = <<ToStarted(m)[1], ToStarted(m)[2]>>
          BY DEF ToStarted, ToCompleted
        <4> QED BY <3>1, <3>2, <4>1, <4>2, <4>3, AfterAcquire
      <3>4. CASE StartedOk(t)
        <4> DEFINE c == IF cursor[t] < Body[m].started
                        THEN <<"started", cursor[t] + 1>> ELSE ToCompleted(m)
        <4>1. pc[t] = "started" /\ Succeed(t, c)
          BY <3>4 DEF StartedOk
        <4>2. cursor[t] \in 1..Body[m].started
          BY <3>2, <4>1, BodyTyped DEF Calls
        <4>3. c = <<c[1], c[2]>>
          BY DEF ToCompleted
        <4>4. Follows(m, <<pc[t], cursor[t]>>, c)
          BY <3>2, <4>1, <4>2, AfterStarted
        <4> QED BY <3>1, <4>1, <4>3, <4>4
      <3>5. CASE CompletedOk(t)
        <4> DEFINE c == IF cursor[t] < Body[m].completed
                        THEN <<"completed", cursor[t] + 1>> ELSE <<"desired", 1>>
        <4>1. pc[t] = "completed" /\ Succeed(t, c)
          BY <3>5 DEF CompletedOk
        <4>2. cursor[t] \in 1..Body[m].completed
          BY <3>2, <4>1, BodyTyped DEF Calls
        <4>3. c = <<c[1], c[2]>>
          OBVIOUS
        <4>4. Follows(m, <<pc[t], cursor[t]>>, c)
          BY <3>2, <4>1, <4>2, AfterCompleted
        <4> QED BY <3>1, <4>1, <4>3, <4>4
      <3>6. CASE DesiredOk(t)
        <4>1. pc[t] = "desired" /\ Succeed(t, <<"delete", 1>>)
          BY <3>6 DEF DesiredOk
        <4>2. cursor[t] = 1
          BY <3>2, <4>1 DEF Calls
        <4> QED BY <3>1, <3>2, <4>1, <4>2, AfterDesired
      <3> QED BY <1>5, <3>3, <3>4, <3>5, <3>6
    <2> QED BY <2>1, SuccessInv
  <1>6. CASE DeleteOk(t)
    <2>1. pc[t] = "delete" /\ queue' = queue \ {m} /\ UNCHANGED <<next, msg, done>>
      BY <1>6 DEF DeleteOk
    <2>2. m \in MessageIds /\ Calls(m) \subseteq done[m]
      BY <2>1, ReadyToDelete
    <2>3. CASE loop[t]
      <3>1. /\ last' = [last EXCEPT ![t] = m]
            /\ pc' = [pc EXCEPT ![t] = "top"]
            /\ UNCHANGED <<loop, cursor>>
        BY <1>6, <2>3 DEF DeleteOk
      <3>2. Others(t) /\ pc'[t] = "top" /\ last'[t] = m
        BY <1>0, <2>1, <3>1 DEF Others, TypeOK
      <3>3. pc[t] \in Calling /\ pc'[t] \notin Calling /\ pc'[t] # "idle"
        BY <2>1, <3>2, LocationSets DEF Calling
      <3>4. m \in 1..next - 1 /\ \A k \in queue : m <= k
        BY <1>0, <2>3, <3>3 DEF TaskInv
      <3>5. \A k \in queue' : k > last'[t]
        BY <1>0, <2>1, <3>2, <3>4 DEF TypeOK
      <3>6. last'[t] < next
        BY <1>0, <3>2, <3>4 DEF TypeOK
      <3>7. TaskInv(t)'
        BY <2>1, <3>3, <3>5, <3>6 DEF TaskInv
      <3>8. AckAfterProcessing' /\ CallsInOrder'
        BY <2>1, <2>2 DEF IInv, AckAfterProcessing, CallsInOrder
      <3>9. \A u \in Tasks \ {t} : TaskInv(u)'
        BY <2>1, <3>2, Frame
      <3> QED BY <3>7, <3>8, <3>9 DEF IInv
    <2>4. CASE ~loop[t]
      <3>1. Returned(t, "ok") /\ msg' \in {msg, [msg EXCEPT ![t] = 0]}
        BY <1>6, <2>1, <2>4 DEF DeleteOk
      <3>2. Leaves(t) /\ Others(t)
        BY <1>0, <3>1, ReturnedLeaves
      <3> QED BY <2>1, <2>2, <3>2, LeavesInv
    <2> QED BY <2>3, <2>4
  <1>7. CASE InitialDesiredOk(t) \/ IdleDesiredOk(t)
    <2>1. /\ pc[t] # "idle" /\ pc' = [pc EXCEPT ![t] = "top"]
          /\ UNCHANGED <<next, queue, done, msg, loop, last, cursor>>
      BY <1>7 DEF InitialDesiredOk, IdleDesiredOk
    <2>2. Leaves(t) /\ Others(t)
      BY <1>0, <2>1, LocationSets DEF Leaves, Others, TypeOK
    <2> QED BY <2>1, <2>2, LeavesInv
  <1>8. CASE Interrupted(t)
    <2>1. /\ Returned(t, "failed") /\ msg' \in {msg, [msg EXCEPT ![t] = 0]}
          /\ UNCHANGED <<next, done>>
      BY <1>8 DEF Interrupted
    <2>2. Leaves(t) /\ Others(t)
      BY <1>0, <2>1, ReturnedLeaves
    <2>3. queue' \subseteq queue /\ \A k \in queue \ queue' : Calls(k) \subseteq done[k]
      BY <1>8, ReadyToDelete DEF Interrupted
    <2> QED BY <2>1, <2>2, <2>3, LeavesInv
  <1> QED BY <1>1, <1>2, <1>3, <1>4, <1>5, <1>6, <1>7, <1>8 DEF TaskStep, CallOk

LEMMA InvEnvironment ==
  ASSUME IInv, TypeOK', Environment
  PROVE  IInv'
PROOF
  <1> USE DEF service, channel, shared, history, locals
  <1>0. TypeOK
    BY DEF IInv
  <1>1. CASE Publish
    <2>1. next' = next + 1 /\ queue' = queue \cup {next} /\ next \in Nat \ {0}
      BY <1>0, <1>1 DEF Publish, TypeOK
    <2>2. UNCHANGED <<pc, msg, loop, last, cursor, done>>
      BY <1>1 DEF Publish
    <2>3. AckAfterProcessing' /\ CallsInOrder'
      BY <2>1, <2>2 DEF IInv, AckAfterProcessing, CallsInOrder, MessageIds
    <2>4. ASSUME NEW t \in Tasks PROVE TaskInv(t)'
      <3>1. TaskInv(t) /\ last[t] \in Nat
        BY <1>0 DEF IInv, TypeOK, Versions
      <3> QED BY <2>1, <2>2, <3>1 DEF TaskInv
    <2> QED BY <2>3, <2>4 DEF IInv
  <1>2. CASE Crash
    <2>1. /\ UNCHANGED <<next, done>> /\ queue' \subseteq queue
          /\ \A k \in queue \ queue' : Calls(k) \subseteq done[k]
      BY <1>2, ReadyToDelete DEF Crash
    <2>2. AckAfterProcessing' /\ CallsInOrder'
      BY <2>1 DEF IInv, AckAfterProcessing, CallsInOrder
    <2>3. ASSUME NEW t \in Tasks PROVE TaskInv(t)'
      <3>1. pc'[t] = "idle" /\ ~loop'[t] /\ last'[t] = 0 /\ next' \in Nat \ {0}
        BY <1>0, <1>2, <2>1 DEF Crash, TypeOK
      <3> QED BY <3>1, LocationSets DEF TaskInv
    <2> QED BY <2>2, <2>3 DEF IInv
  <1>3. CASE Environment /\ ~Publish /\ ~Crash
    <2>1. UNCHANGED <<next, queue, pc, msg, loop, last, cursor, done>>
      BY <1>3 DEF Environment, SetMaxRunners, SendStop, DropSender, RefreshSession
    <2> QED BY <2>1 DEF IInv, AckAfterProcessing, CallsInOrder, TaskInv
  <1> QED BY <1>1, <1>2, <1>3

THEOREM Invariance == Spec => []IInv
PROOF
  <1>1. IInv /\ [Next]_vars => IInv'
    <2> SUFFICES ASSUME IInv, [Next]_vars PROVE IInv'
      OBVIOUS
    <2>1. CASE UNCHANGED vars
      BY <2>1 DEF vars, service, channel, shared, history, locals,
                  IInv, TypeOK, AckAfterProcessing, CallsInOrder, TaskInv
    <2>2. CASE Next
      <3>1. TypeOK'
        BY <2>2, TypeTask, TypeEnvironment DEF Next, IInv
      <3> QED BY <2>2, <3>1, InvTask, InvEnvironment DEF Next
    <2> QED BY <2>1, <2>2
  <1> QED BY <1>1, InvInit, PTL DEF Spec

(* No message leaves the queue before each of its calls has succeeded.     *)
THEOREM AcknowledgedAfterProcessing == Spec => []AckAfterProcessing
PROOF
  <1>1. IInv => AckAfterProcessing
    BY DEF IInv
  <1> QED BY <1>1, Invariance, PTL

(* No call of a message succeeds before those ahead of it.                 *)
THEOREM InOrder == Spec => []CallsInOrder
PROOF
  <1>1. IInv => CallsInOrder
    BY DEF IInv
  <1> QED BY <1>1, Invariance, PTL

(* A task that waits for a call has made those ahead of it.                *)
THEOREM CallsAhead == Spec => []InFlight
PROOF
  <1>1. IInv => InFlight
    BY DEF IInv, TaskInv, InFlight
  <1> QED BY <1>1, Invariance, PTL

(* No run polls past a message that is still in the queue.                 *)
THEOREM NothingSkipped == Spec => []NoMessageSkipped
PROOF
  <1>1. IInv => NoMessageSkipped
    BY DEF IInv, TaskInv, NoMessageSkipped
  <1> QED BY <1>1, Invariance, PTL

-----------------------------------------------------------------------------
(* The listener implements AtLeastOnce: a call that succeeds is a          *)
(* delivery, a deletion is an acknowledgment, and a crash acknowledges     *)
(* what the deletions in flight take away.                                 *)

aloVars == <<next, queue, done>>

LEMMA SameMessages ==
  /\ ALO!MessageIds = MessageIds
  /\ \A m : ALO!Calls(m) = Calls(m)
  /\ \A m, kind, k : ALO!Before(m, kind, k) = Before(m, kind, k)
PROOF BY DEF ALO!MessageIds, MessageIds, ALO!Calls, Calls, ALO!Before, Before, ALO!Rank, Rank

(* A step that only takes away messages whose calls are all made.          *)
LEMMA ShrinkStep ==
  ASSUME UNCHANGED <<next, done>>, queue' \subseteq queue,
         \A m \in queue \ queue' : Calls(m) \subseteq done[m]
  PROVE  [ALO!Next]_aloVars
PROOF
  <1> DEFINE S == queue \ queue'
  <1>1. queue' = queue \ S /\ S \in SUBSET queue
    OBVIOUS
  <1>2. ALO!Acknowledge(S)
    BY <1>1, SameMessages DEF ALO!Acknowledge
  <1> QED BY <1>1, <1>2 DEF ALO!Next

LEMMA CallStep ==
  ASSUME IInv, NEW t \in Tasks, NEW c, pc[t] \in Kinds, Succeed(t, c),
         UNCHANGED <<next, queue>>
  PROVE  [ALO!Next]_aloVars
PROOF
  <1> DEFINE m == msg[t]
             d == <<pc[t], cursor[t]>>
  <1>1. TypeOK /\ TaskInv(t) /\ pc[t] \in Calling /\ pc[t] # "delete"
    BY LocationSets DEF IInv, Kinds
  <1>2. m \in MessageIds /\ m < next
    BY <1>1 DEF TaskInv, MessageIds, TypeOK
  <1>3. d \in Calls(m) /\ Before(m, d[1], d[2]) \subseteq done[m]
    BY <1>1 DEF TaskInv
  <1>4. ALO!Deliver(m, d)
    BY <1>2, <1>3, SameMessages DEF Succeed, ALO!Deliver
  <1> QED BY <1>2, <1>3, <1>4, SameMessages DEF ALO!Next

LEMMA StepRefinement ==
  ASSUME IInv, [Next]_vars
  PROVE  [ALO!Next]_aloVars
PROOF
  <1> USE DEF service, channel, shared, history, locals
  <1>1. CASE UNCHANGED vars
    BY <1>1 DEF vars, aloVars
  <1>2. CASE Publish
    <2>1. ALO!Publish
      BY <1>2 DEF Publish, ALO!Publish
    <2> QED BY <2>1 DEF ALO!Next
  <1>3. CASE Environment /\ ~Publish
    <2>1. UNCHANGED <<next, done>> /\ queue' \subseteq queue
      BY <1>3 DEF Environment, SetMaxRunners, SendStop, DropSender, RefreshSession, Crash
    <2>2. \A k \in queue \ queue' : Calls(k) \subseteq done[k]
      BY <1>3, ReadyToDelete
        DEF Environment, SetMaxRunners, SendStop, DropSender, RefreshSession, Crash
    <2> QED BY <2>1, <2>2, ShrinkStep
  <1>4. ASSUME NEW t \in Tasks, TaskStep(t) PROVE [ALO!Next]_aloVars
    <2>1. CASE AcquireOk(t) \/ StartedOk(t) \/ CompletedOk(t) \/ DesiredOk(t)
      <3>1. PICK c : pc[t] \in Kinds /\ Succeed(t, c) /\ UNCHANGED <<next, queue>>
        BY <2>1 DEF AcquireOk, StartedOk, CompletedOk, DesiredOk, Kinds
      <3> QED BY <3>1, CallStep
    <2>2. CASE ~(AcquireOk(t) \/ StartedOk(t) \/ CompletedOk(t) \/ DesiredOk(t))
      <3>1. UNCHANGED <<next, done>> /\ queue' \subseteq queue
        BY <1>4, <2>2
          DEF TaskStep, CallOk, Start, Poll, StopSeen, GetEmpty, GetMessage, HandleOne,
              DeleteOk, InitialDesiredOk, IdleDesiredOk, Interrupted
      <3>2. \A k \in queue \ queue' : Calls(k) \subseteq done[k]
        BY <1>4, <2>2, ReadyToDelete
          DEF TaskStep, CallOk, Start, Poll, StopSeen, GetEmpty, GetMessage, HandleOne,
              DeleteOk, InitialDesiredOk, IdleDesiredOk, Interrupted
      <3> QED BY <3>1, <3>2, ShrinkStep
    <2> QED BY <2>1, <2>2
  <1> QED BY <1>1, <1>2, <1>3, <1>4 DEF Next

(* Every behaviour of the listener is one of AtLeastOnce.                  *)
THEOREM Refinement == Spec => ImplementsAtLeastOnce
PROOF
  <1>1. Init => ALO!Init
    BY SameMessages DEF Init, ALO!Init
  <1>2. IInv /\ [Next]_vars => [ALO!Next]_aloVars
    BY StepRefinement
  <1> QED BY <1>1, <1>2, Invariance, PTL
        DEF Spec, ImplementsAtLeastOnce, ALO!Spec, ALO!vars, aloVars

-----------------------------------------------------------------------------
(* What a run leaves behind.  Between two messages, and after a return of  *)
(* Ok, the message taken up last has been deleted; and once a run or a     *)
(* handle_one is under way the listener has statistics.                    *)

Resting == {"initial", "idleDesired", "top", "polling"}

RestInv(t) ==
  /\ msg[t] < next
  /\ pc[t] # "idle" => latest # NoStats
  /\ pc[t] \in Resting \/ (pc[t] = "idle" /\ result[t] = "ok") => msg[t] \notin queue

LInv == TypeOK /\ \A t \in Tasks : RestInv(t)

LEMMA RestInit == Init => LInv
PROOF BY TypeInit DEF Init, LInv, RestInv, Resting

(* What a step of t does for the other tasks.                              *)
LEMMA RestFrame ==
  ASSUME LInv, NEW u \in Tasks, next' = next, queue' \subseteq queue,
         msg'[u] = msg[u], pc'[u] = pc[u], result'[u] = result[u],
         latest' = latest \/ latest' # NoStats
  PROVE  RestInv(u)'
PROOF BY DEF LInv, RestInv

LEMMA RestReturned ==
  ASSUME TypeOK, NEW t \in Tasks, NEW r, Returned(t, r)
  PROVE  /\ pc'[t] = "idle" /\ result'[t] = r
         /\ \A u \in Tasks \ {t} : pc'[u] = pc[u] /\ result'[u] = result[u]
PROOF BY DEF TypeOK, Returned

LEMMA RestHandle ==
  ASSUME LInv, NEW t \in Tasks, NEW m \in MessageIds, m < next, HandleMessage(t, m)
  PROVE  /\ msg'[t] = m /\ (latest' = latest \/ latest' # NoStats)
         /\ \A u \in Tasks \ {t} : msg'[u] = msg[u] /\ pc'[u] = pc[u] /\ result'[u] = result[u]
         /\ \/ pc'[t] = "idle" /\ result'[t] = "failed"
            \/ pc'[t] \in Kinds /\ latest' # NoStats
PROOF
  <1>1. TypeOK
    BY DEF LInv
  <1>2. msg'[t] = m /\ \A u \in Tasks \ {t} : msg'[u] = msg[u]
    BY <1>1 DEF HandleMessage, TypeOK
  <1>3. m # NoStats
    BY DEF MessageIds, NoStats
  <1>4. CASE ~Body[m].hasStats
    BY <1>1, <1>2, <1>4, RestReturned DEF HandleMessage
  <1>5. CASE Body[m].hasStats
    <2>1. Goto(t, FirstCall(m)) /\ latest' = m /\ result' = result
      BY <1>5 DEF HandleMessage
    <2>2. pc'[t] \in Kinds /\ \A u \in Tasks \ {t} : pc'[u] = pc[u]
      BY <1>1, <2>1, Targets DEF Goto, TypeOK
    <2> QED BY <1>2, <1>3, <2>1, <2>2
  <1> QED BY <1>4, <1>5

LEMMA RestTask ==
  ASSUME LInv, NEW t \in Tasks, TaskStep(t)
  PROVE  \A u \in Tasks : RestInv(u)'
PROOF
  <1> USE DEF service, channel, shared, history, locals
  <1>0. TypeOK /\ RestInv(t)
    BY DEF LInv
  <1>a. /\ Kinds \cap Resting = {} /\ "delete" \notin Resting
        /\ "idle" \notin Resting /\ "idle" \notin Kinds
    BY DEF Resting, Kinds
  <1>1. CASE Start(t)
    <2>1. /\ msg'[t] = 0 /\ \A u \in Tasks \ {t} : msg'[u] = msg[u]
          /\ next' = next /\ queue' = queue /\ 0 \notin queue /\ 0 < next
      BY <1>0, <1>1 DEF Start, TypeOK
    <2>2. CASE session = NoStats
      BY <1>0, <1>1, <2>1, <2>2, RestReturned, RestFrame, <1>a DEF Start, RestInv
    <2>3. CASE session # NoStats
      <3>1. latest' # NoStats /\ result' = result /\ pc' = [pc EXCEPT ![t] = "initial"]
        BY <1>1, <2>3 DEF Start
      <3>2. pc'[t] = "initial" /\ \A u \in Tasks \ {t} : pc'[u] = pc[u]
        BY <1>0, <3>1 DEF TypeOK
      <3>3. RestInv(t)'
        BY <2>1, <3>1, <3>2 DEF RestInv
      <3> QED BY <2>1, <3>1, <3>2, <3>3, RestFrame
    <2> QED BY <2>2, <2>3
  (* The task leaves its call with what it has, in any of these ways.      *)
  <1>2. ASSUME UNCHANGED <<next, msg, latest>>, queue' \subseteq queue,
               \A u \in Tasks \ {t} : pc'[u] = pc[u] /\ result'[u] = result[u],
               pc[t] # "idle",
               \/ pc'[t] = "idle" /\ result'[t] = "failed"
               \/ msg[t] \notin queue' \/ pc'[t] \in Kinds \cup {"delete"}
        PROVE  \A u \in Tasks : RestInv(u)'
    <2>1. RestInv(t)'
      BY <1>0, <1>2, <1>a DEF RestInv
    <2> QED BY <1>2, <2>1, RestFrame
  <1>3. CASE InitialDesiredOk(t) \/ IdleDesiredOk(t) \/ Poll(t) \/ StopSeen(t) \/ GetEmpty(t)
    <2>1. pc[t] \in Resting
      BY <1>3 DEF InitialDesiredOk, IdleDesiredOk, Poll, StopSeen, GetEmpty, Resting
    <2>2. msg[t] \notin queue /\ pc[t] # "idle"
      BY <1>0, <1>a, <2>1 DEF RestInv
    <2>3. UNCHANGED <<next, queue, msg, latest>>
      BY <1>3 DEF InitialDesiredOk, IdleDesiredOk, Poll, StopSeen, GetEmpty
    <2>4. \/ \E r : Returned(t, r)
          \/ \E l : (pc' = [pc EXCEPT ![t] = l] /\ UNCHANGED result)
      BY <1>3 DEF InitialDesiredOk, IdleDesiredOk, Poll, StopSeen, GetEmpty
    <2>5. \A u \in Tasks \ {t} : pc'[u] = pc[u] /\ result'[u] = result[u]
      BY <1>0, <2>4, RestReturned DEF TypeOK
    <2> QED BY <1>2, <2>2, <2>3, <2>5
  <1>4. ASSUME NEW m \in MessageIds, m < next, HandleMessage(t, m), UNCHANGED <<next, queue>>
        PROVE  \A u \in Tasks : RestInv(u)'
    <2>1. RestInv(t)'
      BY <1>4, <1>a, RestHandle DEF RestInv
    <2>2. \A u \in Tasks \ {t} : RestInv(u)'
      BY <1>4, RestHandle, RestFrame
    <2> QED BY <2>1, <2>2
  <1>5. CASE GetMessage(t)
    <2>1. PICK m \in queue :
            \/ HandleMessage(t, m)
            \/ Returned(t, "failed") /\ UNCHANGED <<latest, msg>>
      BY <1>5 DEF GetMessage
    <2>2. m \in MessageIds /\ m < next /\ UNCHANGED <<next, queue>> /\ pc[t] # "idle"
      BY <1>0, <1>5 DEF GetMessage, TypeOK, MessageIds
    <2>3. CASE Returned(t, "failed") /\ UNCHANGED <<latest, msg>>
      BY <1>0, <1>2, <2>2, <2>3, RestReturned
    <2> QED BY <1>4, <2>1, <2>2, <2>3
  <1>6. CASE \E m \in MessageIds : HandleOne(t, m)
    BY <1>4, <1>6 DEF HandleOne
  <1>7. CASE AcquireOk(t) \/ StartedOk(t) \/ CompletedOk(t) \/ DesiredOk(t)
    <2>1. PICK c : /\ Goto(t, c) /\ c[1] \in Kinds \cup {"delete"} /\ pc[t] # "idle"
                   /\ UNCHANGED <<next, queue, msg, latest, result>>
      <3>1. CASE AcquireOk(t) \/ StartedOk(t)
        BY <3>1 DEF AcquireOk, StartedOk, Succeed, ToStarted, ToCompleted, Kinds
      <3>2. CASE CompletedOk(t) \/ DesiredOk(t)
        BY <3>2 DEF CompletedOk, DesiredOk, Succeed, Kinds
      <3> QED BY <1>7, <3>1, <3>2
    <2>2. pc'[t] \in Kinds \cup {"delete"} /\ \A u \in Tasks \ {t} : pc'[u] = pc[u]
      BY <1>0, <2>1 DEF Goto, TypeOK
    <2> QED BY <1>2, <2>1, <2>2
  <1>8. CASE DeleteOk(t)
    <2>1. /\ pc[t] = "delete" /\ queue' = queue \ {msg[t]} /\ UNCHANGED <<next, msg, latest>>
      BY <1>8 DEF DeleteOk
    <2>2. \A u \in Tasks \ {t} : pc'[u] = pc[u] /\ result'[u] = result[u]
      BY <1>0, <1>8, RestReturned DEF DeleteOk, TypeOK
    <2> QED BY <1>2, <2>1, <2>2
  <1>9. CASE Interrupted(t)
    <2>1. /\ pc[t] # "idle" /\ Returned(t, "failed") /\ queue' \subseteq queue
          /\ UNCHANGED <<next, msg, latest>>
      BY <1>9, LocationSets DEF Interrupted, Awaits, Desiring
    <2> QED BY <1>0, <1>2, <2>1, RestReturned
  <1> QED BY <1>1, <1>3, <1>5, <1>6, <1>7, <1>8, <1>9 DEF TaskStep, CallOk

LEMMA RestInvariance == Spec => []LInv
PROOF
  <1>1. LInv /\ [Next]_vars => LInv'
    <2> SUFFICES ASSUME LInv, [Next]_vars PROVE LInv'
      OBVIOUS
    <2> USE DEF service, channel, shared, history, locals
    <2>0. TypeOK
      BY DEF LInv
    <2>1. CASE UNCHANGED vars
      BY <2>1 DEF vars, LInv, RestInv, TypeOK
    <2>2. CASE Next
      <3>1. TypeOK'
        BY <2>0, <2>2, TypeTask, TypeEnvironment DEF Next
      <3>2. CASE Publish
        <4>1. ASSUME NEW t \in Tasks PROVE RestInv(t)'
          <5>1. RestInv(t) /\ next \in Nat /\ msg[t] \in Int
            BY <2>0 DEF LInv, TypeOK, Versions
          <5>2. next' = next + 1 /\ queue' = queue \cup {next} /\ UNCHANGED <<pc, msg, result, latest>>
            BY <3>2 DEF Publish
          <5> QED BY <5>1, <5>2 DEF RestInv
        <4> QED BY <3>1, <4>1 DEF LInv
      <3>3. CASE Crash
        <4>1. \A t \in Tasks : pc'[t] = "idle" /\ result'[t] = "none" /\ msg'[t] = 0
          BY <3>3 DEF Crash
        <4>2. next' = next /\ next \in Nat \ {0}
          BY <2>0, <3>3 DEF Crash, TypeOK
        <4> QED BY <3>1, <4>1, <4>2 DEF LInv, RestInv, Resting
      <3>4. CASE Environment /\ ~Publish /\ ~Crash
        <4>1. UNCHANGED <<next, queue, pc, msg, latest, result>>
          BY <3>4 DEF Environment, SetMaxRunners, SendStop, DropSender, RefreshSession
        <4> QED BY <3>1, <4>1 DEF LInv, RestInv
      <3> QED BY <2>2, <3>1, <3>2, <3>3, <3>4, RestTask DEF Next, LInv
    <2> QED BY <2>1, <2>2
  <1> QED BY <1>1, RestInit, PTL DEF Spec

(* run_until returns Ok, and handle_one too, only with the message it took *)
(* up last handled and deleted.                                            *)
THEOREM CleanReturn == Spec => []CleanStop
PROOF
  <1>1. LInv => CleanStop
    BY DEF LInv, RestInv, CleanStop
  <1> QED BY <1>1, RestInvariance, PTL

(* The error "latest statistics is nil" is unreachable.                    *)
THEOREM StatisticsToFallBackOn == Spec => []EmptyPollHasStatistics
PROOF
  <1>1. LInv => EmptyPollHasStatistics
    BY DEF LInv, RestInv, EmptyPollHasStatistics
  <1> QED BY <1>1, RestInvariance, PTL

-----------------------------------------------------------------------------
(* What the scaler was told.  Only the one task calls the scaler and       *)
(* writes latest_statistics, so what it is about to say, what it keeps and *)
(* what it said last go together from the start of a run to its end.       *)

Settled == {"top", "polling", "idleDesired"}

ToldInv(t) ==
  /\ pc[t] \in Settled => target = latest /\ (last[t] > 0 => target = last[t])
  /\ pc[t] = "idleDesired" => count[t] = latest
  /\ pc[t] = "initial" => count[t] = latest /\ last[t] = 0
  /\ pc[t] \in Calling => count[t] = latest /\ latest = msg[t]
  /\ pc[t] = "delete" => target = msg[t]

(* A task outside any call has nothing to say.                             *)
LEMMA ToldIdle ==
  ASSUME NEW t \in Tasks, pc'[t] = "idle"
  PROVE  ToldInv(t)'
PROOF
  <1>1. "idle" \notin Settled /\ "idle" \notin Calling
    BY DEF Settled, Calling, Kinds
  <1> QED BY <1>1 DEF ToldInv

LEMMA ToldReturned ==
  ASSUME TypeOK, NEW t \in Tasks, NEW r, Returned(t, r)
  PROVE  ToldInv(t)'
PROOF BY ToldIdle, RestReturned

LEMMA ToldHandle ==
  ASSUME TypeOK, NEW t \in Tasks, NEW m \in MessageIds, HandleMessage(t, m)
  PROVE  ToldInv(t)'
PROOF
  <1>1. CASE ~Body[m].hasStats
    BY <1>1, ToldReturned DEF HandleMessage
  <1>2. CASE Body[m].hasStats
    <2>1. latest' = m /\ msg'[t] = m /\ count'[t] = m
      BY <1>2 DEF HandleMessage, TypeOK
    <2>2. pc'[t] \in Kinds
      BY <1>2, Targets DEF HandleMessage, Goto, TypeOK
    <2>3. Kinds \cap Settled = {} /\ "initial" \notin Kinds /\ "delete" \notin Kinds
      BY DEF Kinds, Settled
    <2> QED BY <2>1, <2>2, <2>3 DEF ToldInv, Settled
  <1> QED BY <1>1, <1>2

LEMMA ToldTask ==
  ASSUME TypeOK, NEW t \in Tasks, ToldInv(t), TaskStep(t)
  PROVE  ToldInv(t)'
PROOF
  <1> USE DEF service, channel, shared, history, locals
  <1>a. /\ Calling \cap Settled = {} /\ "initial" \notin Calling \cup Settled
        /\ "delete" \in Calling \ Kinds /\ Kinds \subseteq Calling
    BY DEF Settled, Calling, Kinds
  <1>1. CASE Start(t)
    <2>1. CASE session = NoStats
      BY <1>1, <2>1, ToldReturned DEF Start
    <2>2. CASE session # NoStats
      <3>1. pc'[t] = "initial" /\ latest' = session /\ count'[t] = session /\ last'[t] = 0
        BY <1>1, <2>2 DEF Start, TypeOK
      <3> QED BY <1>a, <3>1 DEF ToldInv
    <2> QED BY <2>1, <2>2
  <1>2. CASE InitialDesiredOk(t)
    <2>1. /\ target' = latest /\ latest' = latest /\ last'[t] = 0 /\ pc'[t] = "top"
      BY <1>2 DEF InitialDesiredOk, ToldInv, TypeOK
    <2> QED BY <1>a, <2>1 DEF ToldInv, Settled
  <1>3. CASE IdleDesiredOk(t)
    <2>1. /\ target' = latest /\ latest' = latest /\ last' = last /\ pc'[t] = "top"
          /\ target = latest /\ (last[t] > 0 => target = last[t])
      BY <1>3 DEF IdleDesiredOk, ToldInv, TypeOK, Settled
    <2> QED BY <1>a, <2>1 DEF ToldInv, Settled
  <1>4. CASE Poll(t) \/ StopSeen(t) \/ GetEmpty(t)
    <2>1. pc[t] \in Settled
      BY <1>4 DEF Poll, StopSeen, GetEmpty, Settled
    <2>2. UNCHANGED <<target, latest>>
      BY <1>4 DEF Poll, StopSeen, GetEmpty
    <2>3. \/ \E r : Returned(t, r)
          \/ /\ last' = last
             /\ pc'[t] \in {"polling", "top"} \/ (pc'[t] = "idleDesired" /\ count'[t] = latest)
      BY <1>4 DEF Poll, StopSeen, GetEmpty, TypeOK
    <2> QED BY <1>a, <2>1, <2>2, <2>3, ToldReturned DEF ToldInv, Settled
  <1>5. CASE GetMessage(t)
    <2>1. PICK m \in queue : HandleMessage(t, m) \/ Returned(t, "failed")
      BY <1>5 DEF GetMessage
    <2>2. m \in MessageIds
      BY DEF TypeOK, MessageIds
    <2> QED BY <2>1, <2>2, ToldHandle, ToldReturned
  <1>6. CASE \E m \in MessageIds : HandleOne(t, m)
    BY <1>6, ToldHandle DEF HandleOne
  <1>7. CASE AcquireOk(t) \/ StartedOk(t) \/ CompletedOk(t)
    <2>1. PICK c : Goto(t, c) /\ c[1] \in Kinds /\ UNCHANGED <<latest, count, msg>>
      BY <1>7 DEF AcquireOk, StartedOk, CompletedOk, Succeed, ToStarted, ToCompleted, Kinds
    <2>2. pc[t] \in Calling
      BY <1>7 DEF AcquireOk, StartedOk, CompletedOk, Calling, Kinds
    <2>3. pc'[t] \in Kinds
      BY <2>1 DEF Goto, TypeOK
    <2> QED BY <1>a, <2>1, <2>2, <2>3 DEF ToldInv, Settled
  <1>8. CASE DesiredOk(t)
    <2>1. /\ pc'[t] = "delete" /\ target' = count[t] /\ UNCHANGED <<latest, count, msg>>
          /\ pc[t] \in Calling
      BY <1>8 DEF DesiredOk, Succeed, Goto, TypeOK, Calling, Kinds
    <2> QED BY <1>a, <2>1 DEF ToldInv, Settled
  <1>9. CASE DeleteOk(t)
    <2>1. CASE loop[t]
      <3>1. /\ pc[t] = "delete" /\ pc'[t] = "top" /\ last'[t] = msg[t]
            /\ UNCHANGED <<target, latest>>
        BY <1>9, <2>1 DEF DeleteOk, TypeOK
      <3> QED BY <1>a, <3>1 DEF ToldInv, Settled
    <2>2. CASE ~loop[t]
      BY <1>9, <2>2, ToldReturned DEF DeleteOk
    <2> QED BY <2>1, <2>2
  <1>10. CASE Interrupted(t)
    BY <1>10, ToldReturned DEF Interrupted
  <1> QED BY <1>1, <1>2, <1>3, <1>4, <1>5, <1>6, <1>7, <1>8, <1>9, <1>10 DEF TaskStep, CallOk

(* With one task, the scaler is told, between two messages, the count of   *)
(* the message that was acknowledged last.                                 *)
THEOREM UpToDate == ASSUME NEW u, Tasks = {u} PROVE Spec => []ScalerUpToDate
PROOF
  <1> USE DEF service, channel, shared, history, locals
  <1>1. Init => ToldInv(u)
    BY DEF Init, ToldInv, Settled, Calling, Kinds
  <1>2. TypeOK /\ ToldInv(u) /\ [Next]_vars => ToldInv(u)'
    <2> SUFFICES ASSUME TypeOK, ToldInv(u), [Next]_vars PROVE ToldInv(u)'
      OBVIOUS
    <2>1. CASE UNCHANGED vars
      BY <2>1 DEF vars, ToldInv
    <2>2. CASE Crash
      BY <2>2, ToldIdle DEF Crash
    <2>3. CASE Environment /\ ~Crash
      <3>1. UNCHANGED <<pc, last, msg, count, latest, target>>
        BY <2>3 DEF Environment, Publish, SetMaxRunners, SendStop, DropSender, RefreshSession
      <3> QED BY <3>1 DEF ToldInv
    <2>4. CASE \E t \in Tasks : TaskStep(t)
      BY <2>4, ToldTask
    <2> QED BY <2>1, <2>2, <2>3, <2>4 DEF Next
  <1>3. ToldInv(u) => ScalerUpToDate
    BY DEF ToldInv, ScalerUpToDate, Settled
  <1> QED BY <1>1, <1>2, <1>3, Typing, PTL DEF Spec
=============================================================================
