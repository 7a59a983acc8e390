-------------------------------- MODULE ApiCall --------------------------------
(***************************************************************************)
(* One call of the scale set and runner API (src/client.rs) or of the      *)
(* message queue (src/session.rs), from its arguments to its result: what  *)
(* is sent, which answers end it, how they are read (src/types.rs) and     *)
(* what kind of error (src/error.rs) the caller gets.                      *)
(***************************************************************************)
EXTENDS ErrorKinds, Encodings, FiniteSets, SequencesExt

CONSTANTS
  Statuses,  \* the statuses the service answers with
  MaxLabels, \* bound: labels of a scale set
  MaxBatch,  \* bound: jobs in one message
  Hours      \* the hours of the times that are read and written

ASSUME ApiCallAssumption ==
  /\ Statuses \subseteq Nat \ {0}
  /\ MaxLabels \in Nat \ {0}
  /\ Hours \subseteq Int
  /\ None # 1  \* 1 stands for the one item a lookup finds

Lookups == {"get_runner_scale_set", "get_runner_by_name", "get_runner_group_by_name"}
Deletions == {"delete_runner_scale_set", "remove_runner", "delete_session", "delete_message"}
Queue == {"get_message", "delete_message", "acquire_jobs"}
Labelled == {"create_runner_scale_set", "update_runner_scale_set"}
Plain == {"list_runner_scale_sets", "get_runner_scale_set_by_id", "get_runner",
          "generate_jit_runner_config", "create_session", "refresh_session"}
Operations == Lookups \cup Deletions \cup Queue \cup Labelled \cup Plain

Expected(op) == IF op \in Deletions THEN 204 ELSE 200
Answers == AnswersWith(Statuses)

(* A label's type, "" when it has none; a job's messageType.               *)
LabelTypes == {"", "System", "Custom"}
JobTypes == {"JobAvailable", "JobAssigned", "JobStarted", "JobCompleted"}

(* A job of a batch decodes or not; one of another type need not decode,   *)
(* and a messageType that is no string decodes as nothing.                 *)
Items == [type : JobTypes, decodes : BOOLEAN]
           \cup {[type |-> "Unknown", decodes |-> TRUE], [type |-> None, decodes |-> TRUE],
                 [type |-> "not a string", decodes |-> FALSE]}
Batches == SeqOf(Items, MaxBatch)

VARIABLES
  op,      \* the operation
  pc,      \* "start", "connect", "send", "refresh", "decode", "done"
  labels,  \* the labels of the scale set to create or update
  named,   \* whether it has a name
  created, \* its created_on, as the service's answer was read; none or one
  attempt, \* 1, or 2 after a refresh
  result,  \* what the call returns
  \* history
  refused, \* how often the queue has answered this call with a 401
  cause,   \* the answer that has ended the call
  body     \* what the answer said: for a lookup a list, for get_message a batch

vars == <<op, pc, labels, named, created, attempt, result, refused, cause, body>>

NoAnswer == [status |-> 0]

Init ==
  /\ op \in Operations
  /\ pc = "start"
  /\ labels \in (IF op \in Labelled THEN SeqOf(LabelTypes, MaxLabels) ELSE {<<>>})
  /\ named \in (IF op = "create_runner_scale_set" THEN BOOLEAN ELSE {TRUE})
  /\ created \in (IF op \in Labelled THEN {ReadTime(raw).time : raw \in RawTimes(Hours)} ELSE {{}})
  /\ attempt = 1 /\ refused = 0
  /\ result = None /\ cause = NoAnswer /\ body = None

-----------------------------------------------------------------------------
Return(value) == result' = [ok |-> TRUE, value |-> value] /\ pc' = "done"
Fail(error) == result' = [ok |-> FALSE, error |-> error] /\ pc' = "done"

(* delete_message and get_message go to the queue's own URL; all others    *)
(* ask the admin connection for one.                                       *)
Attempt == pc' = IF op \in {"get_message", "delete_message"} THEN "send" ELSE "connect"

(* A queue operation that fails: a rejected token is replaced once, and    *)
(* anything else is the caller's, with a context around it.                *)
AttemptFailed(error) ==
  \/ /\ op \in Queue /\ attempt = 1 /\ HasKind(error, ExpiredToken)
     /\ pc' = "refresh" /\ UNCHANGED result
  \/ op \in Queue /\ attempt = 1 /\ ~HasKind(error, ExpiredToken) /\ Fail(Context(error))
  \/ ~(op \in Queue /\ attempt = 1) /\ Fail(error)

(* ensure_labels and apply_default_label_types.                            *)
DefaultTypes(ls) == [i \in DOMAIN ls |-> IF ls[i] = "" THEN "System" ELSE ls[i]]

Prepare ==
  /\ pc = "start"
  /\ \/ /\ op = "create_runner_scale_set" /\ labels = <<>> /\ ~named
        /\ Fail(Message)
        /\ UNCHANGED labels
     \/ /\ op = "create_runner_scale_set" /\ labels = <<>> /\ named
        /\ labels' = <<"System">>
        /\ Attempt /\ UNCHANGED result
     \/ /\ op # "create_runner_scale_set" \/ labels # <<>>
        /\ labels' = DefaultTypes(labels)
        /\ Attempt /\ UNCHANGED result
  /\ UNCHANGED <<op, named, created, attempt, refused, cause, body>>

(* actions_url and admin_authorization, each perhaps with an exchange of   *)
(* tokens, which may be refused, fail, or bring something of no use.       *)
Connect ==
  /\ pc = "connect"
  /\ \/ pc' = "send" /\ UNCHANGED <<result, cause>>
     \/ \E a \in Answers : AttemptFailed(MapResponseError(a, None)) /\ cause' = a
     \/ AttemptFailed(Message) /\ UNCHANGED cause
  /\ UNCHANGED <<op, labels, named, created, attempt, refused, body>>

(* The transport has no answer, or the queue's URL is none.                *)
SendFails ==
  /\ pc = "send"
  /\ AttemptFailed(Message)
  /\ UNCHANGED <<op, labels, named, created, attempt, refused, cause, body>>

(* The answer is the one expected, or an error; 202 is an empty poll.      *)
Seed(a) == IF op \in Queue /\ a.status = 401 THEN ExpiredToken ELSE None
SeedAlways(a) == IF a.status = 401 THEN ExpiredToken ELSE None  \* mutant: for every request

Receive(a) ==
  /\ pc = "send"
  /\ refused' = refused + (IF op \in Queue /\ a.status = 401 THEN 1 ELSE 0)
  /\ \/ a.status = Expected(op) /\ pc' = "decode" /\ UNCHANGED <<result, cause>>
     \/ op = "get_message" /\ a.status = 202 /\ Return(None) /\ UNCHANGED cause
     \/ /\ a.status # Expected(op) /\ ~(op = "get_message" /\ a.status = 202)
        /\ AttemptFailed(MapResponseError(a, Seed(a)))
        /\ cause' = a
  /\ UNCHANGED <<op, labels, named, created, attempt, body>>

(* refresh_session succeeds, or its error is the caller's.                 *)
RefreshFailsExpired ==  \* mutant: a refused refresh counts as an expired token
  \E a \in Answers : Fail(Context(MapResponseError(a, SeedAlways(a)))) /\ cause' = a

RefreshFails ==
  \/ \E a \in Answers : Fail(Context(MapResponseError(a, None))) /\ cause' = a
  \/ Fail(Context(Message)) /\ cause' = NoAnswer

Refresh ==
  /\ pc = "refresh"
  /\ \/ attempt' = 2 /\ cause' = NoAnswer /\ Attempt /\ UNCHANGED result
     \/ RefreshFails /\ UNCHANGED attempt
  /\ UNCHANGED <<op, labels, named, created, refused, body>>

-----------------------------------------------------------------------------
(* The body of a successful answer does not decode.                        *)
DecodeFails ==
  /\ pc = "decode" /\ op \notin Deletions
  /\ AttemptFailed(Message)
  /\ UNCHANGED <<op, labels, named, created, attempt, refused, cause, body>>

(* Deletions decode nothing, others return what they read.                 *)
Decode ==
  /\ pc = "decode"
  /\ op \notin Lookups \cup {"get_message"}
  /\ Return(None)
  /\ UNCHANGED <<op, labels, named, created, attempt, refused, cause, body>>

(* A lookup by name: count says how many there are, and is 0 when missing. *)
OneOfAnyway(l) == IF l.listed = 0 THEN None ELSE 1  \* mutant: the first of several
OneOf(l) == IF l.count = 1 /\ l.listed > 0 THEN 1 ELSE None

Lookup(l) ==
  /\ pc = "decode" /\ op \in Lookups
  /\ body' = l
  /\ \/ /\ l.count \in {0, 1}
        /\ op = "get_runner_group_by_name" => OneOf(l) # None
        /\ Return(OneOf(l))
     \/ /\ l.count \notin {0, 1} \/ (op = "get_runner_group_by_name" /\ OneOf(l) = None)
        /\ Fail(Message)
  /\ UNCHANGED <<op, labels, named, created, attempt, refused, cause>>

(* parse_runner_scale_set_message, job by job: each is put into the list   *)
(* of its type, and the first that does not decode ends it.                *)
NoJobs == [t \in JobTypes |-> <<>>]

ParseJobSkips(m, i, item) ==  \* mutant: a job that does not decode is passed over
  IF item.type \in JobTypes /\ item.decodes THEN [m EXCEPT ![item.type] = Append(@, i)] ELSE m

ParseJob(m, i, item) ==
  IF m = None \/ ~item.decodes THEN None
  ELSE IF item.type \in JobTypes THEN [m EXCEPT ![item.type] = Append(@, i)]
  ELSE m

Parse(batch) ==
  LET parsed[n \in 0..Len(batch)] ==
        IF n = 0 THEN NoJobs ELSE ParseJob(parsed[n - 1], n, batch[n])
  IN parsed[Len(batch)]

(* The response is of the one type that is supported, and its body empty   *)
(* or a batch; from_str may fail as well.                                  *)
Message200(supported, batch) ==
  /\ pc = "decode" /\ op = "get_message"
  /\ body' = batch
  /\ \/ ~supported /\ AttemptFailed(Message)
     \/ supported /\ Parse(batch) = None /\ AttemptFailed(Message)
     \/ supported /\ Parse(batch) # None /\ Return(Parse(batch))
  /\ UNCHANGED <<op, labels, named, created, attempt, refused, cause>>

Next ==
  \/ Prepare \/ Connect \/ SendFails \/ Refresh \/ DecodeFails \/ Decode
  \/ \E a \in Answers : Receive(a)
  \/ \E count \in 0..2, listed \in 0..2 : Lookup([count |-> count, listed |-> listed])
  \/ \E supported \in BOOLEAN, batch \in Batches : Message200(supported, batch)

Spec == Init /\ [][Next]_vars

-----------------------------------------------------------------------------
Failed == pc = "done" /\ ~result.ok

(* Every variable has its type; an answer is remembered only once the call *)
(* or its first attempt has been ended by it.                              *)
TypeOK ==
  /\ op \in Operations
  /\ pc \in {"start", "connect", "send", "refresh", "decode", "done"}
  /\ labels \in Seq(LabelTypes) /\ Len(labels) \in 0..MaxLabels
  /\ created = {} \/ \E t \in created : created = {t}
  /\ attempt \in 1..(IF op \in Queue THEN 2 ELSE 1)
  /\ refused \in 0..attempt
  /\ cause # NoAnswer => cause \in Answers /\ pc \in {"refresh", "done"}
  /\ pc = "done" => result.ok \in BOOLEAN

(* is_message_queue_token_expired: an error that has this kind says that   *)
(* the queue has refused the call twice, with a successful refresh in      *)
(* between; no other 401, of the refresh or of the admin connection, is    *)
(* taken for it, and the call never ends with it after one refusal.        *)
ExpiredMeansTwice ==
  Failed => (HasKind(result.error, ExpiredToken) <=> refused = 2)

(* The kinds and the status a caller can ask an error for are exactly      *)
(* those of the answer that has ended the call, through every context and  *)
(* classification on the way (map_response_error, has_kind, status); an    *)
(* error that no answer has caused has none.                               *)
KindsOf(a) ==
  {StatusKind[s] : s \in {a.status} \cap DOMAIN StatusKind}
  \cup (IF refused = 2 THEN {ExpiredToken}
        ELSE IF a.text THEN {} ELSE {ExceptionKind[x] : x \in {a.body} \cap DOMAIN ExceptionKind})

FailureKeepsItsCause ==
  Failed =>
    /\ {k \in Kinds : HasKind(result.error, k)} = IF cause = NoAnswer THEN {} ELSE KindsOf(cause)
    /\ \A s \in Statuses : HasStatus(result.error, s) <=> cause.status = s

(* parse_runner_scale_set_message: the jobs of each type are exactly those *)
(* of the batch, each once and in the batch's order, and a job that does   *)
(* not decode lets none of the batch through.                              *)
OfType(batch, t) == {i \in DOMAIN batch : batch[i].type = t}
Ascending(s) == \A j, k \in DOMAIN s : j < k => s[j] < s[k]

BatchComplete ==
  (pc = "done" /\ op = "get_message" /\ result.ok /\ result.value # None) =>
    /\ \A i \in DOMAIN body : body[i].decodes
    /\ \A t \in JobTypes :
         Range(result.value[t]) = OfType(body, t) /\ Ascending(result.value[t])

(* A lookup by name returns something only when the answer says there is   *)
(* exactly one, and when the list agrees with the count it says so exactly:*)
(* none, the one, or an error.                                             *)
LookupExact ==
  (pc = "done" /\ op \in Lookups /\ body # None) =>
    /\ result.ok /\ result.value # None => body.count = 1
    /\ body.count = body.listed =>
         CASE body.listed = 1 -> result = [ok |-> TRUE, value |-> 1]
           [] body.listed = 0 -> result.ok <=> op # "get_runner_group_by_name"
           [] body.listed > 1 -> ~result.ok

(* What create_runner_scale_set and update_runner_scale_set send: labels   *)
(* of some type, one at least for a scale set to create, and a creation    *)
(* time that reads back as the one the caller has, which in turn was the   *)
(* service's, UTC where the service names no offset.                       *)
Instant(t) == t.hour - t.offset

ScaleSetSent ==
  (pc \in {"connect", "send", "decode"} /\ op \in Labelled) =>
    /\ "" \notin {labels[i] : i \in DOMAIN labels}
    /\ op = "create_runner_scale_set" => labels # <<>>
    /\ ReadTime(WriteTime(created)) = [valid |-> TRUE, time |-> created]
    /\ \A raw \in RawTimes(Hours) : raw.form = "time" =>
         {Instant(t) : t \in ReadTime(raw).time} =
           CASE raw.suffix \in {"", "Z", "ZZ", "+00:00"} -> {raw.hour}
             [] raw.suffix = "+01:00" -> {raw.hour - 1}
             [] raw.suffix = "-01:00" -> {raw.hour + 1}
             [] raw.suffix = "garbage" -> {}
=============================================================================
