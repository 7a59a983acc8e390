------------------------------ MODULE ErrorKinds ------------------------------
(***************************************************************************)
(* src/error.rs: errors, and how the answer to a request becomes one.  An  *)
(* error is the sequence of its layers, the outermost first, each the      *)
(* source of the one before it.                                            *)
(***************************************************************************)
EXTENDS Naturals, Sequences

CONSTANT None

ExpiredToken == "MessageQueueTokenExpired"

(* What the code tells apart in the typeName of an ActionsException.       *)
ExceptionKind == [AgentExistsException       |-> "RunnerExists",
                  AgentNotFoundException     |-> "RunnerNotFound",
                  JobStillRunningException   |-> "JobStillRunning"]

StatusKind == [s \in {400, 401, 404, 409} |->
  CASE s = 400 -> "BadRequest" [] s = 401 -> "Unauthorized"
    [] s = 404 -> "NotFound"   [] s = 409 -> "Conflict"]

Kinds == {ExpiredToken} \cup {ExceptionKind[x] : x \in DOMAIN ExceptionKind}
                        \cup {StatusKind[s] : s \in DOMAIN StatusKind}

ASSUME ErrorKindsAssumption == None \notin Kinds

(* Bodies: empty, the JSON of an exception, or something else; and whether *)
(* the content type says text/plain.                                       *)
Bodies == {"empty", "garbage", "OtherException"} \cup DOMAIN ExceptionKind
AnswersWith(statuses) == [status : statuses, text : BOOLEAN, body : Bodies]

-----------------------------------------------------------------------------
\* Message, and every other variant with neither a kind nor a source.
Message == <<[tag |-> "Message"]>>
Kind(k) == <<[tag |-> "Kind", kind |-> k]>>
Classified(k, e) == <<[tag |-> "Classified", kind |-> k]>> \o e
Context(e) == <<[tag |-> "Context"]>> \o e
Http(s, e) == <<[tag |-> "Http", status |-> s]>> \o e

(* has_kind looks through every layer that has a source.                   *)
HasKindUnwrapped(e, k) == e[1].tag \in {"Kind", "Classified"} /\ e[1].kind = k  \* mutant: the outermost layer only
HasKind(e, k) ==
  \E i \in DOMAIN e :
    /\ e[i].tag \in {"Kind", "Classified"} /\ e[i].kind = k
    /\ \A j \in 1..i - 1 : e[j].tag \in {"Classified", "Context", "Http"}

(* status: that of the first Http layer under contexts and classifications.*)
HasStatus(e, s) ==
  \E i \in DOMAIN e :
    /\ e[i].tag = "Http" /\ e[i].status = s
    /\ \A j \in 1..i - 1 : e[j].tag \in {"Classified", "Context"}

(* map_response_error: what the body says, under what the status says.     *)
Inner(a, seed) ==
  IF a.body = "empty" THEN IF seed = None THEN Message ELSE Kind(seed)
  ELSE IF seed # None THEN Classified(seed, Message)
  ELSE IF ~a.text /\ a.body \in DOMAIN ExceptionKind
       THEN Classified(ExceptionKind[a.body], Message)
  ELSE Message

MapResponseError(a, seed) ==
  Http(a.status, IF a.status \in DOMAIN StatusKind
                 THEN Classified(StatusKind[a.status], Inner(a, seed))
                 ELSE Inner(a, seed))
=============================================================================
