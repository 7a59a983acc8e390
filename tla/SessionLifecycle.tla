---------------------------- MODULE SessionLifecycle ----------------------------
(***************************************************************************)
(* src/session.rs: how a MessageSessionClient comes by its session on the  *)
(* service (create_session), may replace it (refresh_session) and gives it *)
(* back (close), while the transport repeats requests whose answer it has  *)
(* not seen.  A client is one call of Client::message_session_client.      *)
(* Sessions are numbered in the order the service makes them; 0 is the nil *)
(* session id.                                                             *)
(***************************************************************************)
EXTENDS Integers, FiniteSets

CONSTANTS
  Clients,     \* the clients created for one scale set, one after the other or at once
  RetryMax,    \* options.retry_max
  MaxSessions  \* bound: the last session the service makes

ASSUME LifecycleAssumption ==
  /\ Clients # {}
  /\ RetryMax \in Nat
  /\ MaxSessions \in Nat

VARIABLES
  \* the service
  live,    \* the sessions that exist
  made,    \* the last session made
  maker,   \* maker[s]: the client whose POST made session s
  \* a client
  pc,      \* pc[k]: "new", "posting", "decoding", "open", "gone"
  tries,   \* tries[k]: how often k has sent its POST
  answer,  \* answer[k]: the session in the answer to the POST
  held,    \* held[k]: session_id in the client's session object
  patch,   \* patch[k]: "idle", "patching", "storing"; the refresh
  closing, \* closing[k]: the session a DELETE under way names, or NoClose
  \* requests whose sender has stopped waiting, and that may still arrive
  latePosts,   \* latePosts[k]: how many of k's
  lateDeletes, \* the sessions they name
  \* history
  lost,    \* lost[k]: how many sessions k may have made and not know (any more)
  closed   \* closed[k]: the sessions close has returned Ok for

service == <<live, made, maker>>
creation == <<pc, tries, answer>>
vars == <<service, creation, held, patch, closing, latePosts, lateDeletes, lost, closed>>

Nil == 0
NoClose == -1
Ids == 1..MaxSessions

Init ==
  /\ live = {} /\ made = 0
  /\ maker = [s \in Ids |-> CHOOSE k \in Clients : TRUE]
  /\ pc = [k \in Clients |-> "new"]
  /\ tries = [k \in Clients |-> 0]
  /\ answer = [k \in Clients |-> Nil]
  /\ held = [k \in Clients |-> Nil]
  /\ patch = [k \in Clients |-> "idle"]
  /\ closing = [k \in Clients |-> NoClose]
  /\ latePosts = [k \in Clients |-> 0]
  /\ lateDeletes = {}
  /\ lost = [k \in Clients |-> 0]
  /\ closed = [k \in Clients |-> {}]

Goto(k, l) == pc' = [pc EXCEPT ![k] = l]
Lose(k) == lost' = [lost EXCEPT ![k] = @ + 1]

(* The service carries out a POST of client k.                             *)
MakeSession(k) ==
  /\ made < MaxSessions
  /\ made' = made + 1
  /\ live' = live \cup {made + 1}
  /\ maker' = [maker EXCEPT ![made + 1] = k]

-----------------------------------------------------------------------------
(* create_session: URL and token, which may be had or not.                 *)
Create(k) ==
  /\ pc[k] = "new"
  /\ Goto(k, "posting") \/ Goto(k, "gone")
  /\ UNCHANGED <<service, tries, answer, held, patch, closing, latePosts, lateDeletes,
                 lost, closed>>

(* The POST is carried out and its answer arrives.                         *)
PostAnswered(k) ==
  /\ pc[k] = "posting"
  /\ MakeSession(k)
  /\ answer' = [answer EXCEPT ![k] = made + 1]
  /\ tries' = [tries EXCEPT ![k] = @ + 1]
  /\ Goto(k, "decoding")
  /\ UNCHANGED <<held, patch, closing, latePosts, lateDeletes, lost, closed>>

(* An attempt fails in a way the transport repeats: no answer, 429, 5xx.   *)
Retry(k) ==
  /\ tries' = [tries EXCEPT ![k] = @ + 1]
  /\ Goto(k, IF tries[k] < RetryMax THEN "posting" ELSE "gone")

(* The session may have been made, or may still be, or neither.            *)
PostLost(k) ==
  /\ pc[k] = "posting"
  /\ Retry(k)
  /\ \/ MakeSession(k) /\ Lose(k) /\ UNCHANGED latePosts
     \/ latePosts' = [latePosts EXCEPT ![k] = @ + 1] /\ Lose(k) /\ UNCHANGED service
     \/ UNCHANGED <<service, latePosts, lost>>
  /\ UNCHANGED <<answer, held, patch, closing, lateDeletes, closed>>

(* expect_status: any other status but 200 ends the call.                  *)
PostRefused(k) ==
  /\ pc[k] = "posting"
  /\ tries' = [tries EXCEPT ![k] = @ + 1]
  /\ Goto(k, "gone")
  /\ UNCHANGED <<service, answer, held, patch, closing, latePosts, lateDeletes, lost, closed>>

StoreForgotten(k) ==  \* mutant: the session made is not kept
  /\ pc[k] = "decoding"
  /\ Goto(k, "open")
  /\ UNCHANGED <<service, tries, answer, held, patch, closing, latePosts, lateDeletes,
                 lost, closed>>

(* The body decodes.  Each field has a default: without a session id it    *)
(* decodes as the nil session, and the one made is lost.                   *)
Store(k) ==
  /\ pc[k] = "decoding"
  /\ Goto(k, "open")
  /\ \/ held' = [held EXCEPT ![k] = answer[k]] /\ UNCHANGED lost
     \/ Lose(k) /\ UNCHANGED held
  /\ UNCHANGED <<service, tries, answer, patch, closing, latePosts, lateDeletes, closed>>

DecodeFails(k) ==
  /\ pc[k] = "decoding"
  /\ Goto(k, "gone")
  /\ Lose(k)
  /\ UNCHANGED <<service, tries, answer, held, patch, closing, latePosts, lateDeletes, closed>>

(* The call, or the client it has made, is dropped, and the process may    *)
(* have died; there is no Drop that deletes the session.                   *)
Abandon(k) ==
  /\ pc[k] \in {"posting", "decoding", "open"}
  /\ Goto(k, "gone")
  /\ patch' = [patch EXCEPT ![k] = "idle"]
  /\ \/ /\ pc[k] = "posting"
        /\ latePosts' = [latePosts EXCEPT ![k] = @ + 1]
        /\ tries' = [tries EXCEPT ![k] = @ + 1]
        /\ Lose(k)
        /\ UNCHANGED <<closing, lateDeletes>>
     \/ /\ pc[k] = "decoding"
        /\ Lose(k)
        /\ UNCHANGED <<tries, closing, latePosts, lateDeletes>>
     \/ /\ pc[k] = "open"
        /\ closing' = [closing EXCEPT ![k] = NoClose]
        /\ lateDeletes' = lateDeletes \cup ({closing[k]} \ {NoClose})
        /\ UNCHANGED <<tries, latePosts, lost>>
  /\ UNCHANGED <<service, answer, held, closed>>

-----------------------------------------------------------------------------
(* refresh_session: PATCH of the session the client holds.  Its answer is  *)
(* the session asked about; a session that is gone is not found.           *)
Refresh(k) ==
  /\ pc[k] = "open"
  /\ patch[k] = "idle"
  /\ patch' = [patch EXCEPT ![k] = "patching"]
  /\ UNCHANGED <<service, creation, held, closing, latePosts, lateDeletes, lost, closed>>

PatchAnswered(k) ==
  /\ patch[k] = "patching"
  /\ held[k] \in live
  /\ patch' = [patch EXCEPT ![k] = "storing"]
  /\ answer' = [answer EXCEPT ![k] = held[k]]
  /\ UNCHANGED <<service, pc, tries, held, closing, latePosts, lateDeletes, lost, closed>>

RefreshFallsBack(k) ==  \* mutant: a session that is not found is made anew
  /\ patch[k] = "patching"
  /\ held[k] \notin live
  /\ MakeSession(k)
  /\ answer' = [answer EXCEPT ![k] = made + 1]
  /\ patch' = [patch EXCEPT ![k] = "storing"]
  /\ UNCHANGED <<pc, tries, held, closing, latePosts, lateDeletes, lost, closed>>

RefreshFails(k) ==
  /\ patch[k] # "idle"
  /\ patch' = [patch EXCEPT ![k] = "idle"]
  /\ UNCHANGED <<service, creation, held, closing, latePosts, lateDeletes, lost, closed>>

(* The answer decodes, with the same defaults as that of the POST.         *)
StoreRefreshed(k) ==
  /\ patch[k] = "storing"
  /\ patch' = [patch EXCEPT ![k] = "idle"]
  /\ \/ held' = [held EXCEPT ![k] = answer[k]] /\ UNCHANGED lost
     \/ held' = [held EXCEPT ![k] = Nil] /\ Lose(k)
  /\ UNCHANGED <<service, creation, closing, latePosts, lateDeletes, closed>>

-----------------------------------------------------------------------------
(* close: the session id is read once, whatever a refresh does meanwhile.  *)
Close(k) ==
  /\ pc[k] = "open"
  /\ closing[k] = NoClose
  /\ closing' = [closing EXCEPT ![k] = held[k]]
  /\ UNCHANGED <<service, creation, held, patch, latePosts, lateDeletes, lost, closed>>

(* 204: the session has been deleted.                                      *)
CloseOk(k) ==
  /\ closing[k] \in live
  /\ live' = live \ {closing[k]}
  /\ closed' = [closed EXCEPT ![k] = @ \cup {closing[k]}]
  /\ closing' = [closing EXCEPT ![k] = NoClose]
  /\ UNCHANGED <<made, maker, creation, held, patch, latePosts, lateDeletes, lost>>

(* The DELETE is carried out and its answer lost: it is sent again, and    *)
(* meets a session that is gone, or close gives up.                        *)
CloseUnheard(k) ==
  /\ closing[k] \in live
  /\ live' = live \ {closing[k]}
  /\ closing' \in {closing, [closing EXCEPT ![k] = NoClose]}
  /\ UNCHANGED <<made, maker, creation, held, patch, latePosts, lateDeletes, lost, closed>>

CloseFailsQuietly(k) ==  \* mutant: close takes any failure for a session that is gone
  /\ closing[k] # NoClose
  /\ closing' = [closing EXCEPT ![k] = NoClose]
  /\ closed' = [closed EXCEPT ![k] = @ \cup ({closing[k]} \ {Nil})]
  /\ UNCHANGED <<service, creation, held, patch, latePosts, lateDeletes, lost>>

(* No URL, no token, no answer, or a status other than 204, a 404 for a    *)
(* session that is gone included.  The DELETE may still be carried out.    *)
CloseFails(k) ==
  /\ closing[k] # NoClose
  /\ closing' = [closing EXCEPT ![k] = NoClose]
  /\ lateDeletes' \in {lateDeletes, lateDeletes \cup {closing[k]}}
  /\ UNCHANGED <<service, creation, held, patch, latePosts, lost, closed>>

-----------------------------------------------------------------------------
(* Late requests, and the service's own housekeeping.                      *)
LatePost(k) ==
  /\ latePosts[k] > 0
  /\ latePosts' = [latePosts EXCEPT ![k] = @ - 1]
  /\ MakeSession(k) \/ UNCHANGED service
  /\ UNCHANGED <<creation, held, patch, closing, lateDeletes, lost, closed>>

LateDelete(s) ==
  /\ lateDeletes' = lateDeletes \ {s}
  /\ live' = live \ {s}
  /\ UNCHANGED <<made, maker, creation, held, patch, closing, latePosts, lost, closed>>

Expire(s) ==
  /\ live' = live \ {s}
  /\ UNCHANGED <<made, maker, creation, held, patch, closing, latePosts, lateDeletes,
                 lost, closed>>

Creating(k) ==
  \/ Create(k) \/ PostAnswered(k) \/ PostLost(k) \/ PostRefused(k)
  \/ Store(k) \/ DecodeFails(k) \/ Abandon(k)

Refreshing(k) == Refresh(k) \/ PatchAnswered(k) \/ RefreshFails(k) \/ StoreRefreshed(k)

Closing(k) == Close(k) \/ CloseOk(k) \/ CloseUnheard(k) \/ CloseFails(k)

Next ==
  \/ \E k \in Clients : Creating(k) \/ Refreshing(k) \/ Closing(k) \/ LatePost(k)
  \/ \E s \in lateDeletes : LateDelete(s)
  \/ \E s \in live : Expire(s)

Spec == Init /\ [][Next]_vars

-----------------------------------------------------------------------------
(* Types; a POST is sent at most retry_max + 1 times.                      *)
TypeOK ==
  /\ made \in 0..MaxSessions
  /\ live \subseteq 1..made
  /\ maker \in [Ids -> Clients]
  /\ pc \in [Clients -> {"new", "posting", "decoding", "open", "gone"}]
  /\ tries \in [Clients -> 0..RetryMax + 1]
  /\ \A k \in Clients : pc[k] \in {"new", "posting"} => tries[k] <= RetryMax
  /\ answer \in [Clients -> 0..made]
  /\ held \in [Clients -> 0..made]
  /\ patch \in [Clients -> {"idle", "patching", "storing"}]
  /\ closing \in [Clients -> -1..made]
  /\ latePosts \in [Clients -> Nat]
  /\ lateDeletes \subseteq 0..made
  /\ lost \in [Clients -> Nat]
  /\ closed \in [Clients -> SUBSET (1..made)]

(* A session close has returned Ok for does not exist any more, whatever   *)
(* was under way when it was called: a refresh of it, an earlier DELETE, a *)
(* POST that arrives late.                                                 *)
ClosedIsGone == \A k \in Clients : closed[k] \cap live = {}

(* "After polling has stopped, explicitly close the GitHub message         *)
(* session": a client whose POSTs were all answered, with a session, and   *)
(* whose close has returned Ok, leaves no session behind, also when a      *)
(* refresh runs beside the close.                                          *)
NothingLeftBehind ==
  \A k \in Clients : closed[k] # {} /\ lost[k] = 0 => \A s \in live : maker[s] # k

(* What a create can leave behind that nobody will ever close: one session *)
(* for each attempt whose answer was lost, at most retry_max + 1 of them.  *)
Leftovers(k) == {s \in live : maker[s] = k} \ {IF pc[k] = "decoding" THEN answer[k] ELSE held[k]}

LeftoversBounded ==
  \A k \in Clients : Cardinality(Leftovers(k)) <= lost[k] /\ lost[k] <= RetryMax + 1
=============================================================================
