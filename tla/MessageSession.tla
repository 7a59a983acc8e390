--------------------------- MODULE MessageSession ---------------------------
(***************************************************************************)
(* src/session.rs: the calls that share one MessageSessionClient, and the  *)
(* refresh of its message queue token when the service rejects it.         *)
(* get_message, delete_message and acquire_jobs have the same control:     *)
(* one attempt, and after a 401 a refresh and one more.  A session object  *)
(* is known by the number of its token; tokens are numbered in the order   *)
(* the service issues them.                                                *)
(***************************************************************************)
EXTENDS Integers

CONSTANTS
  Callers,   \* the tasks that call the client
  Nobody,    \* the refresh mutex is free
  MaxToken   \* bound: the last token the service issues

ASSUME SessionAssumption ==
  /\ Nobody \notin Callers
  /\ MaxToken \in Nat

VARIABLES
  session,  \* the token in the client's session object
  refresh,  \* the mutex refresh: who holds it
  pc,       \* pc[c]: where caller c is
  snapshot, \* snapshot[c]: the token of the attempt c makes
  fresh,    \* fresh[c]: the token in the PATCH response c has received
  issued,   \* the service: the last token issued
  valid,    \* the service: the tokens not expired yet
  adrift,   \* PATCH requests whose sender no longer waits for the answer
  rejected  \* history; rejected[c]: the token the call was first made with

vars == <<session, refresh, pc, snapshot, fresh, issued, valid, adrift, rejected>>
service == <<issued, valid, adrift>>

Tokens == 0..MaxToken
Refreshing == {"patching", "storing"}
Locations == {"idle", "first", "locking", "reread", "second"} \cup Refreshing

(* create has succeeded.                                                   *)
Init ==
  /\ session = 0 /\ issued = 0 /\ valid = {0} /\ adrift = 0
  /\ refresh = Nobody
  /\ pc = [c \in Callers |-> "idle"]
  /\ snapshot = [c \in Callers |-> 0]
  /\ fresh = [c \in Callers |-> 0]
  /\ rejected = [c \in Callers |-> 0]

Goto(c, l) == pc' = [pc EXCEPT ![c] = l]

(* The call is over, and what it had on its stack gone.                    *)
Return(c) ==
  /\ Goto(c, "idle")
  /\ snapshot' = [snapshot EXCEPT ![c] = 0]
  /\ fresh' = [fresh EXCEPT ![c] = 0]
  /\ rejected' = [rejected EXCEPT ![c] = 0]

-----------------------------------------------------------------------------
(* The call reads the session and makes its first attempt with it.         *)
Begin(c) ==
  /\ pc[c] = "idle"
  /\ snapshot' = [snapshot EXCEPT ![c] = session]
  /\ Goto(c, "first")
  /\ UNCHANGED <<session, refresh, fresh, service, rejected>>

(* The first attempt is answered: it is accepted, or the token has         *)
(* expired, or something else goes wrong.                                  *)
FirstAccepted(c) ==
  /\ pc[c] = "first"
  /\ snapshot[c] \in valid
  /\ Return(c)
  /\ UNCHANGED <<session, refresh, service>>

FirstRejected(c) ==
  /\ pc[c] = "first"
  /\ snapshot[c] \notin valid
  /\ rejected' = [rejected EXCEPT ![c] = snapshot[c]]
  /\ Goto(c, "locking")
  /\ UNCHANGED <<session, refresh, snapshot, fresh, service>>

FirstFails(c) ==
  /\ pc[c] = "first"
  /\ Return(c)
  /\ UNCHANGED <<session, refresh, service>>

(* refresh_session, the mutex in hand: nothing to do if someone else has   *)
(* replaced the session since this call read it.  Only the holder of the   *)
(* mutex writes the session, so reading it is part of the same step.       *)
LockUnchecked(c) ==  \* mutant: the session is not compared again
  /\ pc[c] = "locking"
  /\ refresh = Nobody
  /\ refresh' = c
  /\ Goto(c, "patching")
  /\ UNCHANGED <<session, snapshot, fresh, service, rejected>>

LockBarely(c) ==  \* mutant: the guard is dropped once the check is made
  /\ pc[c] = "locking"
  /\ refresh = Nobody
  /\ Goto(c, IF session # snapshot[c] THEN "reread" ELSE "patching")
  /\ UNCHANGED <<session, refresh, snapshot, fresh, service, rejected>>

Lock(c) ==
  /\ pc[c] = "locking"
  /\ refresh = Nobody
  /\ \/ /\ session # snapshot[c]
        /\ Goto(c, "reread")
        /\ UNCHANGED refresh
     \/ /\ session = snapshot[c]
        /\ refresh' = c
        /\ Goto(c, "patching")
  /\ UNCHANGED <<session, snapshot, fresh, service, rejected>>

(* The service answers a PATCH with a new token.                           *)
IssueToken ==
  /\ issued < MaxToken
  /\ issued' = issued + 1
  /\ valid' = valid \cup {issued + 1}

Issue(c) ==
  /\ pc[c] = "patching"
  /\ IssueToken
  /\ fresh' = [fresh EXCEPT ![c] = issued + 1]
  /\ Goto(c, "storing")
  /\ UNCHANGED <<session, refresh, snapshot, adrift, rejected>>

(* The transport gives up on an attempt and sends the PATCH again; the     *)
(* first request may still reach the service, at any later time.  (More of *)
(* them than tokens left to issue make no difference.)                     *)
Abandon == adrift < MaxToken - issued /\ adrift' = adrift + 1

Resend(c) ==
  /\ pc[c] = "patching"
  /\ Abandon
  /\ UNCHANGED <<session, refresh, pc, snapshot, fresh, issued, valid, rejected>>

IssueLate ==
  /\ adrift > 0
  /\ IssueToken
  /\ adrift' = adrift - 1
  /\ UNCHANGED <<session, refresh, pc, snapshot, fresh, rejected>>

(* No URL, no admin token, no answer, an error status, or a body that does *)
(* not decode.                                                             *)
RefreshFailsLocked(c) ==  \* mutant: the mutex is not released on an error
  /\ pc[c] \in Refreshing
  /\ Return(c)
  /\ UNCHANGED <<session, refresh, service>>

RefreshFails(c) ==
  /\ pc[c] \in Refreshing
  /\ refresh' = Nobody
  /\ Return(c)
  /\ UNCHANGED adrift \/ (pc[c] = "patching" /\ Abandon)
  /\ UNCHANGED <<session, issued, valid>>

(* The new session replaces the old one, and the mutex is released.        *)
StoreForgotten(c) ==  \* mutant: the new session is not kept
  /\ pc[c] = "storing"
  /\ refresh' = Nobody
  /\ Goto(c, "reread")
  /\ UNCHANGED <<session, snapshot, fresh, service, rejected>>

Store(c) ==
  /\ pc[c] = "storing"
  /\ session' = fresh[c]
  /\ refresh' = Nobody
  /\ Goto(c, "reread")
  /\ UNCHANGED <<snapshot, fresh, service, rejected>>

(* The second attempt, with the session as it is now.                      *)
Reread(c) ==
  /\ pc[c] = "reread"
  /\ snapshot' = [snapshot EXCEPT ![c] = session]
  /\ Goto(c, "second")
  /\ UNCHANGED <<session, refresh, fresh, service, rejected>>

SecondAccepted(c) ==
  /\ pc[c] = "second"
  /\ snapshot[c] \in valid
  /\ Return(c)
  /\ UNCHANGED <<session, refresh, service>>

(* A second 401 is the caller's: MessageQueueTokenExpired.                 *)
SecondRejected(c) ==
  /\ pc[c] = "second"
  /\ snapshot[c] \notin valid
  /\ Return(c)
  /\ UNCHANGED <<session, refresh, service>>

SecondFails(c) ==
  /\ pc[c] = "second"
  /\ Return(c)
  /\ UNCHANGED <<session, refresh, service>>

(* The future is dropped while it waits (run_until does that to a poll),   *)
(* and with it the guard of the mutex.                                     *)
Cancel(c) ==
  /\ pc[c] # "idle"
  /\ Return(c)
  /\ refresh' = IF refresh = c THEN Nobody ELSE refresh
  /\ UNCHANGED adrift \/ (pc[c] = "patching" /\ Abandon)
  /\ UNCHANGED <<session, issued, valid>>

(* A token expires, whoever holds it.                                      *)
Expire(k) ==
  /\ valid' = valid \ {k}
  /\ UNCHANGED <<session, refresh, pc, snapshot, fresh, issued, adrift, rejected>>

First(c) == FirstAccepted(c) \/ FirstRejected(c) \/ FirstFails(c)
Second(c) == SecondAccepted(c) \/ SecondRejected(c) \/ SecondFails(c)

CallStep(c) ==
  \/ Begin(c) \/ First(c) \/ Lock(c) \/ Issue(c) \/ Resend(c) \/ RefreshFails(c)
  \/ Store(c) \/ Reread(c) \/ Second(c) \/ Cancel(c)

Next ==
  \/ \E c \in Callers : CallStep(c)
  \/ IssueLate
  \/ \E k \in valid : Expire(k)

Spec == Init /\ [][Next]_vars

(* Requests are answered or time out, and the refresh mutex is granted in  *)
(* the order it is asked for, so nobody waits for it for ever.             *)
Fairness(c) ==
  /\ WF_vars(First(c)) /\ WF_vars(Reread(c)) /\ WF_vars(Second(c))
  /\ WF_vars(RefreshFails(c) \/ Store(c))
  /\ SF_vars(Lock(c))

FairSpec == Spec /\ \A c \in Callers : Fairness(c)

-----------------------------------------------------------------------------
(* Types; the guard of the mutex lives exactly as long as the refresh.     *)
TypeOK ==
  /\ session \in Tokens
  /\ refresh \in Callers \cup {Nobody}
  /\ \A c \in Callers : refresh = c <=> pc[c] \in Refreshing
  /\ pc \in [Callers -> Locations]
  /\ snapshot \in [Callers -> Tokens]
  /\ fresh \in [Callers -> Tokens]
  /\ issued \in Tokens
  /\ valid \subseteq 0..issued
  /\ adrift \in Nat
  /\ rejected \in [Callers -> Tokens]

(* However many calls run into the same expired token, the service is only *)
(* ever asked for a new one while the client holds an expired one: the     *)
(* comparison in refresh_session makes the calls that come late use the    *)
(* session the first of them has fetched.                                  *)
NoLiveTokenReplaced ==
  [][\A c \in Callers : pc[c] # "patching" /\ pc'[c] = "patching" => session \notin valid]_vars

(* The session never goes back to an older token: a slow refresh cannot    *)
(* overwrite what a later one has stored.                                  *)
SessionNeverRegresses == [][session' >= session]_vars

(* The second attempt is never made with the token that was just rejected, *)
(* so MessageQueueTokenExpired always means that two tokens were refused.  *)
SecondAttemptIsFresh ==
  \A c \in Callers : pc[c] = "second" => snapshot[c] > rejected[c]

(* Every call ends, whatever becomes of the refreshes it waits for.        *)
CallsEnd == \A c \in Callers : (pc[c] # "idle") ~> (pc[c] = "idle")
=============================================================================
