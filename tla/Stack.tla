-------------------------------- MODULE Stack --------------------------------
(***************************************************************************)
(* A MessageSessionClient on top of its Client: src/session.rs calling     *)
(* src/client.rs.  refresh_session needs an URL and an admin header for    *)
(* its PATCH, and asks for them while it holds the session's refresh       *)
(* mutex; acquire_jobs_once needs an URL.  Each of these may have to wait  *)
(* for the client's own refresh mutex, beside API calls that use the       *)
(* client directly.                                                        *)
(***************************************************************************)
EXTENDS Integers

CONSTANTS
  Callers,   \* the tasks that call the session
  Acquirers, \* those among them that call acquire_jobs
  Others,    \* the calls that use the client directly
  Nobody, MaxToken, App, Margin, Lifetimes, MaxTime, MaxGrants

ASSUME StackAssumption ==
  /\ Acquirers \subseteq Callers
  /\ Callers \cap Others = {}
  /\ Nobody \notin Callers \cup Others
  /\ App \in BOOLEAN
  /\ MaxToken \in Nat /\ Margin \in Nat /\ MaxTime \in Nat /\ MaxGrants \in Nat
  /\ Lifetimes \subseteq Int

VARIABLES
  \* the session, as in MessageSession
  session, sRefresh, sPc, snapshot, fresh, issued, valid, adrift, rejected,
  \* the client, as in AdminToken
  now, admin, expires, granted, aRefresh, aPc, need, fetched, url, auth, since

sessionVars == <<session, sRefresh, sPc, snapshot, fresh, issued, valid,
                 adrift, rejected>>
adminVars == <<now, admin, expires, granted, aRefresh, aPc, need, fetched, url, auth, since>>
vars == <<sessionVars, adminVars>>

Ses == INSTANCE MessageSession WITH refresh <- sRefresh, pc <- sPc
Adm == INSTANCE AdminToken
         WITH Callers <- Callers \cup Others, refresh <- aRefresh, pc <- aPc

Init == Ses!Init /\ Adm!Init

-----------------------------------------------------------------------------
(* The PATCH needs an URL and a header, acquire_jobs an URL only; the      *)
(* other requests go to the queue's own URL.                               *)
NeedsAdmin(c) == sPc[c] = "patching" \/ (c \in Acquirers /\ sPc[c] \in {"first", "second"})

Ready(c) ==
  \/ sPc[c] = "patching" /\ aPc[c] = "sending"
  \/ sPc[c] \in {"first", "second"} /\ c \in Acquirers /\ aPc[c] = "lookup" /\ need[c] = "auth"
  \/ sPc[c] \in {"first", "second"} /\ c \notin Acquirers

(* What the call has from the client is local to it, and goes with it.     *)
LetGoKept(c) == UNCHANGED adminVars  \* mutant: the admin call outlives the session's
LetGo(c) ==
  \/ aPc[c] = "idle" /\ UNCHANGED adminVars
  \/ Adm!Cancel(c)

(* The session call asks the client for the URL, and for the header.       *)
Looking(c) ==
  /\ NeedsAdmin(c) /\ ~Ready(c)
  /\ Adm!Begin(c) \/ Adm!Lookup(c)
  /\ UNCHANGED sessionVars

AdminLock(c) == NeedsAdmin(c) /\ Adm!Lock(c) /\ UNCHANGED sessionVars

Connecting(c) ==
  /\ NeedsAdmin(c)
  /\ Adm!InstallationToken(c) \/ Adm!RegistrationToken(c) \/ Adm!Connection(c) \/ Adm!Store(c)
  /\ UNCHANGED sessionVars

(* The connection cannot be had, and the session call fails with it.       *)
ConnectFailsAgain(c) ==  \* mutant: the refresh asks again until it has a connection
  /\ Adm!ExchangeFails(c)
  /\ Ses!FirstFails(c) \/ Ses!SecondFails(c) \/ (sPc[c] = "patching" /\ UNCHANGED sessionVars)

ConnectFails(c) ==
  /\ Adm!ExchangeFails(c)
  /\ \/ Ses!FirstFails(c) \/ Ses!SecondFails(c)
     \/ Ses!RefreshFails(c) /\ UNCHANGED adrift

(* The request is sent, and answered or not.                               *)
Answered(c) ==
  /\ Ready(c)
  /\ Ses!First(c) \/ Ses!Second(c) \/ Ses!Issue(c) \/ Ses!RefreshFails(c)
  /\ LetGo(c)

Resend(c) == Ready(c) /\ Ses!Resend(c) /\ UNCHANGED adminVars

(* Steps the session takes by itself.                                      *)
Begin(c) == Ses!Begin(c) /\ UNCHANGED adminVars
SessionLock(c) == Ses!Lock(c) /\ UNCHANGED adminVars
Local(c) ==
  /\ Ses!Store(c) \/ Ses!Reread(c) \/ (sPc[c] = "storing" /\ Ses!RefreshFails(c))
  /\ UNCHANGED adminVars

(* The future is dropped; only a PATCH that was sent may still arrive.     *)
Cancel(c) ==
  /\ Ses!Cancel(c)
  /\ Ready(c) \/ UNCHANGED adrift
  /\ LetGo(c)

SessionCall(c) ==
  \/ Begin(c) \/ Looking(c) \/ AdminLock(c) \/ Connecting(c) \/ ConnectFails(c)
  \/ Answered(c) \/ Resend(c) \/ SessionLock(c) \/ Local(c) \/ Cancel(c)

Direct(o) == Adm!CallStep(o) /\ UNCHANGED sessionVars

Environment ==
  \/ Adm!Tick /\ UNCHANGED sessionVars
  \/ Ses!IssueLate /\ UNCHANGED adminVars
  \/ \E k \in valid : Ses!Expire(k) /\ UNCHANGED adminVars

Next ==
  \/ \E c \in Callers : SessionCall(c)
  \/ \E o \in Others : Direct(o)
  \/ Environment

Spec == Init /\ [][Next]_vars

(* Each request is answered or times out, and each mutex is granted in the *)
(* order it is asked for.  Nothing is assumed of the refresh of a session  *)
(* as a whole.                                                             *)
SessionFairness(c) ==
  /\ WF_vars(Looking(c)) /\ WF_vars(Connecting(c) \/ ConnectFails(c))
  /\ WF_vars(Answered(c)) /\ WF_vars(Local(c))
  /\ SF_vars(AdminLock(c)) /\ SF_vars(SessionLock(c))

FairSpec ==
  /\ Spec
  /\ \A c \in Callers : SessionFairness(c)
  /\ \A o \in Others : Adm!Fairness(o)

-----------------------------------------------------------------------------
(* The two mutexes are taken in one order, the session's before the        *)
(* client's: no task that renews the connection waits for the session's,   *)
(* and what a call has of the client is gone when the session waits.       *)
LockOrder ==
  \A c \in Callers :
    /\ aRefresh = c => sPc[c] # "locking"
    /\ aPc[c] # "idle" => NeedsAdmin(c)

(* What MessageSession takes for granted of a refresh, that it ends, the   *)
(* composition provides: a refresh waits for the client's mutex with the   *)
(* session's own in hand, and for up to five requests.                     *)
ImplementsSession == Ses!FairSpec

(* No session call waits for ever, neither for the refresh of another one  *)
(* nor, through it or for itself, for the admin connection.                *)
SessionCallsEnd == Ses!CallsEnd

(* And no API call waits for ever for a session's refresh that renews the  *)
(* connection on its way and fails or is dropped.                          *)
ApiCallsEnd == Adm!CallsEnd
=============================================================================
