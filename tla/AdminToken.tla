----------------------------- MODULE AdminToken -----------------------------
(***************************************************************************)
(* src/client.rs: the admin connection (an URL and a token with an expiry) *)
(* that all calls of a Client share, and its renewal.  An API call looks   *)
(* it up twice, once for the URL (actions_url) and once for the header     *)
(* (admin_authorization), and then sends its request.  Connections are     *)
(* numbered in the order the service grants them; 0 is the empty           *)
(* AdminToken a Client starts with.                                        *)
(***************************************************************************)
EXTENDS Integers

CONSTANTS
  Callers,   \* the calls that use the client at the same time
  Nobody,    \* the refresh mutex is free
  App,       \* the credentials are a GitHub App's: one more exchange
  Margin,    \* the 60 seconds before its expiry a token is used no more
  Lifetimes, \* how long a token may live from when it is granted
  MaxTime,   \* bound: the clock stops here
  MaxGrants  \* bound: the last connection the service grants

ASSUME AdminAssumption ==
  /\ Nobody \notin Callers
  /\ App \in BOOLEAN
  /\ Margin \in Nat /\ MaxTime \in Nat /\ MaxGrants \in Nat
  /\ Lifetimes \subseteq Int

VARIABLES
  now,     \* the clock
  admin,   \* the connection the client keeps
  expires, \* expires[g]: expires_at of connection g
  granted, \* the last connection the service has granted
  refresh, \* the mutex: who holds it
  pc,      \* pc[c]: where call c is
  need,    \* need[c]: what c looks the connection up for
  fetched, \* fetched[c]: the connection c's exchange has brought
  url,     \* url[c]: the connection c has its URL from
  auth,    \* auth[c]: the connection c has its header from
  since    \* history; since[c]: when c found auth[c] in the client, or Own

request == <<url, auth, since>>
vars == <<now, admin, expires, granted, refresh, pc, need, fetched, request>>

(* The header is of the connection the call has just fetched itself.       *)
Own == -1

Times == 0..MaxTime
Grants == 0..MaxGrants
Exchanging == {"installation", "registration", "connection", "storing"}
Locations == {"idle", "lookup", "locking", "sending"} \cup Exchanging

(* snapshot_token would hand out connection g.                             *)
UsableToTheEnd(g) == g # 0 /\ now < expires[g]  \* mutant: no margin
Usable(g) == g # 0 /\ now + Margin < expires[g]

Init ==
  /\ now = 0
  /\ admin = 0 /\ granted = 0
  /\ expires = [g \in Grants |-> 0]
  /\ refresh = Nobody
  /\ pc = [c \in Callers |-> "idle"]
  /\ need = [c \in Callers |-> "url"]
  /\ fetched = [c \in Callers |-> 0]
  /\ url = [c \in Callers |-> 0]
  /\ auth = [c \in Callers |-> 0]
  /\ since = [c \in Callers |-> 0]

Goto(c, l) == pc' = [pc EXCEPT ![c] = l]

(* The call of c is over, and its local state gone.                        *)
End(c) ==
  /\ Goto(c, "idle")
  /\ need' = [need EXCEPT ![c] = "url"]
  /\ fetched' = [fetched EXCEPT ![c] = 0]
  /\ url' = [url EXCEPT ![c] = 0]
  /\ auth' = [auth EXCEPT ![c] = 0]
  /\ since' = [since EXCEPT ![c] = 0]

(* update_token_if_needed returns connection g: the URL first, the header  *)
(* next, and then the request can go.                                      *)
Obtain(c, g) ==
  \/ /\ need[c] = "url"
     /\ url' = [url EXCEPT ![c] = g]
     /\ need' = [need EXCEPT ![c] = "auth"]
     /\ Goto(c, "lookup")
     /\ UNCHANGED <<auth, since>>
  \/ /\ need[c] = "auth"
     /\ auth' = [auth EXCEPT ![c] = g]
     /\ since' = [since EXCEPT ![c] = IF refresh = c THEN Own ELSE now]
     /\ Goto(c, "sending")
     /\ UNCHANGED <<url, need>>

-----------------------------------------------------------------------------
Begin(c) ==
  /\ pc[c] = "idle"
  /\ Goto(c, "lookup")
  /\ UNCHANGED <<now, admin, expires, granted, refresh, need, fetched, request>>

(* The connection is looked up without the mutex.                          *)
Lookup(c) ==
  /\ pc[c] = "lookup"
  /\ \/ Usable(admin) /\ Obtain(c, admin)
     \/ ~Usable(admin) /\ Goto(c, "locking") /\ UNCHANGED <<request, need>>
  /\ UNCHANGED <<now, admin, expires, granted, refresh, fetched>>

(* The mutex is granted, and the connection looked up again: another call  *)
(* may have renewed it.                                                    *)
LockUnchecked(c) ==  \* mutant: no second look
  /\ pc[c] = "locking"
  /\ refresh = Nobody
  /\ refresh' = c
  /\ Goto(c, IF App THEN "installation" ELSE "registration")
  /\ UNCHANGED <<now, admin, expires, granted, need, fetched, request>>

LockBarely(c) ==  \* mutant: the guard does not live until the connection is stored
  /\ pc[c] = "locking"
  /\ refresh = Nobody
  /\ \/ Usable(admin) /\ Obtain(c, admin)
     \/ /\ ~Usable(admin)
        /\ Goto(c, IF App THEN "installation" ELSE "registration")
        /\ UNCHANGED <<request, need>>
  /\ UNCHANGED <<now, admin, expires, granted, refresh, fetched>>

Lock(c) ==
  /\ pc[c] = "locking"
  /\ refresh = Nobody
  /\ \/ Usable(admin) /\ Obtain(c, admin) /\ UNCHANGED refresh
     \/ /\ ~Usable(admin)
        /\ refresh' = c
        /\ Goto(c, IF App THEN "installation" ELSE "registration")
        /\ UNCHANGED <<request, need>>
  /\ UNCHANGED <<now, admin, expires, granted, fetched>>

(* The exchange: an App's installation token, the registration token, the  *)
(* admin connection, whose token says when it expires.                     *)
InstallationToken(c) ==
  /\ pc[c] = "installation"
  /\ Goto(c, "registration")
  /\ UNCHANGED <<now, admin, expires, granted, refresh, need, fetched, request>>

RegistrationToken(c) ==
  /\ pc[c] = "registration"
  /\ Goto(c, "connection")
  /\ UNCHANGED <<now, admin, expires, granted, refresh, need, fetched, request>>

Connection(c) ==
  /\ pc[c] = "connection"
  /\ granted < MaxGrants
  /\ granted' = granted + 1
  /\ \E life \in Lifetimes : expires' = [expires EXCEPT ![granted + 1] = now + life]
  /\ fetched' = [fetched EXCEPT ![c] = granted + 1]
  /\ Goto(c, "storing")
  /\ UNCHANGED <<now, admin, refresh, need, request>>

(* Any request of the exchange fails, or its answer is no use; the guard   *)
(* is dropped with the error.                                              *)
ExchangeFailsLocked(c) ==  \* mutant: the mutex stays locked after an error
  /\ pc[c] \in Exchanging
  /\ End(c)
  /\ UNCHANGED <<now, admin, expires, granted, refresh>>

ExchangeFails(c) ==
  /\ pc[c] \in Exchanging
  /\ refresh' = Nobody
  /\ End(c)
  /\ UNCHANGED <<now, admin, expires, granted>>

(* The new connection is kept, and used by this call whatever its expiry.  *)
Store(c) ==
  /\ pc[c] = "storing"
  /\ admin' = fetched[c]
  /\ refresh' = Nobody
  /\ fetched' = [fetched EXCEPT ![c] = 0]
  /\ Obtain(c, fetched[c])
  /\ UNCHANGED <<now, expires, granted>>

(* The request is made and answered.                                       *)
Send(c) ==
  /\ pc[c] = "sending"
  /\ End(c)
  /\ UNCHANGED <<now, admin, expires, granted, refresh>>

(* The future is dropped, and its guard with it.                           *)
Cancel(c) ==
  /\ pc[c] # "idle"
  /\ End(c)
  /\ refresh' = IF refresh = c THEN Nobody ELSE refresh
  /\ UNCHANGED <<now, admin, expires, granted>>

Tick ==
  /\ now < MaxTime
  /\ now' = now + 1
  /\ UNCHANGED <<admin, expires, granted, refresh, pc, need, fetched, request>>

Exchange(c) ==
  InstallationToken(c) \/ RegistrationToken(c) \/ Connection(c) \/ ExchangeFails(c) \/ Store(c)

CallStep(c) ==
  Begin(c) \/ Lookup(c) \/ Lock(c) \/ Exchange(c) \/ Send(c) \/ Cancel(c)

Next == Tick \/ \E c \in Callers : CallStep(c)

Spec == Init /\ [][Next]_vars

(* Every request is answered or fails, and the mutex is granted in the     *)
(* order it is asked for.                                                  *)
Fairness(c) ==
  /\ WF_vars(Lookup(c)) /\ WF_vars(Exchange(c)) /\ WF_vars(Send(c))
  /\ SF_vars(Lock(c))

FairSpec == Spec /\ \A c \in Callers : Fairness(c)

-----------------------------------------------------------------------------
(* Types; the guard of the mutex lives exactly as long as the exchange.    *)
TypeOK ==
  /\ now \in Times
  /\ granted \in Grants /\ admin \in 0..granted
  /\ expires \in [Grants -> Int]
  /\ refresh \in Callers \cup {Nobody}
  /\ \A c \in Callers : refresh = c <=> pc[c] \in Exchanging
  /\ pc \in [Callers -> Locations]
  /\ need \in [Callers -> {"url", "auth"}]
  /\ fetched \in [Callers -> 0..granted]
  /\ url \in [Callers -> 0..granted]
  /\ auth \in [Callers -> 0..granted]
  /\ since \in [Callers -> {Own} \cup Times]

(* Calls that find the connection about to expire at the same time renew   *)
(* it once: a connection that is still usable is never replaced.           *)
OnlyStaleReplaced == [][admin' # admin => ~Usable(admin)]_vars

(* The connection the client keeps never goes back to an older one.        *)
ConnectionNeverRegresses == [][admin' >= admin]_vars

(* A request is sent to the URL of the connection its token belongs to;    *)
(* unless that connection was used up between the two lookups, and then    *)
(* the token is the newer one.                                             *)
UrlAndTokenMatch ==
  \A c \in Callers : pc[c] = "sending" /\ url[c] # auth[c] =>
    ~Usable(url[c]) /\ url[c] < auth[c]

(* The header is computed once and sent again with each retry of the       *)
(* request: it may expire meanwhile, but a header of the connection kept   *)
(* holds for the whole margin after the look-up.  (One that a call has     *)
(* just fetched is used whatever its expiry.)                              *)
HeaderMargin ==
  \A c \in Callers : pc[c] = "sending" /\ since[c] # Own /\ expires[auth[c]] <= now =>
    now - since[c] > Margin

(* Every call ends, however many others wait for the same renewal and      *)
(* however it fails.                                                       *)
CallsEnd == \A c \in Callers : (pc[c] # "idle") ~> (pc[c] = "idle")
=============================================================================
