------------------------------ MODULE StackProofs ------------------------------
(***************************************************************************)
(* What the session and the client promise each for itself they keep       *)
(* promising together, and the order of their mutexes.                     *)
(***************************************************************************)
EXTENDS Stack, TLAPS

(* A step of the composition is a step of the session, or nothing to it.   *)
LEMMA SessionStep ==
  ASSUME [Next]_vars
  PROVE  [Ses!Next]_(Ses!vars)
<1>1. UNCHANGED sessionVars => UNCHANGED Ses!vars
  BY DEF sessionVars, Ses!vars
<1>2. ASSUME NEW c \in Callers, SessionCall(c)
      PROVE  Ses!CallStep(c) \/ UNCHANGED sessionVars
  <2>1. Begin(c) \/ SessionLock(c) \/ Resend(c) => Ses!CallStep(c)
    BY DEF Begin, SessionLock, Resend, Ses!CallStep
  <2>2. Looking(c) \/ AdminLock(c) \/ Connecting(c) => UNCHANGED sessionVars
    BY DEF Looking, AdminLock, Connecting
  <2>3. ConnectFails(c) => Ses!CallStep(c)
    BY DEF ConnectFails, Ses!CallStep, Ses!First, Ses!Second
  <2>4. Answered(c) => Ses!CallStep(c)
    BY DEF Answered, Ses!CallStep
  <2>5. Local(c) \/ Cancel(c) => Ses!CallStep(c)
    BY DEF Local, Cancel, Ses!CallStep
  <2> QED BY <1>2, <2>1, <2>2, <2>3, <2>4, <2>5 DEF SessionCall
<1>3. ASSUME NEW o \in Others, Direct(o)
      PROVE  UNCHANGED sessionVars
  BY <1>3 DEF Direct
<1>4. Environment => UNCHANGED sessionVars \/ Ses!Next
  BY DEF Environment, Ses!Next
<1>5. UNCHANGED vars => UNCHANGED sessionVars
  BY DEF vars
<1>6. (\E c \in Callers : Ses!CallStep(c)) => Ses!Next
  BY DEF Ses!Next
<1> QED BY <1>1, <1>2, <1>3, <1>4, <1>5, <1>6 DEF Next

(* And it is a step of the client, or nothing to it.                       *)
LEMMA AdminStep ==
  ASSUME [Next]_vars
  PROVE  [Adm!Next]_(Adm!vars)
<1>1. UNCHANGED adminVars => UNCHANGED Adm!vars
  BY DEF adminVars, Adm!vars, Adm!request
<1>2. ASSUME NEW c \in Callers, SessionCall(c)
      PROVE  Adm!CallStep(c) \/ UNCHANGED adminVars
  <2>1. Begin(c) \/ SessionLock(c) \/ Resend(c) \/ Local(c) => UNCHANGED adminVars
    BY DEF Begin, SessionLock, Resend, Local
  <2>2. Looking(c) \/ AdminLock(c) => Adm!CallStep(c)
    BY DEF Looking, AdminLock, Adm!CallStep
  <2>3. Connecting(c) \/ ConnectFails(c) => Adm!CallStep(c)
    BY DEF Connecting, ConnectFails, Adm!CallStep, Adm!Exchange
  <2>4. Answered(c) \/ Cancel(c) => Adm!CallStep(c) \/ UNCHANGED adminVars
    BY DEF Answered, Cancel, LetGo, Adm!CallStep
  <2> QED BY <1>2, <2>1, <2>2, <2>3, <2>4 DEF SessionCall
<1>3. ASSUME NEW o \in Others, Direct(o)
      PROVE  Adm!CallStep(o)
  BY <1>3 DEF Direct
<1>4. Environment => UNCHANGED adminVars \/ Adm!Next
  BY DEF Environment, Adm!Next
<1>5. UNCHANGED vars => UNCHANGED adminVars
  BY DEF vars
<1>6. (\E c \in Callers \cup Others : Adm!CallStep(c)) => Adm!Next
  BY DEF Adm!Next
<1> QED BY <1>1, <1>2, <1>3, <1>4, <1>5, <1>6 DEF Next

(* Seen from the session the composition is a MessageSession: taking time  *)
(* for the client's requests allows it nothing new.                        *)
THEOREM SessionImplemented == Spec => Ses!Spec
<1>1. Init => Ses!Init
  BY DEF Init
<1>2. [Next]_vars => [Ses!Next]_(Ses!vars)
  BY SessionStep
<1> QED BY <1>1, <1>2, PTL DEF Spec, Ses!Spec

(* Seen from the client it is an AdminToken, whose callers are the         *)
(* session's and the direct ones.                                          *)
THEOREM AdminImplemented == Spec => Adm!Spec
<1>1. Init => Adm!Init
  BY DEF Init
<1>2. [Next]_vars => [Adm!Next]_(Adm!vars)
  BY AdminStep
<1> QED BY <1>1, <1>2, PTL DEF Spec, Adm!Spec

-----------------------------------------------------------------------------
(* Each keeps its promises in the composition: the theorems of its own     *)
(* module hold there, with the session's and the client's variables.       *)
SesTheorems == INSTANCE MessageSessionProofs WITH refresh <- sRefresh, pc <- sPc

(* Its session is the one of the composition.                              *)
LEMMA SessionAsProved ==
  /\ SesTheorems!Init <=> Ses!Init
  /\ SesTheorems!Next <=> Ses!Next
  /\ SesTheorems!vars = Ses!vars
<1>1. SesTheorems!Init <=> Ses!Init
  BY DEF SesTheorems!Init, Ses!Init
<1>2. SesTheorems!Next <=> Ses!Next
  BY DEF SesTheorems!Next, Ses!Next, SesTheorems!CallStep, Ses!CallStep,
         SesTheorems!Begin, Ses!Begin, SesTheorems!First, Ses!First,
         SesTheorems!FirstAccepted, Ses!FirstAccepted,
         SesTheorems!FirstRejected, Ses!FirstRejected, SesTheorems!FirstFails,
         Ses!FirstFails, SesTheorems!Lock, Ses!Lock, SesTheorems!Issue,
         Ses!Issue, SesTheorems!Resend, Ses!Resend, SesTheorems!RefreshFails,
         Ses!RefreshFails, SesTheorems!Store, Ses!Store, SesTheorems!Reread,
         Ses!Reread, SesTheorems!Second, Ses!Second,
         SesTheorems!SecondAccepted, Ses!SecondAccepted,
         SesTheorems!SecondRejected, Ses!SecondRejected,
         SesTheorems!SecondFails, Ses!SecondFails, SesTheorems!Cancel,
         Ses!Cancel, SesTheorems!IssueLate, Ses!IssueLate, SesTheorems!Expire,
         Ses!Expire, SesTheorems!IssueToken, Ses!IssueToken,
         SesTheorems!Abandon, Ses!Abandon, SesTheorems!Goto, Ses!Goto,
         SesTheorems!Return, Ses!Return, SesTheorems!service, Ses!service,
         SesTheorems!Refreshing, Ses!Refreshing
<1>3. SesTheorems!vars = Ses!vars
  BY DEF SesTheorems!vars, Ses!vars
<1> QED BY <1>1, <1>2, <1>3

(* refresh_session over a client that may be renewing its connection:      *)
(* second attempts are made with new tokens, no valid token is replaced,   *)
(* and the session never goes back.                                        *)
THEOREM SessionPromises ==
  Spec => /\ []Ses!TypeOK
          /\ []Ses!SecondAttemptIsFresh
          /\ Ses!NoLiveTokenReplaced
          /\ Ses!SessionNeverRegresses
<1>1. Spec => SesTheorems!Spec
  <2>1. Init => SesTheorems!Init
    BY SessionAsProved DEF Init
  <2>2. [Next]_vars => [SesTheorems!Next]_(SesTheorems!vars)
    <3> SUFFICES ASSUME [Next]_vars PROVE [SesTheorems!Next]_(SesTheorems!vars)
      OBVIOUS
    <3>1. [Ses!Next]_(Ses!vars)
      BY SessionStep
    <3>2. CASE Ses!Next
      BY <3>2, SessionAsProved
    <3>3. CASE UNCHANGED Ses!vars
      BY <3>3 DEF SesTheorems!vars, Ses!vars
    <3> QED BY <3>1, <3>2, <3>3
  <2> QED BY <2>1, <2>2, PTL DEF Spec, SesTheorems!Spec
<1>2. SesTheorems!SessionAssumption
  BY StackAssumption DEF SesTheorems!SessionAssumption
<1>3. Spec => []Ses!TypeOK
  <2>1. SesTheorems!TypeOK => Ses!TypeOK
    BY DEF SesTheorems!TypeOK, Ses!TypeOK, SesTheorems!Tokens, Ses!Tokens,
           SesTheorems!Refreshing, Ses!Refreshing, SesTheorems!Locations,
           Ses!Locations
  <2>2. SesTheorems!Spec => []SesTheorems!TypeOK
    BY <1>2, SesTheorems!Typing
  <2> QED BY <1>1, <2>1, <2>2, PTL
<1>4. Spec => []Ses!SecondAttemptIsFresh
  <2>1. SesTheorems!SecondAttemptIsFresh => Ses!SecondAttemptIsFresh
    BY DEF SesTheorems!SecondAttemptIsFresh, Ses!SecondAttemptIsFresh
  <2>2. SesTheorems!Spec => []SesTheorems!SecondAttemptIsFresh
    BY <1>2, SesTheorems!FreshSecondAttempt
  <2> QED BY <1>1, <2>1, <2>2, PTL
<1>5. Spec => Ses!NoLiveTokenReplaced
  <2>1. SesTheorems!Spec => SesTheorems!NoLiveTokenReplaced
    BY <1>2, SesTheorems!OnlyExpiredReplaced
  <2>2. SesTheorems!NoLiveTokenReplaced => Ses!NoLiveTokenReplaced
    BY DEF SesTheorems!NoLiveTokenReplaced, Ses!NoLiveTokenReplaced,
           SesTheorems!vars, Ses!vars
  <2> QED BY <1>1, <2>1, <2>2, PTL
<1>6. Spec => Ses!SessionNeverRegresses
  <2>1. SesTheorems!Spec => SesTheorems!SessionNeverRegresses
    BY <1>2, SesTheorems!MonotonicSession
  <2>2. SesTheorems!SessionNeverRegresses => Ses!SessionNeverRegresses
    BY DEF SesTheorems!SessionNeverRegresses, Ses!SessionNeverRegresses,
           SesTheorems!vars, Ses!vars
  <2> QED BY <1>1, <2>1, <2>2, PTL
<1> QED BY <1>3, <1>4, <1>5, <1>6

AdmTheorems == INSTANCE AdminTokenProofs
                 WITH Callers <- Callers \cup Others, refresh <- aRefresh, pc <- aPc

(* Its client is the one of the composition.                               *)
LEMMA AdminAsProved ==
  /\ AdmTheorems!Init <=> Adm!Init
  /\ AdmTheorems!Next <=> Adm!Next
  /\ AdmTheorems!vars = Adm!vars
<1>1. AdmTheorems!Init <=> Adm!Init
  BY DEF AdmTheorems!Init, Adm!Init, AdmTheorems!Grants, Adm!Grants
<1>2. AdmTheorems!Next <=> Adm!Next
  BY DEF AdmTheorems!Next, Adm!Next, AdmTheorems!CallStep, Adm!CallStep,
         AdmTheorems!Tick, Adm!Tick, AdmTheorems!Begin, Adm!Begin,
         AdmTheorems!Lookup, Adm!Lookup, AdmTheorems!Lock, Adm!Lock,
         AdmTheorems!Exchange, Adm!Exchange, AdmTheorems!InstallationToken,
         Adm!InstallationToken, AdmTheorems!RegistrationToken,
         Adm!RegistrationToken, AdmTheorems!Connection, Adm!Connection,
         AdmTheorems!ExchangeFails, Adm!ExchangeFails, AdmTheorems!Store,
         Adm!Store, AdmTheorems!Send, Adm!Send, AdmTheorems!Cancel,
         Adm!Cancel, AdmTheorems!Obtain, Adm!Obtain, AdmTheorems!Usable,
         Adm!Usable, AdmTheorems!Goto, Adm!Goto, AdmTheorems!End, Adm!End,
         AdmTheorems!request, Adm!request, AdmTheorems!Own, Adm!Own,
         AdmTheorems!Exchanging, Adm!Exchanging
<1>3. AdmTheorems!vars = Adm!vars
  BY DEF AdmTheorems!vars, Adm!vars, AdmTheorems!request, Adm!request
<1> QED BY <1>1, <1>2, <1>3

(* update_token_if_needed under refreshes, acquisitions and API calls at   *)
(* once: URL and header belong together, the header holds for the margin,  *)
(* only a connection about to expire is replaced, and by a newer one.      *)
THEOREM AdminPromises ==
  Spec => /\ []Adm!TypeOK
          /\ []Adm!UrlAndTokenMatch
          /\ []Adm!HeaderMargin
          /\ Adm!OnlyStaleReplaced
          /\ Adm!ConnectionNeverRegresses
<1>1. Spec => AdmTheorems!Spec
  <2>1. Init => AdmTheorems!Init
    BY AdminAsProved DEF Init
  <2>2. [Next]_vars => [AdmTheorems!Next]_(AdmTheorems!vars)
    <3> SUFFICES ASSUME [Next]_vars PROVE [AdmTheorems!Next]_(AdmTheorems!vars)
      OBVIOUS
    <3>1. [Adm!Next]_(Adm!vars)
      BY AdminStep
    <3>2. CASE Adm!Next
      BY <3>2, AdminAsProved
    <3>3. CASE UNCHANGED Adm!vars
      BY <3>3 DEF AdmTheorems!vars, Adm!vars, AdmTheorems!request, Adm!request
    <3> QED BY <3>1, <3>2, <3>3
  <2> QED BY <2>1, <2>2, PTL DEF Spec, AdmTheorems!Spec
<1>2. AdmTheorems!AdminAssumption
  BY StackAssumption DEF AdmTheorems!AdminAssumption
<1>3. Spec => []Adm!TypeOK
  <2>1. AdmTheorems!TypeOK => Adm!TypeOK
    BY DEF AdmTheorems!TypeOK, Adm!TypeOK, AdmTheorems!Times, Adm!Times,
           AdmTheorems!Grants, Adm!Grants, AdmTheorems!Exchanging,
           Adm!Exchanging, AdmTheorems!Locations, Adm!Locations,
           AdmTheorems!Own, Adm!Own
  <2>2. AdmTheorems!Spec => []AdmTheorems!TypeOK
    BY <1>2, AdmTheorems!Typing
  <2> QED BY <1>1, <2>1, <2>2, PTL
<1>4. Spec => []Adm!UrlAndTokenMatch
  <2>1. AdmTheorems!UrlAndTokenMatch => Adm!UrlAndTokenMatch
    BY DEF AdmTheorems!UrlAndTokenMatch, Adm!UrlAndTokenMatch,
           AdmTheorems!Usable, Adm!Usable
  <2>2. AdmTheorems!Spec => []AdmTheorems!UrlAndTokenMatch
    BY <1>2, AdmTheorems!Matching
  <2> QED BY <1>1, <2>1, <2>2, PTL
<1>5. Spec => []Adm!HeaderMargin
  <2>1. AdmTheorems!HeaderMargin => Adm!HeaderMargin
    BY DEF AdmTheorems!HeaderMargin, Adm!HeaderMargin, AdmTheorems!Own,
           Adm!Own
  <2>2. AdmTheorems!Spec => []AdmTheorems!HeaderMargin
    BY <1>2, AdmTheorems!HeaderHolds
  <2> QED BY <1>1, <2>1, <2>2, PTL
<1>6. Spec => Adm!OnlyStaleReplaced
  <2>1. AdmTheorems!Spec => AdmTheorems!OnlyStaleReplaced
    BY <1>2, AdmTheorems!OnlyStale
  <2>2. AdmTheorems!OnlyStaleReplaced => Adm!OnlyStaleReplaced
    BY DEF AdmTheorems!OnlyStaleReplaced, Adm!OnlyStaleReplaced,
           AdmTheorems!vars, Adm!vars, AdmTheorems!request, Adm!request,
           AdmTheorems!Usable, Adm!Usable
  <2> QED BY <1>1, <2>1, <2>2, PTL
<1>7. Spec => Adm!ConnectionNeverRegresses
  <2>1. AdmTheorems!Spec => AdmTheorems!ConnectionNeverRegresses
    BY <1>2, AdmTheorems!MonotonicConnection
  <2>2. AdmTheorems!ConnectionNeverRegresses => Adm!ConnectionNeverRegresses
    BY DEF AdmTheorems!ConnectionNeverRegresses, Adm!ConnectionNeverRegresses,
           AdmTheorems!vars, Adm!vars, AdmTheorems!request, Adm!request
  <2> QED BY <1>1, <2>1, <2>2, PTL
<1> QED BY <1>3, <1>4, <1>5, <1>6, <1>7

-----------------------------------------------------------------------------
(* A call is with the client only while its session call needs it, and it  *)
(* holds the client's mutex only while it renews the connection.           *)
Calls == Callers \cup Others

PcOK ==
  /\ sPc \in [Callers -> Ses!Locations]
  /\ aPc \in [Calls -> Adm!Locations]

Renewing == \A c \in Calls : aRefresh = c => aPc[c] \in Adm!Exchanging
WithClient == \A c \in Callers : aPc[c] # "idle" => NeedsAdmin(c)

Inv == PcOK /\ Renewing /\ WithClient

(* A step of one call moves that call alone.                               *)
LEMMA SessionMoves ==
  ASSUME NEW c \in Callers, sPc \in [Callers -> Ses!Locations], Ses!CallStep(c)
  PROVE  /\ sPc' \in [Callers -> Ses!Locations]
         /\ \A d \in Callers \ {c} : sPc'[d] = sPc[d]
<1>1. \/ sPc' = sPc
      \/ \E l \in Ses!Locations : sPc' = [sPc EXCEPT ![c] = l]
  BY DEF Ses!CallStep, Ses!Begin, Ses!First, Ses!FirstAccepted, Ses!FirstRejected, Ses!FirstFails,
         Ses!Lock, Ses!Issue, Ses!Resend, Ses!RefreshFails, Ses!Store, Ses!Reread, Ses!Second,
         Ses!SecondAccepted, Ses!SecondRejected, Ses!SecondFails, Ses!Cancel, Ses!Return, Ses!Goto,
         Ses!Locations, Ses!Refreshing
<1> QED BY <1>1

LEMMA AdminMoves ==
  ASSUME NEW c \in Calls, aPc \in [Calls -> Adm!Locations], Renewing, Adm!CallStep(c)
  PROVE  /\ aPc' \in [Calls -> Adm!Locations]
         /\ \A d \in Calls \ {c} : aPc'[d] = aPc[d]
         /\ Renewing'
<1>1. Nobody \notin Calls
  BY StackAssumption DEF Calls
<1>2. \A g : Adm!Obtain(c, g) => \E l \in {"lookup", "sending"} : aPc' = [aPc EXCEPT ![c] = l]
  BY DEF Adm!Obtain, Adm!Goto
<1>3. Adm!End(c) => aPc' = [aPc EXCEPT ![c] = "idle"]
  BY DEF Adm!End, Adm!Goto
<1>4. \A l \in Adm!Locations : aPc' = [aPc EXCEPT ![c] = l] =>
        aPc' \in [Calls -> Adm!Locations] /\ aPc'[c] = l /\ \A d \in Calls \ {c} : aPc'[d] = aPc[d]
  OBVIOUS
<1>5. {"idle", "lookup", "locking", "sending"} \cup Adm!Exchanging = Adm!Locations
      /\ {"idle", "lookup", "locking", "sending"} \cap Adm!Exchanging = {}
  BY DEF Adm!Locations, Adm!Exchanging
<1>6. \E l \in Adm!Locations :
        /\ aPc' = [aPc EXCEPT ![c] = l]
        /\ aRefresh' \in {aRefresh, c, Nobody}
        /\ aRefresh' = c => l \in Adm!Exchanging
  <2>1. CASE Adm!Begin(c)
    BY <2>1, <1>5 DEF Adm!Begin, Adm!Goto, Renewing
  <2>2. CASE Adm!Lookup(c)
    BY <2>2, <1>2, <1>5 DEF Adm!Lookup, Adm!Goto, Renewing
  <2>3. CASE Adm!Lock(c)
    BY <2>3, <1>1, <1>2, <1>5 DEF Adm!Lock, Adm!Goto, Adm!Exchanging
  <2>4. CASE Adm!InstallationToken(c) \/ Adm!RegistrationToken(c) \/ Adm!Connection(c)
    BY <2>4, <1>5 DEF Adm!InstallationToken, Adm!RegistrationToken, Adm!Connection, Adm!Goto, Adm!Exchanging
  <2>5. CASE Adm!ExchangeFails(c)
    BY <2>5, <1>1, <1>3, <1>5 DEF Adm!ExchangeFails
  <2>6. CASE Adm!Store(c)
    BY <2>6, <1>1, <1>2, <1>5 DEF Adm!Store
  <2>7. CASE Adm!Send(c)
    BY <2>7, <1>3, <1>5 DEF Adm!Send, Renewing
  <2>8. CASE Adm!Cancel(c)
    BY <2>8, <1>1, <1>3, <1>5 DEF Adm!Cancel
  <2> QED BY <2>1, <2>2, <2>3, <2>4, <2>5, <2>6, <2>7, <2>8 DEF Adm!CallStep, Adm!Exchange
<1> QED BY <1>1, <1>4, <1>6 DEF Renewing

LEMMA InvStep ==
  ASSUME Inv, [Next]_vars
  PROVE  Inv'
<1>1. Callers \subseteq Calls /\ Others \subseteq Calls /\ Callers \cap Others = {}
  BY StackAssumption DEF Calls
<1>2. UNCHANGED <<sPc, aPc, aRefresh>> => Inv'
  BY DEF Inv, PcOK, Renewing, WithClient, NeedsAdmin
<1>3. ASSUME NEW c \in Callers, SessionCall(c)
      PROVE  Inv'
  <2>1. sPc' \in [Callers -> Ses!Locations] /\ \A d \in Callers \ {c} : sPc'[d] = sPc[d]
    <3>1. Ses!CallStep(c) \/ UNCHANGED sPc
      BY <1>3 DEF SessionCall, Begin, SessionLock, Resend, Looking, AdminLock, Connecting, ConnectFails,
                  Answered, Local, Cancel, Ses!CallStep, Ses!First, Ses!Second, sessionVars
    <3> QED BY <3>1, SessionMoves DEF Inv, PcOK
  <2>2. /\ aPc' \in [Calls -> Adm!Locations] /\ Renewing'
        /\ \A d \in Calls \ {c} : aPc'[d] = aPc[d]
    <3>1. Adm!CallStep(c) \/ UNCHANGED <<aPc, aRefresh>>
      BY <1>3 DEF SessionCall, Begin, SessionLock, Resend, Looking, AdminLock, Connecting, ConnectFails,
                  Answered, Local, Cancel, LetGo, Adm!CallStep, Adm!Exchange, adminVars
    <3>2. CASE Adm!CallStep(c)
      BY <3>2, <1>1, AdminMoves DEF Inv, PcOK
    <3>3. CASE UNCHANGED <<aPc, aRefresh>>
      BY <3>3 DEF Inv, PcOK, Renewing
    <3> QED BY <3>1, <3>2, <3>3
  <2>3. aPc'[c] # "idle" => NeedsAdmin(c)'
    <3>1. CASE Begin(c)
      BY <3>1 DEF Begin, Ses!Begin, adminVars, Inv, WithClient, NeedsAdmin
    <3>2. CASE SessionLock(c)
      BY <3>2 DEF SessionLock, Ses!Lock, adminVars, Inv, WithClient, NeedsAdmin
    <3>3. CASE Resend(c)
      BY <3>3 DEF Resend, Ses!Resend, adminVars, Inv, WithClient, NeedsAdmin
    <3>4. CASE Local(c)
      BY <3>4 DEF Local, Ses!Store, Ses!Reread, adminVars, Inv, WithClient, NeedsAdmin
    <3>5. CASE Looking(c) \/ AdminLock(c) \/ Connecting(c)
      BY <3>5 DEF Looking, AdminLock, Connecting, sessionVars, NeedsAdmin
    <3>6. CASE ConnectFails(c)
      BY <3>6, <1>1 DEF ConnectFails, Adm!ExchangeFails, Adm!End, Adm!Goto, Inv, PcOK
    <3>7. CASE Answered(c) \/ Cancel(c)
      <4>1. LetGo(c)
        BY <3>7 DEF Answered, Cancel
      <4>2. aPc'[c] = "idle"
        BY <4>1, <1>1 DEF LetGo, Adm!Cancel, Adm!End, Adm!Goto, adminVars, Inv, PcOK
      <4> QED BY <4>2
    <3> QED BY <1>3, <3>1, <3>2, <3>3, <3>4, <3>5, <3>6, <3>7 DEF SessionCall
  <2>4. \A d \in Callers \ {c} : aPc'[d] # "idle" => NeedsAdmin(d)'
    BY <1>1, <2>1, <2>2 DEF Inv, WithClient, NeedsAdmin
  <2>5. WithClient'
    BY <2>3, <2>4 DEF WithClient
  <2> QED BY <2>1, <2>2, <2>5 DEF Inv, PcOK
<1>4. ASSUME NEW o \in Others, Direct(o)
      PROVE  Inv'
  <2>1. Adm!CallStep(o) /\ UNCHANGED sPc
    BY <1>4 DEF Direct, sessionVars
  <2>2. /\ aPc' \in [Calls -> Adm!Locations] /\ Renewing'
        /\ \A d \in Calls \ {o} : aPc'[d] = aPc[d]
    BY <2>1, <1>1, AdminMoves DEF Inv, PcOK
  <2>3. \A c \in Callers : aPc'[c] = aPc[c] /\ sPc'[c] = sPc[c]
    BY <1>1, <2>1, <2>2
  <2>4. WithClient'
    BY <2>3 DEF Inv, WithClient, NeedsAdmin
  <2> QED BY <2>1, <2>2, <2>4 DEF Inv, PcOK
<1>5. Environment => UNCHANGED <<sPc, aPc, aRefresh>>
  BY DEF Environment, Adm!Tick, Ses!IssueLate, Ses!Expire, sessionVars, adminVars
<1>6. UNCHANGED vars => UNCHANGED <<sPc, aPc, aRefresh>>
  BY DEF vars, sessionVars, adminVars
<1> QED BY <1>2, <1>3, <1>4, <1>5, <1>6 DEF Next

(* No task that holds, or waits for, the client's mutex waits for the      *)
(* session's: the two cannot be waited for in a circle.                    *)
THEOREM OneOrder == Spec => []LockOrder
<1>1. Init => Inv
  <2> SUFFICES ASSUME Init PROVE Inv
    OBVIOUS
  <2>1. sPc = [c \in Callers |-> "idle"] /\ aPc = [c \in Calls |-> "idle"] /\ aRefresh = Nobody
    BY DEF Init, Ses!Init, Adm!Init, Calls
  <2>2. Nobody \notin Calls /\ Callers \subseteq Calls
    BY StackAssumption DEF Calls
  <2> QED BY <2>1, <2>2 DEF Inv, PcOK, Renewing, WithClient, Ses!Locations, Adm!Locations
<1>2. Inv /\ [Next]_vars => Inv'
  BY InvStep
<1>3. Inv => LockOrder
  <2> SUFFICES ASSUME Inv, NEW c \in Callers
               PROVE  (aRefresh = c => sPc[c] # "locking") /\ (aPc[c] # "idle" => NeedsAdmin(c))
    BY DEF LockOrder
  <2>1. aPc[c] # "idle" => NeedsAdmin(c)
    BY DEF Inv, WithClient
  <2>2. aRefresh = c => aPc[c] # "idle"
    BY DEF Inv, Renewing, Calls, Adm!Exchanging
  <2> QED BY <2>1, <2>2 DEF NeedsAdmin
<1> QED BY <1>1, <1>2, <1>3, PTL DEF Spec
=============================================================================
