------------------------ MODULE MessageSessionProofs ------------------------
(***************************************************************************)
(* The session's safety properties, for every set of callers and every     *)
(* number of tokens.                                                       *)
(***************************************************************************)
EXTENDS MessageSession, TLAPS

USE SessionAssumption DEF Tokens, service

-----------------------------------------------------------------------------
(* Types.                                                                  *)

LEMMA GotoTyped ==
  ASSUME NEW c \in Callers, NEW l \in Locations, TypeOK, Goto(c, l)
  PROVE  /\ pc' \in [Callers -> Locations]
         /\ pc'[c] = l /\ \A d \in Callers \ {c} : pc'[d] = pc[d]
PROOF BY DEF TypeOK, Goto

LEMMA ReturnTyped ==
  ASSUME NEW c \in Callers, TypeOK, Return(c)
  PROVE  /\ pc' \in [Callers -> Locations]
         /\ pc'[c] = "idle" /\ \A d \in Callers \ {c} : pc'[d] = pc[d]
         /\ snapshot' \in [Callers -> Tokens] /\ fresh' \in [Callers -> Tokens]
         /\ rejected' \in [Callers -> Tokens]
PROOF BY DEF TypeOK, Return, Goto, Locations

LEMMA IssueTokenTyped ==
  ASSUME TypeOK, IssueToken
  PROVE  issued' \in Tokens /\ valid' \subseteq 0..issued'
PROOF BY DEF TypeOK, IssueToken

LEMMA TypeInit == Init => TypeOK
PROOF BY DEF Init, TypeOK, Locations, Refreshing

LEMMA TypeCall ==
  ASSUME TypeOK, NEW c \in Callers, CallStep(c)
  PROVE  TypeOK'
PROOF
  <1>1. CASE Begin(c)
    <2>1. Goto(c, "first") /\ "first" \in Locations /\ "first" \notin Refreshing
      BY <1>1 DEF Begin, Locations, Refreshing
    <2> QED BY <1>1, <2>1, GotoTyped DEF Begin, TypeOK, Refreshing
  <1>2. CASE First(c) \/ Second(c)
    <2>1. CASE FirstRejected(c)
      <3>1. Goto(c, "locking") /\ "locking" \in Locations
        BY <2>1 DEF FirstRejected, Locations
      <3> QED BY <2>1, <3>1, GotoTyped DEF FirstRejected, TypeOK, Refreshing
    <2>2. CASE ~FirstRejected(c)
      <3>1. /\ pc[c] \in {"first", "second"} /\ Return(c)
            /\ UNCHANGED <<session, refresh, service>>
        BY <1>2, <2>2 DEF First, Second, FirstAccepted, FirstFails, SecondAccepted,
                          SecondRejected, SecondFails
      <3> QED BY <3>1, ReturnTyped DEF TypeOK, Refreshing
    <2> QED BY <2>1, <2>2
  <1>3. CASE Lock(c)
    <2>1. CASE session # snapshot[c]
      <3>1. Goto(c, "reread") /\ "reread" \in Locations
        BY <1>3, <2>1 DEF Lock, Locations
      <3> QED BY <1>3, <2>1, <3>1, GotoTyped DEF Lock, TypeOK, Refreshing
    <2>2. CASE session = snapshot[c]
      <3>1. Goto(c, "patching") /\ "patching" \in Locations /\ "patching" \in Refreshing
        BY <1>3, <2>2 DEF Lock, Locations, Refreshing
      <3> QED BY <1>3, <2>2, <3>1, GotoTyped DEF Lock, TypeOK
    <2> QED BY <2>1, <2>2
  <1>4. CASE Issue(c)
    <2>1. Goto(c, "storing") /\ "storing" \in Locations /\ {"storing", "patching"} = Refreshing
      BY <1>4 DEF Issue, Locations, Refreshing
    <2>2. fresh' \in [Callers -> Tokens]
      BY <1>4 DEF Issue, IssueToken, TypeOK
    <2> QED BY <1>4, <2>1, <2>2, GotoTyped, IssueTokenTyped DEF Issue, TypeOK
  <1>5. CASE Resend(c)
    BY <1>5 DEF Resend, Abandon, TypeOK
  <1>6. CASE RefreshFails(c)
    <2>1. Return(c) /\ refresh = c /\ "idle" \notin Refreshing
      BY <1>6 DEF RefreshFails, TypeOK, Refreshing
    <2>2. adrift' \in Nat
      BY <1>6 DEF RefreshFails, Abandon, TypeOK
    <2> QED BY <1>6, <2>1, <2>2, ReturnTyped DEF RefreshFails, TypeOK
  <1>7. CASE Store(c)
    <2>1. /\ Goto(c, "reread") /\ "reread" \in Locations /\ "reread" \notin Refreshing
          /\ refresh = c
      BY <1>7 DEF Store, Locations, Refreshing, TypeOK
    <2> QED BY <1>7, <2>1, GotoTyped DEF Store, TypeOK
  <1>8. CASE Reread(c)
    <2>1. Goto(c, "second") /\ "second" \in Locations
      BY <1>8 DEF Reread, Locations
    <2> QED BY <1>8, <2>1, GotoTyped DEF Reread, TypeOK, Refreshing
  <1>9. CASE Cancel(c)
    <2>1. Return(c) /\ "idle" \notin Refreshing
      BY <1>9 DEF Cancel, Refreshing
    <2>2. adrift' \in Nat
      BY <1>9 DEF Cancel, Abandon, TypeOK
    <2> QED BY <1>9, <2>1, <2>2, ReturnTyped DEF Cancel, TypeOK
  <1> QED BY <1>1, <1>2, <1>3, <1>4, <1>5, <1>6, <1>7, <1>8, <1>9 DEF CallStep

LEMMA TypeStep ==
  ASSUME TypeOK, [Next]_vars
  PROVE  TypeOK'
PROOF
  <1>1. CASE UNCHANGED vars
    BY <1>1 DEF vars, TypeOK
  <1>2. CASE IssueLate
    BY <1>2, IssueTokenTyped DEF IssueLate, TypeOK
  <1>3. CASE \E k \in valid : Expire(k)
    BY <1>3 DEF Expire, TypeOK
  <1> QED BY <1>1, <1>2, <1>3, TypeCall DEF Next

(* Every variable stays within its type.                                   *)
THEOREM Typing == Spec => []TypeOK
PROOF BY TypeInit, TypeStep, PTL DEF Spec

-----------------------------------------------------------------------------
(* The inductive invariant.  An expired token never becomes valid again,   *)
(* because tokens are issued in order; so what made a call ask for a       *)
(* refresh is still true when it gets the mutex, and while it holds it     *)
(* the session is still the one it wants replaced.                         *)

CallInv(c) ==
  /\ snapshot[c] <= session
  /\ pc[c] \in {"locking"} \cup Refreshing \cup {"reread"} => rejected[c] = snapshot[c]
  /\ pc[c] \in {"locking"} \cup Refreshing => snapshot[c] \notin valid
  /\ pc[c] \in Refreshing => session = snapshot[c]
  /\ pc[c] = "storing" => session < fresh[c] /\ fresh[c] <= issued
  /\ pc[c] = "reread" => snapshot[c] < session
  /\ pc[c] = "second" => rejected[c] < snapshot[c]

SInv ==
  /\ TypeOK
  /\ session <= issued
  /\ \A c \in Callers : CallInv(c)

LEMMA SInvInit == Init => SInv
PROOF BY TypeInit DEF Init, SInv, CallInv, Refreshing

(* The other calls do not mind what one of them does, unless it stores a   *)
(* session; then no other call is refreshing.                              *)
LEMMA Frame ==
  ASSUME SInv, NEW c \in Callers, session' >= session, session' \in Int, issued' >= issued,
         \A d \in Callers \ {c} :
           /\ pc'[d] = pc[d] /\ snapshot'[d] = snapshot[d]
           /\ fresh'[d] = fresh[d] /\ rejected'[d] = rejected[d],
         valid' \subseteq valid \cup {issued + 1}, issued' \in Int,
         session' = session \/ refresh = c
  PROVE  \A d \in Callers \ {c} : CallInv(d)'
PROOF
  <1> SUFFICES ASSUME NEW d \in Callers \ {c} PROVE CallInv(d)'
    OBVIOUS
  <1>1. CallInv(d) /\ TypeOK /\ session <= issued
    BY DEF SInv
  <1>2. /\ snapshot[d] \in Int /\ fresh[d] \in Int /\ rejected[d] \in Int
        /\ session \in Int /\ issued \in Int
    BY <1>1 DEF TypeOK
  <1>3. snapshot[d] \notin valid => snapshot[d] \notin valid'
    BY <1>1, <1>2 DEF CallInv
  <1>4. pc[d] \in Refreshing => session' = session
    BY <1>1 DEF TypeOK
  <1>5. /\ pc'[d] = pc[d] /\ snapshot'[d] = snapshot[d]
        /\ fresh'[d] = fresh[d] /\ rejected'[d] = rejected[d]
        /\ session <= session' /\ issued <= issued' /\ issued' \in Int
    OBVIOUS
  <1>6. snapshot[d] \notin valid => snapshot[d] \notin valid'
    BY <1>3, <1>5
  <1>7. pc[d] = "storing" => session' < fresh[d] /\ fresh[d] <= issued'
    BY <1>1, <1>2, <1>4, <1>5 DEF CallInv, Refreshing
  <1>8. pc[d] \in Refreshing => session' = snapshot[d]
    BY <1>1, <1>4 DEF CallInv
  <1>9. snapshot[d] <= session' /\ (pc[d] = "reread" => snapshot[d] < session')
    BY <1>1, <1>2, <1>5 DEF CallInv
  <1> QED BY <1>1, <1>5, <1>6, <1>7, <1>8, <1>9 DEF CallInv

(* What the call itself does, step by step.                                *)
LEMMA SInvCall ==
  ASSUME SInv, TypeOK', NEW c \in Callers, CallStep(c)
  PROVE  SInv'
PROOF
  <1>0. TypeOK /\ CallInv(c) /\ session <= issued
    BY DEF SInv
  <1>1. /\ session \in Int /\ issued \in Int /\ snapshot[c] \in Int
        /\ fresh[c] \in Int /\ rejected[c] \in Int
    BY <1>0 DEF TypeOK
  <1> DEFINE Mine == CallInv(c)' /\ session' <= issued'
             Rest == /\ session' >= session /\ session' \in Int
                     /\ issued' >= issued /\ issued' \in Int
                     /\ valid' \subseteq valid \cup {issued + 1}
                     /\ session' = session \/ refresh = c
                     /\ \A d \in Callers \ {c} :
                          /\ pc'[d] = pc[d] /\ snapshot'[d] = snapshot[d]
                          /\ fresh'[d] = fresh[d] /\ rejected'[d] = rejected[d]
  <1> SUFFICES Mine /\ Rest
    BY Frame DEF SInv
  <1> USE <1>0, <1>1 DEF Return, Goto, Refreshing
  <1>2. CASE Begin(c)
    BY <1>2 DEF Begin, TypeOK, CallInv
  <1>3. CASE First(c)
    BY <1>3 DEF First, FirstAccepted, FirstRejected, FirstFails, TypeOK, CallInv
  <1>4. CASE Lock(c)
    BY <1>4 DEF Lock, TypeOK, CallInv
  <1>5. CASE Issue(c)
    <2>1. snapshot[c] # issued + 1
      BY DEF CallInv
    <2> QED BY <1>5, <2>1 DEF Issue, IssueToken, TypeOK, CallInv
  <1>6. CASE Resend(c)
    BY <1>6 DEF Resend, TypeOK, CallInv
  <1>7. CASE RefreshFails(c)
    BY <1>7 DEF RefreshFails, TypeOK, CallInv
  <1>8. CASE Store(c)
    BY <1>8 DEF Store, TypeOK, CallInv
  <1>9. CASE Reread(c)
    BY <1>9 DEF Reread, TypeOK, CallInv
  <1>10. CASE Second(c)
    BY <1>10 DEF Second, SecondAccepted, SecondRejected, SecondFails, TypeOK, CallInv
  <1>11. CASE Cancel(c)
    BY <1>11 DEF Cancel, TypeOK, CallInv
  <1> QED BY <1>2, <1>3, <1>4, <1>5, <1>6, <1>7, <1>8, <1>9, <1>10, <1>11 DEF CallStep

LEMMA SInvStep ==
  ASSUME SInv, [Next]_vars
  PROVE  SInv'
PROOF
  <1>0. TypeOK /\ TypeOK' /\ session <= issued
    BY TypeStep DEF SInv
  <1>1. CASE UNCHANGED vars
    BY <1>0, <1>1 DEF vars, SInv, CallInv
  <1>2. CASE IssueLate \/ \E k \in valid : Expire(k)
    <2>1. /\ UNCHANGED <<session, pc, snapshot, fresh, rejected>>
          /\ issued' >= issued /\ issued' \in Int /\ valid' \subseteq valid \cup {issued + 1}
      BY <1>0, <1>2 DEF IssueLate, IssueToken, Expire, TypeOK
    <2>2. ASSUME NEW c \in Callers PROVE CallInv(c)'
      <3>1. /\ CallInv(c) /\ session \in Int /\ issued \in Int
            /\ snapshot[c] \in Int /\ fresh[c] \in Int
        BY <1>0 DEF SInv, TypeOK
      <3> QED BY <1>0, <2>1, <3>1 DEF CallInv
    <2>3. session' <= issued'
      BY <1>0, <2>1 DEF TypeOK
    <2> QED BY <1>0, <2>2, <2>3 DEF SInv
  <1> QED BY <1>0, <1>1, <1>2, SInvCall DEF Next

THEOREM Invariance == Spec => []SInv
PROOF BY SInvInit, SInvStep, PTL DEF Spec

(* A second attempt is made with a newer token than the one rejected.      *)
THEOREM FreshSecondAttempt == Spec => []SecondAttemptIsFresh
PROOF
  <1>1. SInv => SecondAttemptIsFresh
    BY DEF SInv, CallInv, TypeOK, SecondAttemptIsFresh
  <1> QED BY <1>1, Invariance, PTL

(* The service is asked for a new token only when the session's is not     *)
(* valid any more.                                                         *)
THEOREM OnlyExpiredReplaced == Spec => NoLiveTokenReplaced
PROOF
  <1> DEFINE Asks == \A c \in Callers :
               pc[c] # "patching" /\ pc'[c] = "patching" => session \notin valid
  <1>1. SInv /\ [Next]_vars => [Asks]_vars
    <2> SUFFICES ASSUME SInv, Next, NEW c \in Callers,
                        pc[c] # "patching", pc'[c] = "patching"
                 PROVE  session \notin valid
      OBVIOUS
    <2>1. PICK d \in Callers : CallStep(d)
      BY DEF Next, IssueLate, Expire
    <2>2. TypeOK /\ CallInv(c)
      BY DEF SInv
    <2>3. Lock(c) /\ session = snapshot[c]
      BY <2>1, <2>2
        DEF CallStep, Begin, First, FirstAccepted, FirstRejected, FirstFails, Lock, Issue,
            Resend, RefreshFails, Store, Reread, Second, SecondAccepted, SecondRejected,
            SecondFails, Cancel, Return, Goto, TypeOK
    <2> QED BY <2>2, <2>3 DEF Lock, CallInv
  <1> QED BY <1>1, Invariance, PTL DEF Spec, NoLiveTokenReplaced

(* A stored session is only ever replaced by a newer one.                  *)
THEOREM MonotonicSession == Spec => SessionNeverRegresses
PROOF
  <1>1. SInv /\ [Next]_vars => [session' >= session]_vars
    <2> SUFFICES ASSUME SInv, Next PROVE session' >= session
      OBVIOUS
    <2>1. TypeOK
      BY DEF SInv
    <2>2. CASE \E c \in Callers : Store(c)
      BY <2>1, <2>2 DEF SInv, CallInv, Store, Refreshing, TypeOK
    <2>3. CASE ~\E c \in Callers : Store(c)
      <3>1. session' = session
        BY <2>3
          DEF Next, CallStep, Begin, First, FirstAccepted, FirstRejected, FirstFails, Lock,
              Issue, Resend, RefreshFails, Reread, Second, SecondAccepted,
              SecondRejected, SecondFails, Cancel, IssueLate, Expire
      <3> QED BY <2>1, <3>1 DEF TypeOK
    <2> QED BY <2>2, <2>3
  <1> QED BY <1>1, Invariance, PTL DEF Spec, SessionNeverRegresses
=============================================================================
