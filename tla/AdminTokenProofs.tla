--------------------------- MODULE AdminTokenProofs ---------------------------
(***************************************************************************)
(* Theorems about the module AdminToken, for any number of callers and any *)
(* lifetimes: a connection is renewed only when it is used up, and a       *)
(* request's URL and token fit together.                                   *)
(***************************************************************************)
EXTENDS AdminToken, TLAPS

USE AdminAssumption DEF Times, Grants, request

-----------------------------------------------------------------------------
(* Types.                                                                  *)

LEMMA GotoTyped ==
  ASSUME NEW c \in Callers, NEW l \in Locations, TypeOK, Goto(c, l)
  PROVE  /\ pc' \in [Callers -> Locations]
         /\ pc'[c] = l /\ \A d \in Callers \ {c} : pc'[d] = pc[d]
BY DEF TypeOK, Goto

LEMMA EndTyped ==
  ASSUME NEW c \in Callers, TypeOK, End(c), UNCHANGED granted
  PROVE  /\ pc' \in [Callers -> Locations]
         /\ pc'[c] = "idle" /\ \A d \in Callers \ {c} : pc'[d] = pc[d]
         /\ need' \in [Callers -> {"url", "auth"}]
         /\ fetched' \in [Callers -> 0..granted']
         /\ url' \in [Callers -> 0..granted']
         /\ auth' \in [Callers -> 0..granted']
         /\ since' \in [Callers -> {Own} \cup Times]
<1>1. pc' \in [Callers -> Locations] /\ pc'[c] = "idle"
      /\ \A d \in Callers \ {c} : pc'[d] = pc[d]
  BY GotoTyped DEF End, Locations
<1>2. 0 \in 0..granted
  BY DEF TypeOK
<1> DEFINE known == 0..granted
<1> HIDE DEF known
<1>3. /\ need' \in [Callers -> {"url", "auth"}]
      /\ fetched' \in [Callers -> known] /\ url' \in [Callers -> known]
      /\ auth' \in [Callers -> known]
  <2>1. /\ 0 \in known /\ need \in [Callers -> {"url", "auth"}]
        /\ fetched \in [Callers -> known] /\ url \in [Callers -> known]
        /\ auth \in [Callers -> known]
    BY <1>2 DEF TypeOK, known
  <2> QED BY <2>1 DEF End
<1>4. since' \in [Callers -> {Own} \cup Times]
  BY DEF End, TypeOK
<1> QED BY <1>1, <1>3, <1>4 DEF known

LEMMA ObtainTyped ==
  ASSUME NEW c \in Callers, TypeOK, NEW g \in 0..granted, Obtain(c, g), UNCHANGED granted
  PROVE  /\ pc' \in [Callers -> Locations]
         /\ pc'[c] \in {"lookup", "sending"}
         /\ \A d \in Callers \ {c} : pc'[d] = pc[d]
         /\ need' \in [Callers -> {"url", "auth"}]
         /\ url' \in [Callers -> 0..granted']
         /\ auth' \in [Callers -> 0..granted']
         /\ since' \in [Callers -> {Own} \cup Times]
<1> DEFINE known == 0..granted
<1> HIDE DEF known
<1>0. /\ g \in known /\ need \in [Callers -> {"url", "auth"}]
      /\ url \in [Callers -> known] /\ auth \in [Callers -> known]
      /\ known = 0..granted'
  BY DEF TypeOK, known
<1>s. since' \in [Callers -> {Own} \cup Times]
  BY DEF Obtain, TypeOK
<1>1. CASE need[c] = "url"
  <2>1. Goto(c, "lookup") /\ "lookup" \in Locations
    BY <1>1 DEF Obtain, Locations
  <2>2. /\ url' = [url EXCEPT ![c] = g] /\ auth' = auth
        /\ need' = [need EXCEPT ![c] = "auth"]
    BY <1>1 DEF Obtain
  <2>3. url' \in [Callers -> known] /\ auth' \in [Callers -> known]
        /\ need' \in [Callers -> {"url", "auth"}]
    BY <1>0, <2>2
  <2> QED BY <1>0, <1>s, <2>1, <2>3, GotoTyped
<1>2. CASE need[c] = "auth"
  <2>1. Goto(c, "sending") /\ "sending" \in Locations
    BY <1>2 DEF Obtain, Locations
  <2>2. auth' = [auth EXCEPT ![c] = g] /\ url' = url /\ need' = need
    BY <1>2 DEF Obtain
  <2>3. url' \in [Callers -> known] /\ auth' \in [Callers -> known]
        /\ need' \in [Callers -> {"url", "auth"}]
    BY <1>0, <2>2
  <2> QED BY <1>0, <1>s, <2>1, <2>3, GotoTyped
<1> QED BY <1>1, <1>2 DEF Obtain

LEMMA TypeInit == Init => TypeOK
BY DEF Init, TypeOK, Locations, Exchanging

(* The connection an exchange brings lies between 0 and the last granted.  *)
LEMMA TypeCall ==
  ASSUME TypeOK, NEW c \in Callers, CallStep(c)
  PROVE  TypeOK'
<1> DEFINE First == IF App THEN "installation" ELSE "registration"
<1>0. First \in Exchanging /\ Exchanging \subseteq Locations
  BY DEF Exchanging, Locations
<1>1. CASE Begin(c)
  <2>1. Goto(c, "lookup") /\ "lookup" \in Locations /\ pc[c] \notin Exchanging
        /\ "lookup" \notin Exchanging
    BY <1>1 DEF Begin, Locations, Exchanging
  <2> QED BY <1>1, <2>1, GotoTyped DEF Begin, TypeOK
<1>2. CASE Lookup(c)
  <2>1. pc[c] \notin Exchanging /\ UNCHANGED <<now, admin, expires, granted, refresh, fetched>>
    BY <1>2 DEF Lookup, Exchanging
  <2>2. CASE Obtain(c, admin)
    <3>1. pc'[c] \notin Exchanging
      BY <2>1, <2>2, ObtainTyped DEF TypeOK, Exchanging
    <3> QED BY <2>1, <2>2, <3>1, ObtainTyped DEF TypeOK
  <2>3. CASE Goto(c, "locking") /\ UNCHANGED <<request, need>>
    <3>1. "locking" \in Locations /\ "locking" \notin Exchanging
      BY DEF Locations, Exchanging
    <3> QED BY <2>1, <2>3, <3>1, GotoTyped DEF TypeOK
  <2> QED BY <1>2, <2>2, <2>3 DEF Lookup
<1>3. CASE Lock(c)
  <2>1. pc[c] \notin Exchanging /\ refresh = Nobody
        /\ UNCHANGED <<now, admin, expires, granted, fetched>>
    BY <1>3 DEF Lock, Exchanging
  <2>2. CASE Obtain(c, admin) /\ UNCHANGED refresh
    <3>1. pc'[c] \notin Exchanging
      BY <2>1, <2>2, ObtainTyped DEF TypeOK, Exchanging
    <3> QED BY <2>1, <2>2, <3>1, ObtainTyped DEF TypeOK
  <2>3. CASE refresh' = c /\ Goto(c, First) /\ UNCHANGED <<request, need>>
    <3> HIDE DEF First
    <3> QED BY <1>0, <2>1, <2>3, GotoTyped DEF TypeOK
  <2> QED BY <1>3, <2>2, <2>3 DEF Lock
<1>4. CASE InstallationToken(c)
  <2>1. Goto(c, "registration") /\ pc[c] \in Exchanging /\ "registration" \in Exchanging
    BY <1>4 DEF InstallationToken, Exchanging
  <2> QED BY <1>0, <1>4, <2>1, GotoTyped DEF InstallationToken, TypeOK
<1>5. CASE RegistrationToken(c)
  <2>1. Goto(c, "connection") /\ pc[c] \in Exchanging /\ "connection" \in Exchanging
    BY <1>5 DEF RegistrationToken, Exchanging
  <2> QED BY <1>0, <1>5, <2>1, GotoTyped DEF RegistrationToken, TypeOK
<1>6. CASE Connection(c)
  <2>1. Goto(c, "storing") /\ pc[c] \in Exchanging /\ "storing" \in Exchanging
    BY <1>6 DEF Connection, Exchanging
  <2>2. granted' \in 0..MaxGrants /\ granted' = granted + 1 /\ granted \in Nat
    BY <1>6 DEF Connection, TypeOK
  <2>3. PICK life \in Lifetimes : expires' = [expires EXCEPT ![granted + 1] = now + life]
    BY <1>6 DEF Connection
  <2>4. expires' \in [Grants -> Int]
    <3>1. granted + 1 \in Grants /\ now + life \in Int /\ expires \in [Grants -> Int]
      BY <2>2 DEF TypeOK
    <3> QED BY <2>3, <3>1
  <2> DEFINE known == 0..granted'
  <2>5. granted' \in known /\ 0..granted \subseteq known
    BY <2>2
  <2> HIDE DEF known
  <2>6. \A f \in [Callers -> 0..granted] : f \in [Callers -> known]
    BY <2>5
  <2>7. /\ fetched \in [Callers -> known] /\ url \in [Callers -> known]
        /\ auth \in [Callers -> known]
    BY <2>6 DEF TypeOK
  <2>8. fetched' \in [Callers -> known]
    <3>1. fetched' = [fetched EXCEPT ![c] = granted']
      BY <1>6 DEF Connection
    <3> QED BY <2>5, <2>7, <3>1
  <2>9. /\ fetched' \in [Callers -> 0..granted'] /\ url' \in [Callers -> 0..granted']
        /\ auth' \in [Callers -> 0..granted']
    BY <1>6, <2>7, <2>8 DEF Connection, known
  <2>10. /\ UNCHANGED <<now, admin, refresh, need>> /\ admin' \in 0..granted'
         /\ \A d \in Callers : pc'[d] \in Exchanging <=> pc[d] \in Exchanging
    <3>1. UNCHANGED <<now, admin, refresh, need>>
      BY <1>6 DEF Connection
    <3>2. admin' \in 0..granted'
      BY <2>2, <3>1 DEF TypeOK
    <3>3. "storing" \in Locations
      BY <1>0, <2>1
    <3> QED BY <2>1, <3>1, <3>2, <3>3, GotoTyped
  <2>11. pc' \in [Callers -> Locations]
    BY <1>0, <2>1, GotoTyped
  <2>12. since' \in [Callers -> {Own} \cup Times]
    BY <1>6 DEF Connection, TypeOK
  <2> QED BY <2>2, <2>4, <2>9, <2>10, <2>11, <2>12 DEF TypeOK
<1>7. CASE ExchangeFails(c)
  <2>1. pc[c] \in Exchanging /\ "idle" \notin Exchanging /\ refresh = c
    BY <1>7 DEF ExchangeFails, Exchanging, TypeOK
  <2> QED BY <1>7, <2>1, EndTyped DEF ExchangeFails, TypeOK
<1>8. CASE Store(c)
  <2>1. pc[c] \in Exchanging /\ refresh = c
    BY <1>8 DEF Store, Exchanging, TypeOK
  <2>2. fetched[c] \in 0..granted /\ 0 \in 0..granted
    BY DEF TypeOK
  <2>3. pc'[c] \notin Exchanging
    BY <1>8, <2>2, ObtainTyped DEF Store, Exchanging
  <2> QED BY <1>8, <2>1, <2>2, <2>3, ObtainTyped DEF Store, TypeOK
<1>9. CASE Send(c)
  <2>1. pc[c] \notin Exchanging /\ "idle" \notin Exchanging
    BY <1>9 DEF Send, Exchanging
  <2> QED BY <1>9, <2>1, EndTyped DEF Send, TypeOK
<1>10. CASE Cancel(c)
  <2>1. "idle" \notin Exchanging
    BY DEF Exchanging
  <2> QED BY <1>10, <2>1, EndTyped DEF Cancel, TypeOK
<1> QED BY <1>1, <1>2, <1>3, <1>4, <1>5, <1>6, <1>7, <1>8, <1>9, <1>10 DEF CallStep, Exchange

LEMMA TypeStep ==
  ASSUME TypeOK, [Next]_vars
  PROVE  TypeOK'
<1>1. CASE UNCHANGED vars
  BY <1>1 DEF vars, TypeOK
<1>2. CASE Tick
  BY <1>2 DEF Tick, TypeOK
<1> QED BY <1>1, <1>2, TypeCall DEF Next

(* Every variable stays within its type, and whoever holds the refresh     *)
(* mutex is in the exchange of update_token_if_needed.                     *)
THEOREM Typing == Spec => []TypeOK
BY TypeInit, TypeStep, PTL DEF Spec

-----------------------------------------------------------------------------
(* The inductive invariant.  A used-up connection stays used up, because   *)
(* time only goes forward and a grant never changes the expiry of an older *)
(* connection; so what a call found at its second look still holds when it *)
(* stores the new connection, and what it took its URL from is either the  *)
(* connection in use or used up.                                           *)
(* A header a call has taken from the client had more than the margin left.*)
CallInv(c) ==
  /\ pc[c] = "sending" /\ since[c] # Own =>
       auth[c] # 0 /\ since[c] + Margin < expires[auth[c]]
  /\ pc[c] = "idle" => need[c] = "url"
  /\ pc[c] \in Exchanging => ~Usable(admin)
  /\ pc[c] = "storing" => admin < fetched[c]
  /\ (pc[c] = "lookup" \/ pc[c] = "locking" \/ pc[c] \in Exchanging) /\ need[c] = "auth" =>
       url[c] <= admin /\ (url[c] # admin => ~Usable(url[c]))
  /\ pc[c] = "sending" =>
       url[c] <= auth[c] /\ (url[c] # auth[c] => ~Usable(url[c]))

AInv == TypeOK /\ \A c \in Callers : CallInv(c)

LEMMA UsedUp ==
  ASSUME TypeOK, Next, NEW g \in 0..granted, ~Usable(g)
  PROVE  ~Usable(g)'
<1>1. CASE UNCHANGED <<now, expires>>
  BY <1>1 DEF Usable
<1>2. CASE Tick
  <2>1. expires' = expires /\ now' = now + 1 /\ expires[g] \in Int /\ now \in Int
    BY <1>2 DEF Tick, TypeOK
  <2> QED BY <2>1 DEF Usable
<1>3. ASSUME NEW c \in Callers, Connection(c) PROVE ~Usable(g)'
  <2>1. expires'[g] = expires[g] /\ UNCHANGED now
    BY <1>3 DEF Connection, TypeOK
  <2> QED BY <2>1 DEF Usable
<1>4. ASSUME NEW c \in Callers, CallStep(c), ~Connection(c)
      PROVE  UNCHANGED <<now, expires>>
  BY <1>4 DEF CallStep, Begin, Lookup, Lock, Exchange, InstallationToken, RegistrationToken,
              ExchangeFails, Store, Send, Cancel
<1> QED BY <1>1, <1>2, <1>3, <1>4 DEF Next

(* A grant does not change the expiry of an older connection.              *)
LEMMA ExpiryKept ==
  ASSUME TypeOK, Next, NEW g \in 0..granted
  PROVE  expires'[g] = expires[g]
<1>1. CASE UNCHANGED expires
  BY <1>1
<1>2. ASSUME NEW c \in Callers, Connection(c) PROVE expires'[g] = expires[g]
  BY <1>2 DEF Connection, TypeOK
<1>3. ASSUME NEW c \in Callers, CallStep(c), ~Connection(c) PROVE UNCHANGED expires
  BY <1>3 DEF CallStep, Begin, Lookup, Lock, Exchange, InstallationToken, RegistrationToken,
              ExchangeFails, Store, Send, Cancel
<1> QED BY <1>1, <1>2, <1>3 DEF Next, Tick

(* What a step does to a call that does not take it.                       *)
LEMMA Frame ==
  ASSUME AInv, Next, TypeOK', NEW d \in Callers,
         pc'[d] = pc[d], need'[d] = need[d], fetched'[d] = fetched[d],
         url'[d] = url[d], auth'[d] = auth[d], since'[d] = since[d],
         admin' = admin \/ (admin < admin' /\ ~Usable(admin) /\ pc[d] \notin Exchanging)
  PROVE  CallInv(d)'
<1>1. /\ admin \in 0..granted /\ admin' \in 0..granted' /\ granted \in Nat /\ granted' \in Nat
      /\ url[d] \in 0..granted /\ auth[d] \in 0..granted /\ fetched[d] \in 0..granted
  BY DEF AInv, TypeOK
<1>2. CallInv(d)
  BY DEF AInv
<1>3. \A g \in 0..granted : ~Usable(g) => ~(g # 0 /\ now' + Margin < expires'[g])
  BY UsedUp DEF AInv, Usable
<1>4. (pc[d] \in Exchanging => ~Usable(admin))'
  BY <1>1, <1>2, <1>3 DEF CallInv, Usable
<1>5. (pc[d] = "storing" => admin < fetched[d])'
  BY <1>1, <1>2 DEF CallInv, Exchanging
<1>6. ((pc[d] = "lookup" \/ pc[d] = "locking" \/ pc[d] \in Exchanging) /\ need[d] = "auth" =>
        url[d] <= admin /\ (url[d] # admin => ~Usable(url[d])))'
  <2> SUFFICES ASSUME pc[d] = "lookup" \/ pc[d] = "locking" \/ pc[d] \in Exchanging,
                      need[d] = "auth"
               PROVE  url[d] <= admin' /\ (url[d] # admin' => ~Usable(url[d])')
    BY DEF Usable
  <2>1. url[d] <= admin /\ (url[d] # admin => ~Usable(url[d]))
    BY <1>2 DEF CallInv
  <2>2. url[d] # admin' => ~Usable(url[d])
    BY <2>1
  <2>3. url[d] # admin' => ~Usable(url[d])'
    BY <1>1, <1>3, <2>2 DEF Usable
  <2> QED BY <1>1, <2>1, <2>3
<1>7. (pc[d] = "sending" =>
        url[d] <= auth[d] /\ (url[d] # auth[d] => ~Usable(url[d])))'
  BY <1>1, <1>2, <1>3 DEF CallInv, Usable
<1>8. (pc[d] = "idle" => need[d] = "url")'
  BY <1>2 DEF CallInv
<1>9. (pc[d] = "sending" /\ since[d] # Own =>
         auth[d] # 0 /\ since[d] + Margin < expires[auth[d]])'
  BY <1>1, <1>2, ExpiryKept DEF CallInv, AInv
<1> QED BY <1>4, <1>5, <1>6, <1>7, <1>8, <1>9 DEF CallInv

(* A call obtains the connection that is in use after the step.            *)
LEMMA Obtained ==
  ASSUME AInv, Next, TypeOK', NEW c \in Callers,
         Obtain(c, admin'), pc[c] = "lookup" \/ pc[c] = "locking" \/ pc[c] \in Exchanging,
         admin' = admin \/ (admin < admin' /\ ~Usable(admin)),
         refresh = c \/ (Usable(admin') /\ UNCHANGED expires)
  PROVE  CallInv(c)'
<1>1. /\ admin \in 0..granted /\ admin' \in 0..granted' /\ granted \in Nat /\ granted' \in Nat
      /\ url[c] \in 0..granted /\ c \in DOMAIN url /\ c \in DOMAIN auth
      /\ c \in DOMAIN pc /\ c \in DOMAIN need
  BY DEF AInv, TypeOK
<1>2. \A g \in 0..granted : ~Usable(g) => ~(g # 0 /\ now' + Margin < expires'[g])
  BY UsedUp DEF AInv, Usable
<1>3. CASE need[c] = "url"
  <2>1. url'[c] = admin' /\ pc'[c] = "lookup" /\ pc'[c] \notin Exchanging
    BY <1>1, <1>3 DEF Obtain, Goto, Exchanging
  <2> QED BY <1>1, <2>1 DEF CallInv
<1>4. CASE need[c] = "auth"
  <2>1. /\ url'[c] = url[c] /\ auth'[c] = admin' /\ pc'[c] = "sending"
        /\ pc'[c] \notin Exchanging
    BY <1>1, <1>4 DEF Obtain, Goto, Exchanging
  <2>2. url[c] <= admin /\ (url[c] # admin => ~Usable(url[c]))
    BY <1>4 DEF AInv, CallInv
  <2>3. url[c] <= admin' /\ (url[c] # admin' => ~(url[c] # 0 /\ now' + Margin < expires'[url[c]]))
    BY <1>1, <1>2, <2>2
  <2>4. since'[c] # Own => admin' # 0 /\ since'[c] + Margin < expires'[admin']
    <3>1. since'[c] = IF refresh = c THEN Own ELSE now
      BY <1>4 DEF Obtain, AInv, TypeOK
    <3> QED BY <3>1 DEF Usable
  <2> QED BY <2>1, <2>3, <2>4 DEF CallInv, Usable
<1> QED BY <1>3, <1>4 DEF Obtain

(* The step of call c as the other calls see it.                           *)
LEMMA Others ==
  ASSUME TypeOK, NEW c \in Callers, CallStep(c), NEW d \in Callers, d # c
  PROVE  /\ pc'[d] = pc[d] /\ need'[d] = need[d] /\ fetched'[d] = fetched[d]
         /\ url'[d] = url[d] /\ auth'[d] = auth[d] /\ since'[d] = since[d]
<1>1. \A l : Goto(c, l) => pc'[d] = pc[d]
  BY DEF Goto, TypeOK
<1>2. \A g : Obtain(c, g) => /\ pc'[d] = pc[d] /\ need'[d] = need[d] /\ url'[d] = url[d]
                              /\ auth'[d] = auth[d] /\ since'[d] = since[d]
  BY <1>1 DEF Obtain, TypeOK
<1>3. End(c) => /\ pc'[d] = pc[d] /\ need'[d] = need[d] /\ fetched'[d] = fetched[d]
                /\ url'[d] = url[d] /\ auth'[d] = auth[d] /\ since'[d] = since[d]
  BY <1>1 DEF End, TypeOK
<1>4. CASE Begin(c) \/ InstallationToken(c) \/ RegistrationToken(c)
  BY <1>1, <1>4 DEF Begin, InstallationToken, RegistrationToken
<1>5. CASE Lookup(c) \/ Lock(c)
  BY <1>1, <1>2, <1>5 DEF Lookup, Lock
<1>6. CASE Connection(c)
  BY <1>1, <1>6 DEF Connection, TypeOK
<1>7. CASE Store(c)
  BY <1>2, <1>7 DEF Store, TypeOK
<1>8. CASE ExchangeFails(c) \/ Send(c) \/ Cancel(c)
  BY <1>3, <1>8 DEF ExchangeFails, Send, Cancel
<1> QED BY <1>4, <1>5, <1>6, <1>7, <1>8 DEF CallStep, Exchange

(* Only Store replaces the connection, and it does so for a newer one that *)
(* nobody else is fetching.                                                *)
LEMMA Replaced ==
  ASSUME AInv, NEW c \in Callers, CallStep(c)
  PROVE  \/ admin' = admin
         \/ /\ admin < admin' /\ ~Usable(admin)
            /\ \A d \in Callers : d # c => pc[d] \notin Exchanging
<1>1. CASE Store(c)
  <2>1. pc[c] = "storing" /\ pc[c] \in Exchanging /\ refresh = c /\ admin' = fetched[c]
    BY <1>1 DEF Store, Exchanging, AInv, TypeOK
  <2> QED BY <2>1 DEF AInv, TypeOK, CallInv
<1>2. CASE ~Store(c)
  BY <1>2 DEF CallStep, Begin, Lookup, Lock, Exchange, InstallationToken, RegistrationToken,
              Connection, ExchangeFails, Send, Cancel
<1> QED BY <1>1, <1>2

LEMMA InvInit == Init => AInv
BY TypeInit DEF Init, AInv, CallInv, Exchanging

LEMMA InvCall ==
  ASSUME AInv, NEW c \in Callers, CallStep(c)
  PROVE  AInv'
<1>1. TypeOK /\ TypeOK' /\ Next
  BY TypeCall DEF AInv, Next
<1>2. ASSUME NEW d \in Callers, d # c PROVE CallInv(d)'
  BY <1>1, <1>2, Others, Replaced, Frame
<1>3. CallInv(c)'
  <2> USE DEF AInv
  <2>0. /\ admin \in 0..granted /\ granted \in Nat /\ c \in DOMAIN pc
        /\ c \in DOMAIN fetched /\ c \in DOMAIN need
    BY DEF TypeOK
  <2>1. CASE Begin(c)
    <3>1. pc'[c] = "lookup" /\ need'[c] = "url"
      BY <2>0, <2>1 DEF Begin, Goto, CallInv
    <3> QED BY <3>1 DEF CallInv, Exchanging
  <2>2. CASE Lookup(c)
    <3>1. CASE Usable(admin) /\ Obtain(c, admin)
      BY <1>1, <2>2, <3>1, Obtained DEF Lookup, Usable
    <3>2. CASE Goto(c, "locking") /\ UNCHANGED <<request, need>>
      <4>1. pc'[c] = "locking" /\ pc[c] = "lookup"
            /\ UNCHANGED <<now, admin, expires, request, need>>
        BY <2>0, <2>2, <3>2 DEF Lookup, Goto
      <4> QED BY <4>1 DEF CallInv, Exchanging, Usable
    <3> QED BY <2>2, <3>1, <3>2 DEF Lookup
  <2>3. CASE Lock(c)
    <3>1. CASE Usable(admin) /\ Obtain(c, admin)
      BY <1>1, <2>3, <3>1, Obtained DEF Lock, Usable
    <3>2. CASE ~Usable(admin) /\ Goto(c, IF App THEN "installation" ELSE "registration")
               /\ UNCHANGED <<request, need>>
      <4>1. pc'[c] \in {"installation", "registration"} /\ pc[c] = "locking"
            /\ UNCHANGED <<now, admin, expires, request, need>>
        BY <2>0, <2>3, <3>2 DEF Lock, Goto
      <4> QED BY <3>2, <4>1 DEF CallInv, Exchanging, Usable
    <3> QED BY <2>3, <3>1, <3>2 DEF Lock
  <2>4. CASE InstallationToken(c) \/ RegistrationToken(c)
    <3>1. pc'[c] \in {"registration", "connection"} /\ pc[c] \in Exchanging
          /\ UNCHANGED <<now, admin, expires, request, need>>
      BY <2>0, <2>4 DEF InstallationToken, RegistrationToken, Goto, Exchanging
    <3> QED BY <3>1 DEF CallInv, Exchanging, Usable
  <2>5. CASE Connection(c)
    <3>1. /\ pc'[c] = "storing" /\ pc[c] \in Exchanging /\ fetched'[c] = granted + 1
          /\ UNCHANGED <<now, admin, request, need>>
      BY <2>0, <2>5 DEF Connection, Goto, Exchanging
    <3>2. \A g \in 0..granted : ~Usable(g) => ~(g # 0 /\ now' + Margin < expires'[g])
      BY <1>1, UsedUp DEF Usable
    <3>3. url[c] \in 0..granted
      BY DEF TypeOK
    <3>4. CallInv(c)
      OBVIOUS
    <3>5. pc'[c] # "sending" /\ pc'[c] \in Exchanging
      BY <3>1 DEF Exchanging
    <3>6. ~Usable(admin)'
      BY <2>0, <3>1, <3>2, <3>4 DEF CallInv, Usable
    <3>7. admin' < fetched'[c]
      BY <2>0, <3>1
    <3>8. need'[c] = "auth" => url'[c] <= admin' /\ (url'[c] # admin' => ~Usable(url[c])')
      BY <2>0, <3>1, <3>2, <3>3, <3>4 DEF CallInv, Usable
    <3> QED BY <3>1, <3>5, <3>6, <3>7, <3>8 DEF CallInv, Usable
  <2>6. CASE Store(c)
    <3>1. pc[c] = "storing" /\ pc[c] \in Exchanging /\ admin' = fetched[c] /\ Obtain(c, admin')
      BY <2>6 DEF Store, Exchanging
    <3>2. admin < admin' /\ ~Usable(admin) /\ refresh = c
      BY <3>1 DEF CallInv, TypeOK
    <3> QED BY <1>1, <3>1, <3>2, Obtained
  <2>7. CASE ExchangeFails(c) \/ Send(c) \/ Cancel(c)
    <3>1. pc'[c] = "idle" /\ need'[c] = "url"
      BY <2>0, <2>7 DEF ExchangeFails, Send, Cancel, End, Goto
    <3> QED BY <3>1 DEF CallInv, Exchanging
  <2> QED BY <2>1, <2>2, <2>3, <2>4, <2>5, <2>6, <2>7 DEF CallStep, Exchange
<1> QED BY <1>1, <1>2, <1>3 DEF AInv

LEMMA InvStep == AInv /\ [Next]_vars => AInv'
<1> SUFFICES ASSUME AInv, [Next]_vars PROVE AInv'
  OBVIOUS
<1>1. CASE UNCHANGED vars
  BY <1>1 DEF vars, AInv, TypeOK, CallInv, Usable
<1>2. CASE Tick
  <2>1. TypeOK' /\ Next
    BY <1>2, TypeStep DEF AInv, Next
  <2>2. UNCHANGED <<admin, pc, need, fetched, url, auth, since>>
    BY <1>2 DEF Tick
  <2> QED BY <2>1, <2>2, Frame DEF AInv
<1> QED BY <1>1, <1>2, InvCall DEF Next

THEOREM Invariance == Spec => []AInv
BY InvInit, InvStep, PTL DEF Spec

-----------------------------------------------------------------------------
(* The URL of actions_url and the header of admin_authorization are of one *)
(* connection, or the URL's was used up in between and the header is newer.*)
THEOREM Matching == Spec => []UrlAndTokenMatch
<1>1. AInv => UrlAndTokenMatch
  BY DEF AInv, TypeOK, CallInv, UrlAndTokenMatch
<1> QED BY Invariance, <1>1, PTL

(* A request whose header expires on the way has been under way for more   *)
(* than the margin, unless the call fetched the connection itself.         *)
THEOREM HeaderHolds == Spec => []HeaderMargin
<1>1. AInv => HeaderMargin
  BY DEF AInv, TypeOK, CallInv, HeaderMargin
<1> QED BY Invariance, <1>1, PTL

LEMMA ReplaceStep == AInv /\ [Next]_vars => admin' = admin \/ (admin < admin' /\ ~Usable(admin))
BY Replaced DEF Next, Tick, vars

(* update_token_if_needed replaces a connection only when it is used up,   *)
(* although it decides so before three requests' worth of waiting.         *)
THEOREM OnlyStale == Spec => OnlyStaleReplaced
<1>1. AInv /\ [Next]_vars => [admin' # admin => ~Usable(admin)]_vars
  BY ReplaceStep
<1> QED BY Invariance, <1>1, PTL DEF Spec, OnlyStaleReplaced

(* The connection in use is never replaced by one granted before it.       *)
THEOREM MonotonicConnection == Spec => ConnectionNeverRegresses
<1>1. AInv /\ [Next]_vars => [admin' >= admin]_vars
  <2> SUFFICES ASSUME AInv, [Next]_vars PROVE admin' >= admin
    OBVIOUS
  <2>1. admin \in Int /\ admin' \in Int
    BY TypeStep DEF AInv, TypeOK
  <2> QED BY <2>1, ReplaceStep
<1> QED BY Invariance, <1>1, PTL DEF Spec, ConnectionNeverRegresses
=============================================================================
