----------------------- MODULE SessionLifecycleProofs -----------------------
(***************************************************************************)
(* What close promises, for every set of clients, every retry_max and      *)
(* every number of sessions.                                               *)
(***************************************************************************)
EXTENDS SessionLifecycle, FiniteSetTheorems, TLAPS

USE LifecycleAssumption DEF Nil, NoClose, service, creation

-----------------------------------------------------------------------------
(* Types.                                                                  *)

LEMMA TypeInit == Init => TypeOK
PROOF BY DEF Init, TypeOK

LEMMA MadeTyped ==
  ASSUME TypeOK, NEW k \in Clients, MakeSession(k)
  PROVE  /\ made' \in 0..MaxSessions /\ made' = made + 1
         /\ live' \subseteq 1..made'
         /\ maker' \in [Ids -> Clients]
         /\ made + 1 \in Ids /\ maker'[made + 1] = k
PROOF
  <1>1. made + 1 \in Ids
    BY DEF TypeOK, MakeSession, Ids
  <1>2. maker' \in [Ids -> Clients] /\ maker'[made + 1] = k
    BY <1>1 DEF TypeOK, MakeSession
  <1>3. live' \subseteq 1..made'
    BY DEF TypeOK, MakeSession
  <1>4. made' \in 0..MaxSessions /\ made' = made + 1
    BY DEF TypeOK, MakeSession
  <1> QED BY <1>1, <1>2, <1>3, <1>4

LEMMA LoseTyped ==
  ASSUME TypeOK, NEW k \in Clients, Lose(k)
  PROVE  lost' \in [Clients -> Nat]
PROOF BY DEF TypeOK, Lose

(* The service's part of the type invariant, and what depends on it.       *)
LEMMA ServiceTyped ==
  ASSUME TypeOK, NEW k \in Clients, MakeSession(k) \/ UNCHANGED service
  PROVE  /\ made' \in 0..MaxSessions /\ live' \subseteq 1..made'
         /\ maker' \in [Ids -> Clients]
         /\ answer \in [Clients -> 0..made'] /\ held \in [Clients -> 0..made']
         /\ closing \in [Clients -> -1..made'] /\ lateDeletes \subseteq 0..made'
         /\ closed \in [Clients -> SUBSET (1..made')]
PROOF
  <1>1. CASE MakeSession(k)
    <2>1. made \in Nat /\ made' = made + 1
      BY <1>1, MadeTyped DEF TypeOK
    <2>2. answer \in [Clients -> 0..made'] /\ held \in [Clients -> 0..made']
      BY <2>1 DEF TypeOK
    <2>3. closing \in [Clients -> -1..made'] /\ lateDeletes \subseteq 0..made'
      BY <2>1 DEF TypeOK
    <2>4. closed \in [Clients -> SUBSET (1..made')]
      <3>1. ASSUME NEW j \in Clients PROVE closed[j] \subseteq 1..made'
        BY <2>1 DEF TypeOK
      <3> QED BY <3>1 DEF TypeOK
    <2> QED BY <1>1, <2>2, <2>3, <2>4, MadeTyped
  <1>2. CASE UNCHANGED service
    BY <1>2 DEF TypeOK
  <1> QED BY <1>1, <1>2

LEMMA CreatingTyped ==
  ASSUME TypeOK, NEW k \in Clients, Creating(k)
  PROVE  TypeOK'
PROOF
  <1>1. CASE Create(k)
    BY <1>1 DEF Create, Goto, TypeOK
  <1>2. CASE PostAnswered(k)
    <2>1. MakeSession(k) /\ answer' \in [Clients -> 0..made']
      BY <1>2, ServiceTyped, MadeTyped DEF PostAnswered, TypeOK
    <2> QED BY <1>2, <2>1, ServiceTyped DEF PostAnswered, Goto, TypeOK
  <1>3. CASE PostLost(k)
    <2>1. MakeSession(k) \/ UNCHANGED service
      BY <1>3 DEF PostLost
    <2>2. lost' \in [Clients -> Nat] /\ latePosts' \in [Clients -> Nat]
      BY <1>3, LoseTyped DEF PostLost, TypeOK
    <2>3. /\ tries' \in [Clients -> 0..RetryMax + 1]
          /\ pc' \in [Clients -> {"new", "posting", "decoding", "open", "gone"}]
          /\ \A j \in Clients : pc'[j] \in {"new", "posting"} => tries'[j] <= RetryMax
      BY <1>3 DEF PostLost, Retry, Goto, TypeOK
    <2> QED BY <1>3, <2>1, <2>2, <2>3, ServiceTyped DEF PostLost, TypeOK
  <1>4. CASE PostRefused(k)
    BY <1>4 DEF PostRefused, Goto, TypeOK
  <1>5. CASE Store(k)
    BY <1>5, LoseTyped DEF Store, Goto, TypeOK
  <1>6. CASE DecodeFails(k)
    BY <1>6, LoseTyped DEF DecodeFails, Goto, TypeOK
  <1>7. CASE Abandon(k)
    <2>1. lost' \in [Clients -> Nat] /\ latePosts' \in [Clients -> Nat]
      BY <1>7, LoseTyped DEF Abandon, TypeOK
    <2>2. closing' \in [Clients -> -1..made] /\ lateDeletes' \subseteq 0..made
      <3>1. closing[k] \in -1..made /\ closing \in [Clients -> -1..made]
            /\ lateDeletes \subseteq 0..made /\ made \in Nat
        BY DEF TypeOK
      <3>2. \/ UNCHANGED <<closing, lateDeletes>>
            \/ /\ closing' = [closing EXCEPT ![k] = NoClose]
               /\ lateDeletes' = lateDeletes \cup ({closing[k]} \ {NoClose})
        BY <1>7 DEF Abandon
      <3>3. {closing[k]} \ {NoClose} \subseteq 0..made
        BY <3>1
      <3>4. closing' \in [Clients -> -1..made]
        BY <3>1, <3>2
      <3>5. lateDeletes' \subseteq 0..made
        BY <3>1, <3>2, <3>3
      <3> QED BY <3>4, <3>5
    <2>3. /\ tries' \in [Clients -> 0..RetryMax + 1]
          /\ pc' \in [Clients -> {"new", "posting", "decoding", "open", "gone"}]
          /\ patch' \in [Clients -> {"idle", "patching", "storing"}]
          /\ \A j \in Clients : pc'[j] \in {"new", "posting"} => tries'[j] <= RetryMax
      BY <1>7 DEF Abandon, Goto, TypeOK
    <2> QED BY <1>7, <2>1, <2>2, <2>3 DEF Abandon, TypeOK
  <1> QED BY <1>1, <1>2, <1>3, <1>4, <1>5, <1>6, <1>7 DEF Creating

LEMMA ClosingTyped ==
  ASSUME TypeOK, NEW k \in Clients, Closing(k)
  PROVE  TypeOK'
PROOF
  <1>1. made \in Nat /\ held[k] \in 0..made /\ closing[k] \in -1..made
    BY DEF TypeOK
  <1>2. closing' \in [Clients -> -1..made]
    <2>1. \E x \in {NoClose, held[k], closing[k]} : closing' = [closing EXCEPT ![k] = x]
      BY DEF Closing, Close, CloseOk, CloseUnheard, CloseFails, TypeOK
    <2> QED BY <1>1, <2>1 DEF TypeOK
  <1>3. lateDeletes' \subseteq 0..made
    <2>1. closing[k] # NoClose => closing[k] \in 0..made
      BY <1>1
    <2>2. \/ UNCHANGED lateDeletes
          \/ closing[k] # NoClose /\ lateDeletes' = lateDeletes \cup {closing[k]}
      BY DEF Closing, Close, CloseOk, CloseUnheard, CloseFails
    <2> QED BY <2>1, <2>2 DEF TypeOK
  <1>4. live' \subseteq 1..made
    BY DEF Closing, Close, CloseOk, CloseUnheard, CloseFails, TypeOK
  <1>5. closed' \in [Clients -> SUBSET (1..made)]
    <2>1. CASE CloseOk(k)
      <3>1. closing[k] \in 1..made
        BY <2>1 DEF CloseOk, TypeOK
      <3> QED BY <2>1, <3>1 DEF CloseOk, TypeOK
    <2>2. CASE UNCHANGED closed
      BY <2>2 DEF TypeOK
    <2> QED BY <2>1, <2>2 DEF Closing, Close, CloseUnheard, CloseFails
  <1>6. UNCHANGED <<made, maker, creation, held, patch, latePosts, lost>>
    BY DEF Closing, Close, CloseOk, CloseUnheard, CloseFails
  <1> QED BY <1>2, <1>3, <1>4, <1>5, <1>6 DEF TypeOK

LEMMA TypeStep ==
  ASSUME TypeOK, [Next]_vars
  PROVE  TypeOK'
PROOF
  <1>1. CASE UNCHANGED vars
    BY <1>1 DEF vars, TypeOK
  <1>2. ASSUME NEW k \in Clients, Refreshing(k) PROVE TypeOK'
    <2>1. answer[k] \in 0..made /\ held[k] \in 0..made /\ 0 \in 0..made
      BY DEF TypeOK
    <2>2. CASE Refresh(k) \/ PatchAnswered(k) \/ RefreshFails(k)
      <3>1. /\ answer' \in [Clients -> 0..made]
            /\ patch' \in [Clients -> {"idle", "patching", "storing"}]
        BY <2>1, <2>2 DEF Refresh, PatchAnswered, RefreshFails, TypeOK
      <3>2. UNCHANGED <<service, pc, tries, held, closing, latePosts, lateDeletes, lost, closed>>
        BY <2>2 DEF Refresh, PatchAnswered, RefreshFails
      <3> QED BY <3>1, <3>2 DEF TypeOK
    <2>3. CASE StoreRefreshed(k)
      <3>1. held' \in [Clients -> 0..made] /\ lost' \in [Clients -> Nat]
        BY <2>1, <2>3, LoseTyped DEF StoreRefreshed, TypeOK
      <3> QED BY <2>3, <3>1 DEF StoreRefreshed, TypeOK
    <2> QED BY <1>2, <2>2, <2>3 DEF Refreshing
  <1>3. ASSUME NEW k \in Clients, Closing(k) PROVE TypeOK'
    BY <1>3, ClosingTyped
  <1>4. ASSUME NEW k \in Clients, LatePost(k) PROVE TypeOK'
    BY <1>4, ServiceTyped DEF LatePost, TypeOK
  <1>5. CASE \E s \in lateDeletes : LateDelete(s)
    BY <1>5 DEF LateDelete, TypeOK
  <1>6. CASE \E s \in live : Expire(s)
    BY <1>6 DEF Expire, TypeOK
  <1> QED BY <1>1, <1>2, <1>3, <1>4, <1>5, <1>6, CreatingTyped DEF Next

(* Every variable stays within its type, and no create sends its POST more *)
(* than retry_max + 1 times.                                               *)
THEOREM Typing == Spec => []TypeOK
PROOF BY TypeInit, TypeStep, PTL DEF Spec

-----------------------------------------------------------------------------
(* A session is not made again, so what close has deleted stays deleted.   *)

LEMMA ClosedStep ==
  ASSUME TypeOK, ClosedIsGone, [Next]_vars
  PROVE  ClosedIsGone'
PROOF
  <1>1. ASSUME live' \subseteq live, UNCHANGED closed PROVE ClosedIsGone'
    BY <1>1 DEF ClosedIsGone
  <1>2. ASSUME NEW k \in Clients, MakeSession(k), UNCHANGED closed PROVE ClosedIsGone'
    <2>1. made + 1 \notin 1..made /\ \A j \in Clients : closed[j] \subseteq 1..made
      BY DEF TypeOK
    <2> QED BY <1>2, <2>1 DEF ClosedIsGone, MakeSession
  <1>3. ASSUME NEW k \in Clients, CloseOk(k) PROVE ClosedIsGone'
    <2>1. /\ closed'[k] = closed[k] \cup {closing[k]}
          /\ \A j \in Clients \ {k} : closed'[j] = closed[j]
      BY <1>3 DEF CloseOk, TypeOK
    <2> QED BY <1>3, <2>1 DEF ClosedIsGone, CloseOk
  <1>4. ASSUME NEW k \in Clients, Creating(k)
        PROVE  (UNCHANGED live \/ MakeSession(k)) /\ UNCHANGED closed
    BY <1>4 DEF Creating, Create, PostAnswered, PostLost, PostRefused, Store,
                DecodeFails, Abandon
  <1>5. ASSUME NEW k \in Clients, Refreshing(k) PROVE UNCHANGED live /\ UNCHANGED closed
    BY <1>5 DEF Refreshing, Refresh, PatchAnswered, RefreshFails, StoreRefreshed
  <1>6. ASSUME NEW k \in Clients, Closing(k), ~CloseOk(k)
        PROVE  live' \subseteq live /\ UNCHANGED closed
    BY <1>6 DEF Closing, Close, CloseUnheard, CloseFails
  <1>7. ASSUME NEW k \in Clients, LatePost(k)
        PROVE  (UNCHANGED live \/ MakeSession(k)) /\ UNCHANGED closed
    BY <1>7 DEF LatePost
  <1>8. CASE \/ UNCHANGED vars
             \/ \E s \in lateDeletes : LateDelete(s)
             \/ \E s \in live : Expire(s)
    BY <1>1, <1>8 DEF vars, LateDelete, Expire
  <1> QED BY <1>1, <1>2, <1>3, <1>4, <1>5, <1>6, <1>7, <1>8 DEF Next

(* What close has deleted is never there again.                            *)
THEOREM ClosedForGood == Spec => []ClosedIsGone
PROOF
  <1>1. Init => ClosedIsGone
    BY DEF Init, ClosedIsGone
  <1> QED BY <1>1, TypeInit, TypeStep, ClosedStep, PTL DEF Spec

-----------------------------------------------------------------------------
(* A client that has lost nothing knows every session it has made: it has  *)
(* made one, and everything it remembers is that one.                      *)
Remembers(k) ==
  /\ pc[k] \notin {"open", "gone"} => closed[k] = {} /\ closing[k] = NoClose
  /\ patch[k] # "idle" => pc[k] = "open"
  /\ patch[k] = "storing" => answer[k] = held[k]
  /\ lost[k] = 0 =>
       /\ latePosts[k] = 0
       /\ closing[k] \in {NoClose, held[k]}
       /\ closed[k] \subseteq {held[k]}
       /\ \A s \in live : maker[s] = k =>
            \/ pc[k] = "decoding" /\ s = answer[k]
            \/ pc[k] \in {"open", "gone"} /\ s = held[k]

Memory == \A k \in Clients : Remembers(k)

LEMMA MemoryInit == Init => Memory
PROOF BY DEF Init, Memory, Remembers

(* Another client's step, and the loss of a session, disturb nothing.      *)
LEMMA Undisturbed ==
  ASSUME TypeOK, NEW k \in Clients, Remembers(k),
         UNCHANGED <<pc[k], answer[k], held[k], patch[k], closing[k], latePosts[k],
                     lost[k], closed[k]>>,
         \/ live' \subseteq live /\ UNCHANGED maker
         \/ \E j \in Clients : MakeSession(j) /\ (j = k => lost[k] # 0)
  PROVE  Remembers(k)'
PROOF
  <1>1. CASE live' \subseteq live /\ UNCHANGED maker
    BY <1>1 DEF Remembers
  <1>2. ASSUME NEW j \in Clients, MakeSession(j), j = k => lost[k] # 0
        PROVE  Remembers(k)'
    <2>1. CASE lost[k] # 0
      BY <2>1 DEF Remembers
    <2>2. ASSUME j # k, NEW s \in live', maker'[s] = k PROVE s \in live /\ maker[s] = k
      <3>1. made + 1 \in Ids /\ maker'[made + 1] = j
        BY <1>2, MadeTyped
      <3>2. s # made + 1
        BY <2>2, <3>1
      <3> QED BY <1>2, <2>2, <3>2 DEF MakeSession, TypeOK
    <2> QED BY <1>2, <2>1, <2>2 DEF Remembers
  <1> QED BY <1>1, <1>2

LEMMA MemoryStep ==
  ASSUME TypeOK, Memory, [Next]_vars
  PROVE  Memory'
PROOF
  <1> SUFFICES ASSUME NEW k \in Clients PROVE Remembers(k)'
    BY DEF Memory
  <1> Remembers(k)
    BY DEF Memory
  <1>1. CASE \/ UNCHANGED vars
             \/ \E s \in lateDeletes : LateDelete(s)
             \/ \E s \in live : Expire(s)
    BY <1>1, Undisturbed DEF vars, LateDelete, Expire
  <1>2. ASSUME NEW j \in Clients \ {k}, Creating(j) \/ LatePost(j) PROVE Remembers(k)'
    <2>1. UNCHANGED <<pc[k], answer[k], held[k], patch[k], closing[k], latePosts[k],
                      lost[k], closed[k]>>
      BY <1>2 DEF Creating, Create, PostAnswered, PostLost, Retry, PostRefused, Store,
                  DecodeFails, Abandon, LatePost, Goto, Lose, TypeOK
    <2>2. UNCHANGED service \/ MakeSession(j)
      BY <1>2 DEF Creating, Create, PostAnswered, PostLost, PostRefused, Store,
                  DecodeFails, Abandon, LatePost
    <2> QED BY <2>1, <2>2, Undisturbed
  <1>3. ASSUME NEW j \in Clients \ {k}, Refreshing(j) \/ Closing(j) PROVE Remembers(k)'
    <2>1. UNCHANGED <<pc[k], answer[k], held[k], patch[k], closing[k], latePosts[k],
                      lost[k], closed[k]>>
      BY <1>3 DEF Refreshing, Refresh, PatchAnswered, RefreshFails, StoreRefreshed, Closing,
                  Close, CloseOk, CloseUnheard, CloseFails, Lose, TypeOK
    <2>2. live' \subseteq live /\ UNCHANGED maker
      BY <1>3 DEF Refreshing, Refresh, PatchAnswered, RefreshFails, StoreRefreshed, Closing,
                  Close, CloseOk, CloseUnheard, CloseFails
    <2> QED BY <2>1, <2>2, Undisturbed
  <1>4. CASE Creating(k)
    <2>1. CASE Create(k) \/ PostRefused(k)
      BY <2>1 DEF Create, PostRefused, Goto, Remembers, TypeOK
    <2>2. CASE PostAnswered(k)
      <3>1. ASSUME lost[k] = 0, NEW s \in live', maker'[s] = k PROVE s = made + 1
        BY <2>2, <3>1 DEF PostAnswered, MakeSession, Remembers, TypeOK
      <3> QED BY <2>2, <3>1 DEF PostAnswered, Goto, Remembers, TypeOK
    <2>3. CASE PostLost(k)
      <3>1. /\ UNCHANGED <<answer, held, patch, closing, closed>>
            /\ pc[k] = "posting" /\ pc'[k] \in {"posting", "gone"}
        BY <2>3 DEF PostLost, Retry, Goto, TypeOK
      <3>2. CASE Lose(k)
        BY <3>1, <3>2 DEF Lose, Remembers, TypeOK
      <3>3. CASE UNCHANGED <<service, latePosts, lost>>
        BY <3>1, <3>3 DEF Remembers
      <3> QED BY <2>3, <3>2, <3>3 DEF PostLost
    <2>4. CASE Store(k)
      BY <2>4 DEF Store, Goto, Lose, Remembers, TypeOK
    <2>5. CASE DecodeFails(k)
      BY <2>5 DEF DecodeFails, Goto, Lose, Remembers, TypeOK
    <2>6. CASE Abandon(k)
      BY <2>6 DEF Abandon, Goto, Lose, Remembers, TypeOK
    <2> QED BY <1>4, <2>1, <2>2, <2>3, <2>4, <2>5, <2>6 DEF Creating
  <1>5. CASE Refreshing(k)
    <2>1. CASE Refresh(k) \/ PatchAnswered(k) \/ RefreshFails(k)
      <3>1. /\ patch'[k] # "idle" => pc[k] = "open"
            /\ patch'[k] = "storing" => answer'[k] = held[k]
        BY <2>1 DEF Refresh, PatchAnswered, RefreshFails, Remembers, TypeOK
      <3>2. /\ UNCHANGED <<service, pc, held, closing, latePosts, lost, closed>>
            /\ answer'[k] = answer[k] \/ pc[k] = "open"
        BY <2>1 DEF Refresh, PatchAnswered, RefreshFails, Remembers, TypeOK
      <3> QED BY <3>1, <3>2 DEF Remembers
    <2>2. CASE StoreRefreshed(k)
      <3>1. \/ UNCHANGED <<lost, held>>
            \/ lost'[k] # 0
        BY <2>2 DEF StoreRefreshed, Lose, Remembers, TypeOK
      <3>2. patch'[k] = "idle" /\ patch[k] # "idle"
            /\ UNCHANGED <<service, creation, closing, latePosts, lateDeletes, closed>>
        BY <2>2 DEF StoreRefreshed, TypeOK
      <3> QED BY <3>1, <3>2 DEF Remembers
    <2> QED BY <1>5, <2>1, <2>2 DEF Refreshing
  <1>6. CASE Closing(k)
    <2>1. /\ UNCHANGED <<pc, answer, held, patch, lost, latePosts, maker>>
          /\ live' \subseteq live
      BY <1>6 DEF Closing, Close, CloseOk, CloseUnheard, CloseFails
    <2>2. CASE CloseOk(k)
      <3>1. /\ closing[k] # NoClose /\ closing'[k] = NoClose
            /\ closed'[k] = closed[k] \cup {closing[k]}
        BY <2>2 DEF CloseOk, TypeOK
      <3> QED BY <2>1, <3>1 DEF Remembers
    <2>3. CASE Close(k)
      <3>1. pc[k] = "open" /\ closing'[k] = held[k] /\ UNCHANGED closed
        BY <2>3 DEF Close, TypeOK
      <3> QED BY <2>1, <3>1 DEF Remembers
    <2>4. CASE CloseUnheard(k) \/ CloseFails(k)
      <3>1. closing'[k] \in {closing[k], NoClose} /\ UNCHANGED closed
        BY <2>4 DEF CloseUnheard, CloseFails, TypeOK
      <3> QED BY <2>1, <3>1 DEF Remembers
    <2> QED BY <1>6, <2>2, <2>3, <2>4 DEF Closing
  <1>7. CASE LatePost(k)
    BY <1>7, Undisturbed DEF LatePost, Remembers, TypeOK
  <1> QED BY <1>1, <1>2, <1>3, <1>4, <1>5, <1>6, <1>7 DEF Next

(* Once close has returned Ok, a client whose POSTs were all answered has  *)
(* no session left on the service.                                         *)
THEOREM NothingLeft == Spec => []NothingLeftBehind
PROOF
  <1>1. Memory /\ ClosedIsGone => NothingLeftBehind
    BY DEF Memory, Remembers, ClosedIsGone, NothingLeftBehind
  <1>2. Init => ClosedIsGone
    BY DEF Init, ClosedIsGone
  <1> QED BY <1>1, <1>2, TypeInit, TypeStep, ClosedStep, MemoryInit, MemoryStep, PTL DEF Spec

-----------------------------------------------------------------------------
(* Each session a client leaves behind is one of the attempts it has lost, *)
(* as is each late POST of its, and the attempt that has given it the      *)
(* session it holds is not among them.                                     *)
Holding(k) == IF pc[k] = "decoding" \/ held[k] # Nil THEN 1 ELSE 0

Counted(k) ==
  /\ Cardinality(Leftovers(k)) + latePosts[k] <= lost[k]
  /\ lost[k] + Holding(k) <= tries[k]
  /\ pc[k] \in {"new", "posting", "decoding"} => held[k] = Nil
  /\ patch[k] # "idle" => pc[k] = "open"
  /\ patch[k] = "storing" => answer[k] = held[k] /\ held[k] # Nil

Account == \A k \in Clients : Counted(k)

LEMMA LeftoversFinite ==
  ASSUME TypeOK, NEW k \in Clients
  PROVE  IsFiniteSet(Leftovers(k)) /\ Cardinality(Leftovers(k)) \in Nat
PROOF
  <1>1. IsFiniteSet(1..made)
    BY FS_Interval DEF TypeOK
  <1>2. Leftovers(k) \in SUBSET (1..made)
    BY DEF Leftovers, TypeOK
  <1> QED BY <1>1, <1>2, FS_Subset, FS_CardinalityType

LEMMA NoMore ==
  ASSUME TypeOK, NEW k \in Clients, Leftovers(k)' \subseteq Leftovers(k)
  PROVE  Cardinality(Leftovers(k))' \in Nat /\ Cardinality(Leftovers(k))' <= Cardinality(Leftovers(k))
PROOF BY LeftoversFinite, FS_Subset, FS_CardinalityType

LEMMA OneMore ==
  ASSUME TypeOK, NEW k \in Clients, NEW s, Leftovers(k)' \subseteq Leftovers(k) \cup {s}
  PROVE  /\ Cardinality(Leftovers(k))' \in Nat
         /\ Cardinality(Leftovers(k))' <= Cardinality(Leftovers(k)) + 1
PROOF
  <1>1. /\ IsFiniteSet(Leftovers(k) \cup {s})
        /\ Cardinality(Leftovers(k) \cup {s}) \in Nat
        /\ Cardinality(Leftovers(k) \cup {s}) <= Cardinality(Leftovers(k)) + 1
    BY LeftoversFinite, FS_AddElement, FS_CardinalityType
  <1>2. /\ IsFiniteSet(Leftovers(k)')
        /\ Cardinality(Leftovers(k)') <= Cardinality(Leftovers(k) \cup {s})
    BY <1>1, FS_Subset
  <1>3. Cardinality(Leftovers(k)') \in Nat
    BY <1>2, FS_CardinalityType
  <1> QED BY <1>1, <1>2, <1>3, LeftoversFinite

(* What a session made, or the loss of some, means for those left over.    *)
LEMMA LeftoversAfterMaking ==
  ASSUME TypeOK, NEW j \in Clients, MakeSession(j), NEW k \in Clients,
         UNCHANGED <<pc[k], answer[k], held[k]>>
  PROVE  Leftovers(k)' \subseteq Leftovers(k) \cup (IF j = k THEN {made + 1} ELSE {})
PROOF
  <1>1. /\ live' = live \cup {made + 1}
        /\ maker'[made + 1] = j /\ made + 1 \in Ids
        /\ \A s \in live : s # made + 1 /\ maker'[s] = maker[s]
    <2>1. live' = live \cup {made + 1} /\ maker'[made + 1] = j /\ made + 1 \in Ids
      BY MadeTyped DEF MakeSession
    <2>2. \A s \in live : s # made + 1
      BY DEF TypeOK
    <2>3. \A s \in live : maker'[s] = maker[s]
      BY <2>2 DEF MakeSession, TypeOK, Ids
    <2> QED BY <2>1, <2>2, <2>3
  <1>2. ASSUME NEW s \in Leftovers(k)', ~(j = k /\ s = made + 1) PROVE s \in Leftovers(k)
    <2>1. s # made + 1
      BY <1>1, <1>2 DEF Leftovers
    <2>2. s \in live /\ maker[s] = k
      BY <1>1, <1>2, <2>1 DEF Leftovers
    <2> QED BY <1>2, <2>2 DEF Leftovers
  <1> QED BY <1>2

LEMMA LeftoversAfterLoss ==
  ASSUME NEW k \in Clients, UNCHANGED <<pc[k], answer[k], held[k], maker>>, live' \subseteq live
  PROVE  Leftovers(k)' \subseteq Leftovers(k)
PROOF BY DEF Leftovers

(* Steps that leave the client's own state alone.                          *)
LEMMA CountedStill ==
  ASSUME TypeOK, NEW k \in Clients, Counted(k), Leftovers(k)' \subseteq Leftovers(k),
         UNCHANGED <<pc[k], answer[k], held[k], patch[k], tries[k], latePosts[k], lost[k]>>
  PROVE  Counted(k)'
PROOF
  <1>1. latePosts[k] \in Nat /\ lost[k] \in Nat /\ Cardinality(Leftovers(k)) \in Nat
    BY LeftoversFinite DEF TypeOK
  <1> QED BY <1>1, NoMore DEF Counted, Holding

LEMMA PostingCounted ==
  ASSUME TypeOK, NEW k \in Clients, Counted(k), PostAnswered(k) \/ PostLost(k) \/ PostRefused(k) \/ Create(k)
  PROVE  Counted(k)'
PROOF
  <1>0. /\ latePosts[k] \in Nat /\ lost[k] \in Nat /\ tries[k] \in Nat
        /\ Cardinality(Leftovers(k)) \in Nat
    BY LeftoversFinite DEF TypeOK
  <1>1. /\ pc[k] \in {"new", "posting"} /\ held[k] = Nil /\ patch[k] = "idle"
        /\ UNCHANGED <<held, patch>>
    BY DEF PostAnswered, PostLost, PostRefused, Create, Counted
  <1>2. CASE PostAnswered(k)
    <2>1. Leftovers(k)' \subseteq Leftovers(k)
      <3>1. /\ pc'[k] = "decoding" /\ answer'[k] = made + 1
            /\ live' = live \cup {made + 1}
            /\ \A s \in live : s # Nil /\ maker'[s] = maker[s]
        BY <1>2 DEF PostAnswered, Goto, MakeSession, TypeOK
      <3> QED BY <1>1, <3>1 DEF Leftovers
    <2>2. tries'[k] = tries[k] + 1 /\ pc'[k] = "decoding" /\ UNCHANGED <<latePosts, lost>>
      BY <1>2 DEF PostAnswered, Goto, TypeOK
    <2> QED BY <1>0, <1>1, <2>1, <2>2, <1>2, NoMore DEF Counted, Holding, PostAnswered
  <1>3. CASE PostLost(k)
    <2>1. /\ tries'[k] = tries[k] + 1 /\ pc[k] = "posting" /\ pc'[k] \in {"posting", "gone"}
          /\ UNCHANGED answer
      BY <1>3 DEF PostLost, Retry, Goto, TypeOK
    <2>2. CASE MakeSession(k) /\ Lose(k) /\ UNCHANGED latePosts
      <3>1. Leftovers(k)' \subseteq Leftovers(k) \cup {made + 1}
        <4>1. /\ live' = live \cup {made + 1}
              /\ \A s \in live : maker'[s] = maker[s]
          BY <2>2 DEF MakeSession, TypeOK
        <4> QED BY <1>1, <2>1, <4>1 DEF Leftovers
      <3>2. lost'[k] = lost[k] + 1
        BY <2>2 DEF Lose, TypeOK
      <3>3. /\ Cardinality(Leftovers(k))' \in Nat
            /\ Cardinality(Leftovers(k))' <= Cardinality(Leftovers(k)) + 1
        BY <3>1, OneMore
      <3> QED BY <1>0, <1>1, <2>1, <2>2, <3>2, <3>3 DEF Counted, Holding
    <2>3. CASE latePosts' = [latePosts EXCEPT ![k] = @ + 1] /\ Lose(k) /\ UNCHANGED service
      <3>1. latePosts'[k] = latePosts[k] + 1 /\ lost'[k] = lost[k] + 1
        BY <2>3 DEF Lose, TypeOK
      <3>2. Leftovers(k)' \subseteq Leftovers(k)
        BY <1>1, <2>1, <2>3 DEF Leftovers
      <3> QED BY <1>0, <1>1, <2>1, <3>1, <3>2, NoMore DEF Counted, Holding
    <2>4. CASE UNCHANGED <<service, latePosts, lost>>
      <3>1. Leftovers(k)' \subseteq Leftovers(k)
        BY <1>1, <2>1, <2>4 DEF Leftovers
      <3> QED BY <1>0, <1>1, <2>1, <2>4, <3>1, NoMore DEF Counted, Holding
    <2> QED BY <1>3, <2>2, <2>3, <2>4 DEF PostLost
  <1>4. CASE PostRefused(k) \/ Create(k)
    <2>1. /\ pc'[k] \in {"posting", "gone"} /\ tries'[k] \in {tries[k], tries[k] + 1}
          /\ UNCHANGED <<service, answer, latePosts, lost>>
      BY <1>4 DEF PostRefused, Create, Goto, TypeOK
    <2>2. Leftovers(k)' \subseteq Leftovers(k)
      BY <1>1, <2>1 DEF Leftovers
    <2> QED BY <1>0, <1>1, <2>1, <2>2, NoMore DEF Counted, Holding
  <1> QED BY <1>2, <1>3, <1>4

LEMMA AnsweredCounted ==
  ASSUME TypeOK, NEW k \in Clients, Counted(k), Store(k) \/ DecodeFails(k) \/ Abandon(k)
  PROVE  Counted(k)'
PROOF
  <1>0. /\ latePosts[k] \in Nat /\ lost[k] \in Nat /\ tries[k] \in Nat
        /\ Cardinality(Leftovers(k)) \in Nat
    BY LeftoversFinite DEF TypeOK
  <1>1. CASE pc[k] = "decoding" /\ Lose(k) /\ UNCHANGED <<tries, held, latePosts, live, maker>>
             /\ pc'[k] \in {"open", "gone"} /\ patch'[k] = "idle"
    <2>1. lost'[k] = lost[k] + 1 /\ held'[k] = Nil
      BY <1>1 DEF Lose, Counted, TypeOK
    <2>2. Leftovers(k)' \subseteq Leftovers(k) \cup {answer[k]}
      BY <1>1 DEF Leftovers
    <2> QED BY <1>0, <1>1, <2>1, <2>2, OneMore DEF Counted, Holding
  <1>2. CASE Store(k)
    <2>1. pc[k] = "decoding" /\ pc'[k] = "open" /\ patch[k] = "idle"
          /\ UNCHANGED <<service, tries, answer, patch, latePosts>>
      BY <1>2 DEF Store, Goto, Counted, TypeOK
    <2>2. CASE held' = [held EXCEPT ![k] = answer[k]] /\ UNCHANGED lost
      <3>1. held'[k] = answer[k]
        BY <2>2 DEF TypeOK
      <3>2. Leftovers(k)' \subseteq Leftovers(k)
        BY <2>1, <3>1 DEF Leftovers
      <3> QED BY <1>0, <2>1, <2>2, <3>1, <3>2, NoMore DEF Counted, Holding
    <2>3. CASE Lose(k) /\ UNCHANGED held
      BY <1>1, <2>1, <2>3
    <2> QED BY <1>2, <2>2, <2>3 DEF Store
  <1>3. CASE DecodeFails(k)
    <2>1. pc[k] = "decoding" /\ pc'[k] = "gone" /\ Lose(k) /\ patch'[k] = "idle"
          /\ UNCHANGED <<service, tries, held, latePosts>>
      BY <1>3 DEF DecodeFails, Goto, Counted, TypeOK
    <2> QED BY <1>1, <2>1
  <1>4. CASE Abandon(k)
    <2>1. pc'[k] = "gone" /\ patch'[k] = "idle" /\ UNCHANGED <<service, answer, held>>
      BY <1>4 DEF Abandon, Goto, TypeOK
    <2>2. CASE pc[k] = "posting" /\ latePosts' = [latePosts EXCEPT ![k] = @ + 1]
               /\ tries' = [tries EXCEPT ![k] = @ + 1] /\ Lose(k)
      <3>1. latePosts'[k] = latePosts[k] + 1 /\ tries'[k] = tries[k] + 1 /\ lost'[k] = lost[k] + 1
        BY <2>2 DEF Lose, TypeOK
      <3>2. Leftovers(k)' \subseteq Leftovers(k)
        BY <2>1, <2>2 DEF Leftovers
      <3> QED BY <1>0, <2>1, <2>2, <3>1, <3>2, NoMore DEF Counted, Holding
    <2>3. CASE pc[k] = "decoding" /\ Lose(k) /\ UNCHANGED <<tries, latePosts>>
      BY <1>1, <2>1, <2>3
    <2>4. CASE pc[k] = "open" /\ UNCHANGED <<tries, latePosts, lost>>
      <3>1. Leftovers(k)' \subseteq Leftovers(k)
        BY <2>1, <2>4 DEF Leftovers
      <3> QED BY <1>0, <2>1, <2>4, <3>1, NoMore DEF Counted, Holding
    <2> QED BY <1>4, <2>2, <2>3, <2>4 DEF Abandon
  <1> QED BY <1>2, <1>3, <1>4

LEMMA RefreshingCounted ==
  ASSUME TypeOK, NEW k \in Clients, Counted(k), Refreshing(k)
  PROVE  Counted(k)'
PROOF
  <1>0. /\ latePosts[k] \in Nat /\ lost[k] \in Nat /\ tries[k] \in Nat
        /\ Cardinality(Leftovers(k)) \in Nat
    BY LeftoversFinite DEF TypeOK
  <1>1. CASE Refresh(k) \/ PatchAnswered(k) \/ RefreshFails(k)
    <2>1. /\ pc[k] = "open"
          /\ UNCHANGED <<service, pc, tries, held, latePosts, lost>>
      BY <1>1 DEF Refresh, PatchAnswered, RefreshFails, Counted
    <2>2. patch'[k] = "storing" => answer'[k] = held[k] /\ held[k] # Nil
      BY <1>1 DEF Refresh, PatchAnswered, RefreshFails, TypeOK
    <2>3. Leftovers(k)' \subseteq Leftovers(k)
      BY <2>1 DEF Leftovers
    <2> QED BY <1>0, <2>1, <2>2, <2>3, NoMore DEF Counted, Holding
  <1>2. CASE StoreRefreshed(k)
    <2>1. /\ pc[k] = "open" /\ answer[k] = held[k] /\ held[k] # Nil /\ patch'[k] = "idle"
          /\ UNCHANGED <<service, pc, tries, answer, latePosts>>
      BY <1>2 DEF StoreRefreshed, Counted, TypeOK
    <2>2. CASE held' = [held EXCEPT ![k] = answer[k]] /\ UNCHANGED lost
      <3>1. held'[k] = held[k]
        BY <2>1, <2>2 DEF TypeOK
      <3>2. Leftovers(k)' \subseteq Leftovers(k)
        BY <2>1, <3>1 DEF Leftovers
      <3> QED BY <1>0, <2>1, <2>2, <3>1, <3>2, NoMore DEF Counted, Holding
    <2>3. CASE held' = [held EXCEPT ![k] = Nil] /\ Lose(k)
      <3>1. held'[k] = Nil /\ lost'[k] = lost[k] + 1
        BY <2>3 DEF Lose, TypeOK
      <3>2. Leftovers(k)' \subseteq Leftovers(k) \cup {held[k]}
        BY <2>1, <3>1 DEF Leftovers
      <3>3. /\ Cardinality(Leftovers(k))' \in Nat
            /\ Cardinality(Leftovers(k))' <= Cardinality(Leftovers(k)) + 1
        BY <3>2, OneMore
      <3> QED BY <1>0, <2>1, <3>1, <3>3 DEF Counted, Holding
    <2> QED BY <1>2, <2>2, <2>3 DEF StoreRefreshed
  <1> QED BY <1>1, <1>2 DEF Refreshing

LEMMA LatePostCounted ==
  ASSUME TypeOK, NEW k \in Clients, Counted(k), LatePost(k)
  PROVE  Counted(k)'
PROOF
  <1>0. /\ latePosts[k] \in Nat /\ lost[k] \in Nat /\ Cardinality(Leftovers(k)) \in Nat
    BY LeftoversFinite DEF TypeOK
  <1>1. latePosts[k] > 0 /\ latePosts'[k] = latePosts[k] - 1 /\ UNCHANGED <<creation, held, patch, lost>>
    BY DEF LatePost, TypeOK
  <1>2. CASE MakeSession(k)
    <2>1. Leftovers(k)' \subseteq Leftovers(k) \cup {made + 1}
      BY <1>1, <1>2, LeftoversAfterMaking
    <2>2. /\ Cardinality(Leftovers(k))' \in Nat
          /\ Cardinality(Leftovers(k))' <= Cardinality(Leftovers(k)) + 1
      BY <2>1, OneMore
    <2> QED BY <1>0, <1>1, <2>2 DEF Counted, Holding
  <1>3. CASE UNCHANGED service
    <2>1. Leftovers(k)' \subseteq Leftovers(k)
      BY <1>1, <1>3 DEF Leftovers
    <2> QED BY <1>0, <1>1, <2>1, NoMore DEF Counted, Holding
  <1> QED BY <1>2, <1>3 DEF LatePost

LEMMA AccountStep ==
  ASSUME TypeOK, Account, [Next]_vars
  PROVE  Account'
PROOF
  <1> SUFFICES ASSUME NEW k \in Clients PROVE Counted(k)'
    BY DEF Account
  <1> Counted(k)
    BY DEF Account
  <1>1. CASE \/ UNCHANGED vars
             \/ \E s \in lateDeletes : LateDelete(s)
             \/ \E s \in live : Expire(s)
    BY <1>1, LeftoversAfterLoss, CountedStill DEF vars, LateDelete, Expire
  <1>2. ASSUME NEW j \in Clients \ {k}, Creating(j) \/ LatePost(j) PROVE Counted(k)'
    <2>1. UNCHANGED <<pc[k], answer[k], held[k], patch[k], tries[k], latePosts[k], lost[k]>>
      BY <1>2 DEF Creating, Create, PostAnswered, PostLost, Retry, PostRefused, Store,
                  DecodeFails, Abandon, LatePost, Goto, Lose, TypeOK
    <2>2. UNCHANGED service \/ MakeSession(j)
      BY <1>2 DEF Creating, Create, PostAnswered, PostLost, PostRefused, Store,
                  DecodeFails, Abandon, LatePost
    <2>3. Leftovers(k)' \subseteq Leftovers(k)
      BY <2>1, <2>2, LeftoversAfterMaking, LeftoversAfterLoss
    <2> QED BY <2>1, <2>3, CountedStill
  <1>3. ASSUME NEW j \in Clients, (j # k /\ Refreshing(j)) \/ Closing(j) PROVE Counted(k)'
    <2>1. UNCHANGED <<pc[k], answer[k], held[k], patch[k], tries[k], latePosts[k], lost[k]>>
      BY <1>3 DEF Refreshing, Refresh, PatchAnswered, RefreshFails, StoreRefreshed, Closing,
                  Close, CloseOk, CloseUnheard, CloseFails, Lose, TypeOK
    <2>2. live' \subseteq live /\ UNCHANGED maker
      BY <1>3 DEF Refreshing, Refresh, PatchAnswered, RefreshFails, StoreRefreshed, Closing,
                  Close, CloseOk, CloseUnheard, CloseFails
    <2> QED BY <2>1, <2>2, LeftoversAfterLoss, CountedStill
  <1>4. CASE Creating(k)
    BY <1>4, PostingCounted, AnsweredCounted DEF Creating
  <1> QED BY <1>1, <1>2, <1>3, <1>4, RefreshingCounted, LatePostCounted DEF Next

(* No client leaves more sessions behind than it has lost attempts, of     *)
(* which there are at most retry_max + 1.                                  *)
THEOREM BoundedLeftovers == Spec => []LeftoversBounded
PROOF
  <1>1. Init => Account
    <2> SUFFICES ASSUME Init, NEW k \in Clients PROVE Counted(k)
      BY DEF Account
    <2>1. Leftovers(k) = {}
      BY DEF Init, Leftovers
    <2> QED BY <2>1, FS_EmptySet DEF Init, Counted, Holding
  <1>2. TypeOK /\ Account => LeftoversBounded
    <2> SUFFICES ASSUME TypeOK, Account, NEW k \in Clients
                 PROVE  Cardinality(Leftovers(k)) <= lost[k] /\ lost[k] <= RetryMax + 1
      BY DEF LeftoversBounded
    <2>1. /\ Cardinality(Leftovers(k)) + latePosts[k] <= lost[k]
          /\ lost[k] + Holding(k) <= tries[k] /\ Holding(k) \in {0, 1}
      BY DEF Account, Counted, Holding
    <2>2. /\ latePosts[k] \in Nat /\ lost[k] \in Nat /\ tries[k] \in 0..RetryMax + 1
          /\ Cardinality(Leftovers(k)) \in Nat
      BY LeftoversFinite DEF TypeOK
    <2> QED BY <2>1, <2>2
  <1> QED BY <1>1, <1>2, TypeInit, TypeStep, AccountStep, PTL DEF Spec
=============================================================================
