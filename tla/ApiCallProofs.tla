----------------------------- MODULE ApiCallProofs -----------------------------
(***************************************************************************)
(* What kinds and which status the error of a call has.  has_kind and      *)
(* status look through the layers of an error one by one; the lemmas say   *)
(* what each layer adds, and map_response_error is a stack of them.  What  *)
(* a scale set is sent as: its labels and its time.  What a batch of job   *)
(* messages is read as, by induction over the batch.                       *)
(***************************************************************************)
EXTENDS ApiCall, WellFoundedInduction, TLAPS

(* A layer put around an error adds its own kind, and lets through those   *)
(* of the error if it has a source.                                        *)
LEMMA KindOfLayer ==
  ASSUME NEW S, NEW x \in S, NEW e \in Seq(S), NEW k
  PROVE  HasKind(<<x>> \o e, k) <=>
           \/ x.tag \in {"Kind", "Classified"} /\ x.kind = k
           \/ x.tag \in {"Classified", "Context", "Http"} /\ HasKind(e, k)
<1> DEFINE d == <<x>> \o e
<1>1. d \in Seq(S) /\ Len(d) = Len(e) + 1 /\ Len(e) \in Nat /\ d[1] = x
  OBVIOUS
<1>2. \A i \in 1..Len(e) : d[i + 1] = e[i]
  OBVIOUS
<1>3. DOMAIN d = 1..Len(d) /\ DOMAIN e = 1..Len(e)
  BY <1>1
<1> HIDE DEF d
<1>4. ASSUME HasKind(d, k)
      PROVE  \/ x.tag \in {"Kind", "Classified"} /\ x.kind = k
             \/ x.tag \in {"Classified", "Context", "Http"} /\ HasKind(e, k)
  <2>1. PICK i \in DOMAIN d :
          /\ d[i].tag \in {"Kind", "Classified"} /\ d[i].kind = k
          /\ \A j \in 1..i - 1 : d[j].tag \in {"Classified", "Context", "Http"}
    BY <1>4 DEF HasKind
  <2>2. CASE i = 1
    BY <2>1, <2>2, <1>1
  <2>3. CASE i # 1
    <3>1. i - 1 \in 1..Len(e) /\ i - 1 \in DOMAIN e /\ d[i] = e[i - 1]
      BY <2>3, <1>1, <1>2, <1>3
    <3>2. x.tag \in {"Classified", "Context", "Http"}
      BY <2>1, <2>3, <1>1, <1>3
    <3>3. \A j \in 1..(i - 1) - 1 : e[j].tag \in {"Classified", "Context", "Http"}
      <4> SUFFICES ASSUME NEW j \in 1..(i - 1) - 1
                   PROVE  e[j].tag \in {"Classified", "Context", "Http"}
        OBVIOUS
      <4>1. j + 1 \in 1..i - 1 /\ j \in 1..Len(e)
        BY <3>1, <1>1
      <4> QED BY <4>1, <2>1, <1>2
    <3> QED BY <2>1, <3>1, <3>2, <3>3 DEF HasKind
  <2> QED BY <2>2, <2>3
<1>5. ASSUME x.tag \in {"Kind", "Classified"}, x.kind = k
      PROVE  HasKind(d, k)
  <2>1. 1 \in DOMAIN d /\ (\A j \in 1..1 - 1 : d[j].tag \in {"Classified", "Context", "Http"})
    BY <1>1, <1>3
  <2> QED BY <1>1, <1>5, <2>1 DEF HasKind
<1>6. ASSUME x.tag \in {"Classified", "Context", "Http"}, HasKind(e, k)
      PROVE  HasKind(d, k)
  <2>1. PICK i \in DOMAIN e :
          /\ e[i].tag \in {"Kind", "Classified"} /\ e[i].kind = k
          /\ \A j \in 1..i - 1 : e[j].tag \in {"Classified", "Context", "Http"}
    BY <1>6 DEF HasKind
  <2>2. i + 1 \in DOMAIN d /\ d[i + 1] = e[i]
    BY <1>1, <1>2, <1>3
  <2>3. \A j \in 1..(i + 1) - 1 : d[j].tag \in {"Classified", "Context", "Http"}
    <3> SUFFICES ASSUME NEW j \in 1..(i + 1) - 1
                 PROVE  d[j].tag \in {"Classified", "Context", "Http"}
      OBVIOUS
    <3>1. CASE j = 1
      BY <3>1, <1>1, <1>6
    <3>2. CASE j # 1
      <4>1. j - 1 \in 1..i - 1 /\ j - 1 \in 1..Len(e) /\ d[(j - 1) + 1] = e[j - 1] /\ (j - 1) + 1 = j
        BY <3>2, <1>1, <1>2, <1>3
      <4> QED BY <4>1, <2>1
    <3> QED BY <3>1, <3>2
  <2> QED BY <2>1, <2>2, <2>3 DEF HasKind
<1> QED BY <1>4, <1>5, <1>6 DEF d

(* The status is that of the outermost answer, under contexts and kinds.   *)
LEMMA StatusOfLayer ==
  ASSUME NEW S, NEW x \in S, NEW e \in Seq(S), NEW s
  PROVE  HasStatus(<<x>> \o e, s) <=>
           \/ x.tag = "Http" /\ x.status = s
           \/ x.tag \in {"Classified", "Context"} /\ HasStatus(e, s)
<1> DEFINE d == <<x>> \o e
<1>1. d \in Seq(S) /\ Len(d) = Len(e) + 1 /\ Len(e) \in Nat /\ d[1] = x
  OBVIOUS
<1>2. \A i \in 1..Len(e) : d[i + 1] = e[i]
  OBVIOUS
<1>3. DOMAIN d = 1..Len(d) /\ DOMAIN e = 1..Len(e)
  BY <1>1
<1> HIDE DEF d
<1>4. ASSUME HasStatus(d, s)
      PROVE  \/ x.tag = "Http" /\ x.status = s
             \/ x.tag \in {"Classified", "Context"} /\ HasStatus(e, s)
  <2>1. PICK i \in DOMAIN d :
          /\ d[i].tag = "Http" /\ d[i].status = s
          /\ \A j \in 1..i - 1 : d[j].tag \in {"Classified", "Context"}
    BY <1>4 DEF HasStatus
  <2>2. CASE i = 1
    BY <2>1, <2>2, <1>1
  <2>3. CASE i # 1
    <3>1. i - 1 \in 1..Len(e) /\ i - 1 \in DOMAIN e /\ d[i] = e[i - 1]
      BY <2>3, <1>1, <1>2, <1>3
    <3>2. x.tag \in {"Classified", "Context"}
      BY <2>1, <2>3, <1>1, <1>3
    <3>3. \A j \in 1..(i - 1) - 1 : e[j].tag \in {"Classified", "Context"}
      <4> SUFFICES ASSUME NEW j \in 1..(i - 1) - 1
                   PROVE  e[j].tag \in {"Classified", "Context"}
        OBVIOUS
      <4>1. j + 1 \in 1..i - 1 /\ j \in 1..Len(e)
        BY <3>1, <1>1
      <4> QED BY <4>1, <2>1, <1>2
    <3> QED BY <2>1, <3>1, <3>2, <3>3 DEF HasStatus
  <2> QED BY <2>2, <2>3
<1>5. ASSUME x.tag = "Http", x.status = s
      PROVE  HasStatus(d, s)
  <2>1. 1 \in DOMAIN d /\ (\A j \in 1..1 - 1 : d[j].tag \in {"Classified", "Context"})
    BY <1>1, <1>3
  <2> QED BY <1>1, <1>5, <2>1 DEF HasStatus
<1>6. ASSUME x.tag \in {"Classified", "Context"}, HasStatus(e, s)
      PROVE  HasStatus(d, s)
  <2>1. PICK i \in DOMAIN e :
          /\ e[i].tag = "Http" /\ e[i].status = s
          /\ \A j \in 1..i - 1 : e[j].tag \in {"Classified", "Context"}
    BY <1>6 DEF HasStatus
  <2>2. i + 1 \in DOMAIN d /\ d[i + 1] = e[i]
    BY <1>1, <1>2, <1>3
  <2>3. \A j \in 1..(i + 1) - 1 : d[j].tag \in {"Classified", "Context"}
    <3> SUFFICES ASSUME NEW j \in 1..(i + 1) - 1
                 PROVE  d[j].tag \in {"Classified", "Context"}
      OBVIOUS
    <3>1. CASE j = 1
      BY <3>1, <1>1, <1>6
    <3>2. CASE j # 1
      <4>1. j - 1 \in 1..i - 1 /\ j - 1 \in 1..Len(e) /\ d[(j - 1) + 1] = e[j - 1] /\ (j - 1) + 1 = j
        BY <3>2, <1>1, <1>2, <1>3
      <4> QED BY <4>1, <2>1
    <3> QED BY <3>1, <3>2
  <2> QED BY <2>1, <2>2, <2>3 DEF HasStatus
<1> QED BY <1>4, <1>5, <1>6 DEF d

-----------------------------------------------------------------------------
(* The layers there are, and each constructor of an error by the two       *)
(* lemmas.                                                                 *)
Layers ==
  [tag : {"Message", "Context"}] \cup [tag : {"Kind", "Classified"}, kind : Kinds]
    \cup [tag : {"Http"}, status : Statuses]

LEMMA OfMessage ==
  ASSUME NEW k, NEW s
  PROVE  /\ Message \in Seq(Layers)
         /\ ~HasKind(Message, k) /\ ~HasStatus(Message, s)
<1>1. [tag |-> "Message"] \in Layers
  BY DEF Layers
<1>2. Message \in Seq(Layers) /\ DOMAIN Message = {1} /\ Message[1].tag = "Message"
  BY <1>1 DEF Message
<1> QED BY <1>2 DEF HasKind, HasStatus

LEMMA OfKind ==
  ASSUME NEW l \in Kinds, NEW k, NEW s
  PROVE  /\ Kind(l) \in Seq(Layers)
         /\ HasKind(Kind(l), k) <=> l = k
         /\ ~HasStatus(Kind(l), s)
<1>1. [tag |-> "Kind", kind |-> l] \in Layers
  BY DEF Layers
<1>2. Kind(l) \in Seq(Layers) /\ DOMAIN Kind(l) = {1} /\ Kind(l)[1].tag = "Kind" /\ Kind(l)[1].kind = l
  BY <1>1 DEF Kind
<1>3. HasKind(Kind(l), k) => l = k
  BY <1>2 DEF HasKind
<1>4. l = k => HasKind(Kind(l), k)
  <2>1. 1 \in DOMAIN Kind(l) /\ \A j \in 1..1 - 1 : Kind(l)[j].tag \in {"Classified", "Context", "Http"}
    BY <1>2
  <2> QED BY <1>2, <2>1 DEF HasKind
<1>5. ~HasStatus(Kind(l), s)
  BY <1>2 DEF HasStatus
<1> QED BY <1>2, <1>3, <1>4, <1>5

LEMMA OfContext ==
  ASSUME NEW e \in Seq(Layers), NEW k, NEW s
  PROVE  /\ Context(e) \in Seq(Layers)
         /\ HasKind(Context(e), k) <=> HasKind(e, k)
         /\ HasStatus(Context(e), s) <=> HasStatus(e, s)
<1> DEFINE x == [tag |-> "Context"]
<1>1. x \in Layers /\ x.tag = "Context"
  BY DEF Layers
<1>2. Context(e) = <<x>> \o e
  BY DEF Context
<1>3. <<x>> \o e \in Seq(Layers)
  BY <1>1
<1> HIDE DEF x
<1>4. HasKind(<<x>> \o e, k) <=> HasKind(e, k)
  BY <1>1, KindOfLayer
<1>5. HasStatus(<<x>> \o e, s) <=> HasStatus(e, s)
  BY <1>1, StatusOfLayer
<1> QED BY <1>2, <1>3, <1>4, <1>5

LEMMA OfClassified ==
  ASSUME NEW l \in Kinds, NEW e \in Seq(Layers), NEW k, NEW s
  PROVE  /\ Classified(l, e) \in Seq(Layers)
         /\ HasKind(Classified(l, e), k) <=> l = k \/ HasKind(e, k)
         /\ HasStatus(Classified(l, e), s) <=> HasStatus(e, s)
<1> DEFINE x == [tag |-> "Classified", kind |-> l]
<1>1. x \in Layers /\ x.tag = "Classified" /\ x.kind = l
  BY DEF Layers
<1>2. Classified(l, e) = <<x>> \o e
  BY DEF Classified
<1>3. <<x>> \o e \in Seq(Layers)
  BY <1>1
<1> HIDE DEF x
<1>4. HasKind(<<x>> \o e, k) <=> l = k \/ HasKind(e, k)
  BY <1>1, KindOfLayer
<1>5. HasStatus(<<x>> \o e, s) <=> HasStatus(e, s)
  BY <1>1, StatusOfLayer
<1> QED BY <1>2, <1>3, <1>4, <1>5

LEMMA OfHttp ==
  ASSUME NEW r \in Statuses, NEW e \in Seq(Layers), NEW k, NEW s
  PROVE  /\ Http(r, e) \in Seq(Layers)
         /\ HasKind(Http(r, e), k) <=> HasKind(e, k)
         /\ HasStatus(Http(r, e), s) <=> r = s
<1> DEFINE x == [tag |-> "Http", status |-> r]
<1>1. x \in Layers /\ x.tag = "Http" /\ x.status = r
  BY DEF Layers
<1>2. Http(r, e) = <<x>> \o e
  BY DEF Http
<1>3. <<x>> \o e \in Seq(Layers)
  BY <1>1
<1> HIDE DEF x
<1>4. HasKind(<<x>> \o e, k) <=> HasKind(e, k)
  BY <1>1, KindOfLayer
<1>5. HasStatus(<<x>> \o e, s) <=> r = s
  BY <1>1, StatusOfLayer
<1> QED BY <1>2, <1>3, <1>4, <1>5

(* What the answer alone says of an error: map_response_error without and  *)
(* with a seed.                                                            *)
BodyKinds(a) == IF a.text THEN {} ELSE {ExceptionKind[x] : x \in {a.body} \cap DOMAIN ExceptionKind}
StatusKinds(a) == {StatusKind[r] : r \in {a.status} \cap DOMAIN StatusKind}

LEMMA KindFacts ==
  ASSUME NEW a \in Answers
  PROVE  /\ ExpiredToken \in Kinds /\ None \notin Kinds
         /\ BodyKinds(a) \subseteq Kinds \ {ExpiredToken}
         /\ StatusKinds(a) \subseteq Kinds \ {ExpiredToken}
         /\ a.status \in Statuses /\ a.status \in Nat \ {0}
<1>1. ExpiredToken \in Kinds /\ None \notin Kinds
  BY ErrorKindsAssumption DEF Kinds
<1>2. a.status \in Statuses /\ a.status \in Nat \ {0}
  BY ApiCallAssumption DEF Answers, AnswersWith
<1>3. \A x \in DOMAIN ExceptionKind : ExceptionKind[x] \in Kinds \ {ExpiredToken}
  BY DEF ExceptionKind, ExpiredToken, Kinds
<1>4. \A r \in DOMAIN StatusKind : StatusKind[r] \in Kinds \ {ExpiredToken}
  BY DEF StatusKind, ExpiredToken, Kinds
<1> QED BY <1>1, <1>2, <1>3, <1>4 DEF BodyKinds, StatusKinds

LEMMA OfInner ==
  ASSUME NEW a \in Answers, NEW seed \in {None, ExpiredToken}, NEW k, NEW s
  PROVE  /\ Inner(a, seed) \in Seq(Layers)
         /\ HasKind(Inner(a, seed), k) <=>
              IF seed = ExpiredToken THEN k = ExpiredToken ELSE k \in BodyKinds(a)
         /\ ~HasStatus(Inner(a, seed), s)
<1>1. ExpiredToken \in Kinds /\ None # ExpiredToken
  BY KindFacts
<1>2. \A x \in DOMAIN ExceptionKind : ExceptionKind[x] \in Kinds
  BY DEF Kinds
<1>0. Message \in Seq(Layers) /\ ~HasKind(Message, k) /\ ~HasStatus(Message, s)
  BY OfMessage
<1>3. CASE a.body = "empty"
  <2>1. BodyKinds(a) = {}
    BY <1>3 DEF BodyKinds, ExceptionKind
  <2>2. Inner(a, seed) = IF seed = None THEN Message ELSE Kind(seed)
    BY <1>3 DEF Inner
  <2> QED BY <1>1, <2>1, <2>2, OfMessage, OfKind
<1>4. CASE a.body # "empty" /\ seed # None
  <2>1. Inner(a, seed) = Classified(ExpiredToken, Message)
    BY <1>4 DEF Inner
  <2> DEFINE c == Classified(ExpiredToken, Message)
  <2>2. c \in Seq(Layers) /\ (HasKind(c, k) <=> ExpiredToken = k \/ HasKind(Message, k))
          /\ (HasStatus(c, s) <=> HasStatus(Message, s))
    BY <1>0, <1>1, OfClassified
  <2> HIDE DEF c
  <2>3. Inner(a, seed) = c
    BY <2>1 DEF c
  <2> QED BY <1>0, <1>4, <2>2, <2>3
<1>5. CASE a.body # "empty" /\ seed = None /\ ~a.text /\ a.body \in DOMAIN ExceptionKind
  <2>1. Inner(a, seed) = Classified(ExceptionKind[a.body], Message)
    BY <1>5 DEF Inner
  <2>2. BodyKinds(a) = {ExceptionKind[a.body]}
    BY <1>5 DEF BodyKinds
  <2> DEFINE l == ExceptionKind[a.body]
             c == Classified(l, Message)
  <2>3. l \in Kinds
    BY <1>2, <1>5
  <2>4. c \in Seq(Layers) /\ (HasKind(c, k) <=> l = k \/ HasKind(Message, k))
          /\ (HasStatus(c, s) <=> HasStatus(Message, s))
    <3> HIDE DEF l
    <3> QED BY <1>0, <2>3, OfClassified
  <2>5. Inner(a, seed) = c /\ BodyKinds(a) = {l}
    BY <2>1, <2>2
  <2> HIDE DEF l, c
  <2> QED BY <1>0, <1>1, <1>5, <2>4, <2>5
<1>6. CASE a.body # "empty" /\ seed = None /\ (a.text \/ a.body \notin DOMAIN ExceptionKind)
  <2>1. Inner(a, seed) = Message
    BY <1>6 DEF Inner
  <2>2. BodyKinds(a) = {}
    BY <1>6 DEF BodyKinds
  <2> QED BY <1>1, <1>6, <2>1, <2>2, OfMessage
<1> QED BY <1>3, <1>4, <1>5, <1>6

LEMMA OfAnswer ==
  ASSUME NEW a \in Answers, NEW seed \in {None, ExpiredToken}, NEW k, NEW s
  PROVE  /\ MapResponseError(a, seed) \in Seq(Layers)
         /\ HasKind(MapResponseError(a, seed), k) <=>
              \/ k \in StatusKinds(a)
              \/ IF seed = ExpiredToken THEN k = ExpiredToken ELSE k \in BodyKinds(a)
         /\ HasStatus(MapResponseError(a, seed), s) <=> a.status = s
<1> DEFINE i == Inner(a, seed)
<1>1. /\ i \in Seq(Layers)
      /\ HasKind(i, k) <=> IF seed = ExpiredToken THEN k = ExpiredToken ELSE k \in BodyKinds(a)
  BY OfInner
<1>2. a.status \in Statuses
  BY KindFacts
<1>3. MapResponseError(a, seed) =
        Http(a.status, IF a.status \in DOMAIN StatusKind
                       THEN Classified(StatusKind[a.status], i) ELSE i)
  BY DEF MapResponseError
<1> HIDE DEF i
<1>4. CASE a.status \in DOMAIN StatusKind
  <2> DEFINE c == Classified(StatusKind[a.status], i)
  <2>1. StatusKind[a.status] \in Kinds
    BY <1>4 DEF Kinds
  <2>2. StatusKinds(a) = {StatusKind[a.status]}
    BY <1>4 DEF StatusKinds
  <2>3. c \in Seq(Layers) /\ (HasKind(c, k) <=> StatusKind[a.status] = k \/ HasKind(i, k))
    BY <1>1, <2>1, OfClassified
  <2> HIDE DEF c
  <2>4. MapResponseError(a, seed) = Http(a.status, c)
    BY <1>3, <1>4 DEF c
  <2>5. Http(a.status, c) \in Seq(Layers)
          /\ (HasKind(Http(a.status, c), k) <=> HasKind(c, k))
          /\ (HasStatus(Http(a.status, c), s) <=> a.status = s)
    BY <1>2, <2>3, OfHttp
  <2>6. k \in StatusKinds(a) <=> StatusKind[a.status] = k
    BY <2>2
  <2> QED BY <1>1, <2>3, <2>4, <2>5, <2>6
<1>5. CASE a.status \notin DOMAIN StatusKind
  <2>1. StatusKinds(a) = {}
    BY <1>5 DEF StatusKinds
  <2>2. MapResponseError(a, seed) = Http(a.status, i)
    BY <1>3, <1>5
  <2>3. Http(a.status, i) \in Seq(Layers)
          /\ (HasKind(Http(a.status, i), k) <=> HasKind(i, k))
          /\ (HasStatus(Http(a.status, i), s) <=> a.status = s)
    BY <1>1, <1>2, OfHttp
  <2> QED BY <1>1, <2>1, <2>2, <2>3
<1> QED BY <1>4, <1>5

-----------------------------------------------------------------------------
(* What is known of a call between its steps: of the first attempt nothing *)
(* is left once the second begins, and an error says what its cause says,  *)
(* with the expired token for what the body would say.                     *)
Says(error, answer, expired) ==
  /\ error \in Seq(Layers)
  /\ \A k \in Kinds :
       HasKind(error, k) <=>
         /\ answer # NoAnswer
         /\ k \in StatusKinds(answer) \/ (IF expired THEN k = ExpiredToken ELSE k \in BodyKinds(answer))
  /\ \A s \in Statuses : HasStatus(error, s) <=> answer.status = s

Running == {"start", "connect", "send", "decode"}

Progress ==
  /\ op \in Operations
  /\ pc \in Running \cup {"refresh", "done"}
  /\ attempt \in 1..(IF op \in Queue THEN 2 ELSE 1)
  /\ refused \in 0..attempt
  /\ cause \in Answers \cup {NoAnswer}
  /\ refused = 2 => cause # NoAnswer
  /\ pc \in Running => refused = attempt - 1 /\ cause = NoAnswer
  /\ pc = "refresh" => op \in Queue /\ attempt = 1 /\ refused = 1

Explained == Failed => Says(result.error, cause, refused = 2)

LEMMA NoAnswerIsNone == NoAnswer \notin Answers /\ \A s \in Statuses : NoAnswer.status # s
<1>1. NoAnswer.status = 0
  BY DEF NoAnswer
<1>2. \A a \in Answers : a.status # 0
  BY KindFacts
<1> QED BY <1>1, <1>2, ApiCallAssumption

LEMMA MessageSays == Says(Message, NoAnswer, FALSE)
<1>1. Message \in Seq(Layers) /\ (\A k : ~HasKind(Message, k)) /\ (\A s : ~HasStatus(Message, s))
  BY OfMessage
<1> QED BY <1>1, NoAnswerIsNone DEF Says

LEMMA AnswerSays ==
  ASSUME NEW a \in Answers, NEW seed \in {None, ExpiredToken}
  PROVE  Says(MapResponseError(a, seed), a, seed = ExpiredToken)
<1> DEFINE e == MapResponseError(a, seed)
<1>1. e \in Seq(Layers)
  BY OfAnswer
<1>2. \A k : HasKind(e, k) <=>
        k \in StatusKinds(a) \/ (IF seed = ExpiredToken THEN k = ExpiredToken ELSE k \in BodyKinds(a))
  BY OfAnswer
<1>3. \A s : HasStatus(e, s) <=> a.status = s
  BY OfAnswer
<1> HIDE DEF e
<1>4. Says(e, a, seed = ExpiredToken)
  BY <1>1, <1>2, <1>3, NoAnswerIsNone DEF Says
<1> QED BY <1>4 DEF e

LEMMA ContextSays ==
  ASSUME NEW error, NEW answer, NEW expired \in BOOLEAN, Says(error, answer, expired)
  PROVE  Says(Context(error), answer, expired)
<1>1. error \in Seq(Layers)
  BY DEF Says
<1> DEFINE e == Context(error)
<1>2. e \in Seq(Layers) /\ (\A k : HasKind(e, k) <=> HasKind(error, k))
        /\ (\A s : HasStatus(e, s) <=> HasStatus(error, s))
  BY <1>1, OfContext
<1> HIDE DEF e
<1>3. Says(e, answer, expired)
  BY <1>2 DEF Says
<1> QED BY <1>3 DEF e

(* An error is an expired token only if the queue's answer was seeded so.  *)
LEMMA ExpiredOnly ==
  ASSUME NEW error, NEW answer \in Answers \cup {NoAnswer}, NEW expired \in BOOLEAN,
         Says(error, answer, expired)
  PROVE  HasKind(error, ExpiredToken) <=> expired /\ answer # NoAnswer
<1>1. ExpiredToken \in Kinds
  BY DEF Kinds
<1>2. CASE answer = NoAnswer
  BY <1>1, <1>2 DEF Says
<1>3. CASE answer \in Answers
  <2>1. ExpiredToken \notin StatusKinds(answer) /\ ExpiredToken \notin BodyKinds(answer)
    BY <1>3, KindFacts
  <2>2. answer # NoAnswer
    BY <1>3, NoAnswerIsNone
  <2> QED BY <1>1, <2>1, <2>2 DEF Says
<1> QED BY <1>2, <1>3

(* AttemptFailed, for an error that says what the answer of this attempt,  *)
(* if there is one, has said.                                              *)
LEMMA FailedAttempt ==
  ASSUME Progress, pc \in Running,
         NEW error, NEW expired \in BOOLEAN,
         cause' \in Answers \cup {NoAnswer}, Says(error, cause', expired),
         expired => op \in Queue /\ cause' # NoAnswer,
         refused' = refused + (IF expired THEN 1 ELSE 0),
         op' = op, attempt' = attempt, AttemptFailed(error)
  PROVE  Progress' /\ Explained'
<1>1. /\ HasKind(error, ExpiredToken) <=> expired
  BY ExpiredOnly
<1>2. Says(Context(error), cause', expired)
  BY ContextSays
<1>3. refused = attempt - 1 /\ attempt \in 1..2 /\ (attempt = 2 => op \in Queue)
  BY DEF Progress
<1>4. refused' \in 0..attempt' /\ (refused' = 2 <=> attempt = 2 /\ expired)
  BY <1>3
<1>5. CASE op \in Queue /\ attempt = 1 /\ HasKind(error, ExpiredToken) /\ pc' = "refresh" /\ UNCHANGED result
  BY <1>1, <1>3, <1>4, <1>5 DEF Progress, Explained, Failed, Running
<1>6. CASE op \in Queue /\ attempt = 1 /\ ~HasKind(error, ExpiredToken) /\ Fail(Context(error))
  <2>1. ~expired /\ refused' # 2
    BY <1>1, <1>4, <1>6
  <2>2. Says(Context(error), cause', refused' = 2)
    BY <1>2, <2>1
  <2>3. pc' = "done" /\ result'.error = Context(error)
    BY <1>6 DEF Fail
  <2>4. Progress'
    BY <1>3, <1>4, <2>1, <2>3 DEF Progress, Running
  <2> QED BY <2>2, <2>3, <2>4 DEF Explained
<1>7. CASE ~(op \in Queue /\ attempt = 1) /\ Fail(error)
  <2>1. refused' = 2 <=> expired
    BY <1>3, <1>4, <1>7
  <2>2. Says(error, cause', refused' = 2)
    BY <2>1
  <2>3. pc' = "done" /\ result'.error = error
    BY <1>7 DEF Fail
  <2>4. Progress'
    BY <1>3, <1>4, <2>1, <2>3 DEF Progress, Running
  <2> QED BY <2>2, <2>3, <2>4 DEF Explained
<1> QED BY <1>5, <1>6, <1>7 DEF AttemptFailed

(* No answer has caused the error: it is a message of the client's own.    *)
LEMMA FailedByItself ==
  ASSUME Progress, pc \in Running, AttemptFailed(Message),
         op' = op, attempt' = attempt, refused' = refused, cause' = cause
  PROVE  Progress' /\ Explained'
<1>1. cause' = NoAnswer
  BY DEF Progress
<1>2. cause' \in Answers \cup {NoAnswer} /\ Says(Message, cause', FALSE)
  BY <1>1, MessageSays
<1>3. refused \in Int /\ refused' = refused + (IF FALSE THEN 1 ELSE 0)
  BY DEF Progress
<1> QED BY <1>2, <1>3, FailedAttempt

LEMMA ExplainedStep ==
  ASSUME Progress, Explained, [Next]_vars
  PROVE  Progress' /\ Explained'
<1>1. CASE Prepare
  <2>1. CASE Fail(Message)
    <3>1. pc \in Running /\ pc' = "done" /\ result'.error = Message
      BY <1>1, <2>1 DEF Prepare, Fail, Running
    <3>2. op = "create_runner_scale_set"
      BY <1>1, <3>1 DEF Prepare, Attempt
    <3>3. op \notin Queue /\ UNCHANGED <<op, attempt, refused, cause>>
      BY <1>1, <3>2 DEF Prepare, Queue
    <3>4. cause' = NoAnswer /\ refused' = 0
      BY <3>1, <3>3 DEF Progress
    <3>5. Progress'
      BY <3>1, <3>3, <3>4 DEF Progress, Running
    <3>6. (refused' = 2) = FALSE
      BY <3>4
    <3> QED BY <3>1, <3>4, <3>5, <3>6, MessageSays DEF Explained
  <2>2. CASE Attempt
    BY <1>1, <2>2 DEF Prepare, Attempt, Progress, Explained, Failed, Running
  <2> QED BY <1>1, <2>1, <2>2 DEF Prepare
<1>2. CASE Connect
  <2>1. CASE pc' = "send" /\ UNCHANGED <<result, cause>>
    BY <1>2, <2>1 DEF Connect, Progress, Explained, Failed, Running
  <2>2. ASSUME NEW a \in Answers, AttemptFailed(MapResponseError(a, None)), cause' = a
        PROVE  Progress' /\ Explained'
    <3>1. None # ExpiredToken
      BY KindFacts
    <3>2. Says(MapResponseError(a, None), cause', FALSE)
      BY <2>2, <3>1, AnswerSays
    <3>3. pc \in Running /\ op' = op /\ attempt' = attempt
      BY <1>2 DEF Connect, Running
    <3>4. refused' = refused + (IF FALSE THEN 1 ELSE 0)
      BY <1>2 DEF Connect, Progress
    <3> QED BY <2>2, <3>2, <3>3, <3>4, FailedAttempt
  <2>3. CASE AttemptFailed(Message) /\ UNCHANGED cause
    BY <1>2, <2>3, FailedByItself DEF Connect, Running
  <2> QED BY <1>2, <2>1, <2>2, <2>3 DEF Connect
<1>3. CASE SendFails
  BY <1>3, FailedByItself DEF SendFails, Running
<1>4. CASE Refresh
  <2>1. /\ pc = "refresh" /\ op \in Queue /\ attempt = 1 /\ refused = 1
        /\ op' = op /\ refused' = refused
    BY <1>4 DEF Refresh, Progress
  <2>2. CASE attempt' = 2 /\ cause' = NoAnswer /\ Attempt /\ UNCHANGED result
    BY <2>1, <2>2 DEF Attempt, Progress, Explained, Failed, Running
  <2>3. ASSUME NEW a \in Answers, Fail(Context(MapResponseError(a, None))), cause' = a,
               UNCHANGED attempt
        PROVE  Progress' /\ Explained'
    <3>1. None # ExpiredToken
      BY KindFacts
    <3>2. Says(MapResponseError(a, None), cause', FALSE)
      BY <2>3, <3>1, AnswerSays
    <3>3. Says(Context(MapResponseError(a, None)), cause', FALSE)
      BY <3>2, ContextSays
    <3>4. pc' = "done" /\ result'.error = Context(MapResponseError(a, None))
      BY <2>3 DEF Fail
    <3>5. (refused' = 2) = FALSE
      BY <2>1
    <3>6. Says(result'.error, cause', refused' = 2)
      BY <3>3, <3>4, <3>5
    <3>7. Progress'
      BY <2>1, <2>3, <3>4 DEF Progress, Running
    <3> QED BY <3>6, <3>7 DEF Explained
  <2>4. ASSUME Fail(Context(Message)), cause' = NoAnswer, UNCHANGED attempt
        PROVE  Progress' /\ Explained'
    <3>1. Says(Context(Message), cause', FALSE)
      BY <2>4, MessageSays, ContextSays
    <3>2. pc' = "done" /\ result'.error = Context(Message) /\ (refused' = 2) = FALSE
      BY <2>1, <2>4 DEF Fail
    <3>3. Progress'
      BY <2>1, <2>4, <3>2 DEF Progress, Running
    <3> QED BY <3>1, <3>2, <3>3 DEF Explained
  <2> QED BY <1>4, <2>2, <2>3, <2>4 DEF Refresh, RefreshFails
<1>5. CASE DecodeFails
  BY <1>5, FailedByItself DEF DecodeFails, Running
<1>6. CASE Decode
  BY <1>6 DEF Decode, Return, Progress, Explained, Failed, Running
<1>7. ASSUME NEW a \in Answers, Receive(a)
      PROVE  Progress' /\ Explained'
  <2>1. None # ExpiredToken
    BY KindFacts
  <2>2. Seed(a) \in {None, ExpiredToken} /\ (Seed(a) = ExpiredToken <=> op \in Queue /\ a.status = 401)
    BY <2>1 DEF Seed
  <2>3. /\ pc = "send" /\ op' = op /\ attempt' = attempt
        /\ refused' = refused + (IF Seed(a) = ExpiredToken THEN 1 ELSE 0)
    BY <1>7, <2>2 DEF Receive
  <2>4. CASE a.status = Expected(op) /\ pc' = "decode" /\ UNCHANGED <<result, cause>>
    BY <2>2, <2>3, <2>4 DEF Expected, Progress, Explained, Failed, Running
  <2>5. CASE op = "get_message" /\ a.status = 202 /\ Return(None) /\ UNCHANGED cause
    BY <2>2, <2>3, <2>5 DEF Return, Progress, Explained, Failed, Running
  <2>6. CASE AttemptFailed(MapResponseError(a, Seed(a))) /\ cause' = a
    <3>1. Says(MapResponseError(a, Seed(a)), cause', Seed(a) = ExpiredToken)
      BY <2>2, <2>6, AnswerSays
    <3>2. cause' # NoAnswer /\ pc \in Running
      BY <2>3, <2>6, NoAnswerIsNone DEF Running
    <3> QED BY <2>2, <2>3, <2>6, <3>1, <3>2, FailedAttempt
  <2> QED BY <1>7, <2>4, <2>5, <2>6 DEF Receive
<1>8. ASSUME NEW l, Lookup(l)
      PROVE  Progress' /\ Explained'
  <2>1. pc = "decode" /\ op \notin Queue /\ UNCHANGED <<op, attempt, refused, cause>>
    BY <1>8 DEF Lookup, Lookups, Queue
  <2>2. CASE Return(OneOf(l))
    BY <2>1, <2>2 DEF Return, Progress, Explained, Failed, Running
  <2>3. CASE Fail(Message)
    <3>1. cause' = NoAnswer /\ (refused' = 2) = FALSE /\ pc' = "done" /\ result'.error = Message
      BY <2>1, <2>3 DEF Fail, Progress, Running
    <3>2. Progress'
      BY <2>1, <3>1 DEF Progress, Running
    <3> QED BY <3>1, <3>2, MessageSays DEF Explained
  <2> QED BY <1>8, <2>2, <2>3 DEF Lookup
<1>9. ASSUME NEW supported, NEW batch, Message200(supported, batch)
      PROVE  Progress' /\ Explained'
  <2>1. pc = "decode" /\ pc \in Running /\ UNCHANGED <<op, attempt, refused, cause>>
    BY <1>9 DEF Message200, Running
  <2>2. CASE AttemptFailed(Message)
    BY <2>1, <2>2, FailedByItself
  <2>3. CASE Return(Parse(batch))
    BY <2>1, <2>3 DEF Return, Progress, Explained, Failed, Running
  <2> QED BY <1>9, <2>2, <2>3 DEF Message200
<1>10. CASE UNCHANGED vars
  BY <1>10 DEF vars, Progress, Explained, Failed
<1> QED BY <1>1, <1>2, <1>3, <1>4, <1>5, <1>6, <1>7, <1>8, <1>9, <1>10 DEF Next

LEMMA ExplainedAlways == Spec => [](Progress /\ Explained)
<1>1. Init => Progress /\ Explained
  BY DEF Init, Progress, Explained, Failed, Running
<1>2. Progress /\ Explained /\ [Next]_vars => (Progress /\ Explained)'
  BY ExplainedStep
<1> QED BY <1>1, <1>2, PTL DEF Spec

-----------------------------------------------------------------------------
(* is_message_queue_token_expired is true of exactly those errors that two *)
(* refusals by the queue have led to, for every list of statuses.          *)
THEOREM ExpiredTwice == Spec => []ExpiredMeansTwice
<1>1. Progress /\ Explained => ExpiredMeansTwice
  <2> SUFFICES ASSUME Progress, Explained, Failed
               PROVE  HasKind(result.error, ExpiredToken) <=> refused = 2
    BY DEF ExpiredMeansTwice
  <2>1. Says(result.error, cause, refused = 2) /\ cause \in Answers \cup {NoAnswer}
          /\ (refused = 2) \in BOOLEAN
    BY DEF Explained, Progress
  <2>2. HasKind(result.error, ExpiredToken) <=> refused = 2 /\ cause # NoAnswer
    BY <2>1, ExpiredOnly
  <2> QED BY <2>2 DEF Progress
<1> QED BY <1>1, ExplainedAlways, PTL

(* An error has the kinds and the status of the answer that has ended the  *)
(* call, and no others, whatever layers are around it.                     *)
THEOREM CauseKept == Spec => []FailureKeepsItsCause
<1>1. Progress /\ Explained => FailureKeepsItsCause
  <2> SUFFICES ASSUME Progress, Explained, Failed
               PROVE  /\ {k \in Kinds : HasKind(result.error, k)} =
                           IF cause = NoAnswer THEN {} ELSE KindsOf(cause)
                      /\ \A s \in Statuses : HasStatus(result.error, s) <=> cause.status = s
    BY DEF FailureKeepsItsCause
  <2>1. Says(result.error, cause, refused = 2) /\ cause \in Answers \cup {NoAnswer}
    BY DEF Explained, Progress
  <2>2. CASE cause = NoAnswer
    BY <2>1, <2>2 DEF Says
  <2>3. CASE cause \in Answers
    <3>1. cause # NoAnswer
      BY <2>3, NoAnswerIsNone
    <3>2. StatusKinds(cause) \subseteq Kinds /\ BodyKinds(cause) \subseteq Kinds /\ ExpiredToken \in Kinds
      BY <2>3, KindFacts
    <3>3. KindsOf(cause) =
            StatusKinds(cause) \cup (IF refused = 2 THEN {ExpiredToken} ELSE BodyKinds(cause))
      BY DEF KindsOf, StatusKinds, BodyKinds
    <3>4. \A k \in Kinds : HasKind(result.error, k) <=>
            k \in StatusKinds(cause) \/ (IF refused = 2 THEN k = ExpiredToken ELSE k \in BodyKinds(cause))
      BY <2>1, <3>1 DEF Says
    <3>5. {k \in Kinds : HasKind(result.error, k)} = KindsOf(cause)
      BY <3>2, <3>3, <3>4
    <3> QED BY <2>1, <3>1, <3>5 DEF Says
  <2> QED BY <2>1, <2>2, <2>3
<1> QED BY <1>1, ExplainedAlways, PTL

-----------------------------------------------------------------------------
(* The labels and the time of a scale set.                                 *)
ScaleSetOK ==
  /\ labels \in Seq(LabelTypes) /\ Len(labels) \in 0..MaxLabels
  /\ created = {} \/ \E t \in created : created = {t}
  /\ pc = "done" => result.ok \in BOOLEAN

LEMMA OneTime ==
  ASSUME NEW raw
  PROVE  LET t == ReadTime(raw).time IN t = {} \/ \E x \in t : t = {x}
<1>1. \A r : Rfc3339(r) = {} \/ \E x \in Rfc3339(r) : Rfc3339(r) = {x}
  <2> TAKE r
  <2>1. CASE r.suffix \in DOMAIN OffsetOf
    <3>1. Rfc3339(r) = {[hour |-> r.hour, offset |-> OffsetOf[r.suffix]]}
      BY <2>1 DEF Rfc3339
    <3> QED BY <3>1
  <2>2. CASE r.suffix \notin DOMAIN OffsetOf
    BY <2>2 DEF Rfc3339
  <2> QED BY <2>1, <2>2
<1>2. \A r : ParseRfc3339(r) = {} \/ \E x \in ParseRfc3339(r) : ParseRfc3339(r) = {x}
  BY <1>1 DEF ParseRfc3339
<1>3. ReadTime(raw).time = {} \/ ReadTime(raw).time = ParseRfc3339(raw)
  BY DEF ReadTime
<1> QED BY <1>2, <1>3

LEMMA ScaleSetAlways == Spec => []ScaleSetOK
<1>1. Init => ScaleSetOK
  <2> SUFFICES ASSUME Init PROVE ScaleSetOK
    OBVIOUS
  <2>1. labels \in Seq(LabelTypes) /\ Len(labels) \in 0..MaxLabels
    <3>1. CASE labels = <<>>
      BY <3>1, ApiCallAssumption
    <3>2. CASE labels \in SeqOf(LabelTypes, MaxLabels)
      <4>1. PICK n \in 0..MaxLabels : labels \in [1..n -> LabelTypes]
        BY <3>2 DEF SeqOf
      <4> QED BY <4>1, ApiCallAssumption
    <3> QED BY <3>1, <3>2 DEF Init
  <2>2. created = {} \/ \E t \in created : created = {t}
    BY OneTime DEF Init
  <2> QED BY <2>1, <2>2 DEF Init, ScaleSetOK
<1>2. ScaleSetOK /\ [Next]_vars => ScaleSetOK'
  <2> SUFFICES ASSUME ScaleSetOK, [Next]_vars PROVE ScaleSetOK'
    OBVIOUS
  <2>1. labels' \in Seq(LabelTypes) /\ Len(labels') \in 0..MaxLabels
    <3>1. CASE Prepare
      <4>1. CASE UNCHANGED labels
        BY <4>1 DEF ScaleSetOK
      <4>2. CASE labels' = <<"System">>
        <5>1. <<"System">> \in Seq(LabelTypes) /\ Len(<<"System">>) = 1
          BY DEF LabelTypes
        <5> QED BY <4>2, <5>1, ApiCallAssumption
      <4>3. CASE labels' = DefaultTypes(labels)
        <5>1. DOMAIN labels = 1..Len(labels) /\ Len(labels) \in Nat
              /\ \A i \in DOMAIN labels : labels[i] \in LabelTypes
          BY DEF ScaleSetOK
        <5>2. DefaultTypes(labels) \in [1..Len(labels) -> LabelTypes]
          BY <5>1 DEF DefaultTypes, LabelTypes
        <5> QED BY <4>3, <5>1, <5>2 DEF ScaleSetOK
      <4> QED BY <3>1, <4>1, <4>2, <4>3 DEF Prepare
    <3>2. CASE UNCHANGED labels
      BY <3>2 DEF ScaleSetOK
    <3> QED BY <3>1, <3>2 DEF Next, vars, Connect, SendFails, Refresh, DecodeFails, Decode,
                              Receive, Lookup, Message200
  <2>2. UNCHANGED created
    BY DEF Next, vars, Prepare, Connect, SendFails, Refresh, DecodeFails, Decode,
           Receive, Lookup, Message200
  <2>3. pc' = "done" => result'.ok \in BOOLEAN
    <3> DEFINE Q == pc' = "done" => result'.ok \in BOOLEAN
    <3>1. \A v : Return(v) => Q
      BY DEF Return
    <3>2. \A e : Fail(e) => Q
      BY DEF Fail
    <3>3. \A e : AttemptFailed(e) => Q
      BY <3>2 DEF AttemptFailed
    <3>4. Attempt => Q
      BY DEF Attempt
    <3>5. UNCHANGED <<pc, result>> => Q
      BY DEF ScaleSetOK
    <3>6. pc' \in {"send", "decode"} => Q
      OBVIOUS
    <3> HIDE DEF Q
    <3>7. Prepare => Q
      BY <3>2, <3>4 DEF Prepare
    <3>8. Connect \/ SendFails \/ DecodeFails => Q
      BY <3>3, <3>6 DEF Connect, SendFails, DecodeFails
    <3>9. Refresh => Q
      BY <3>2, <3>4 DEF Refresh, RefreshFails
    <3>10. Decode \/ (\E l : Lookup(l)) => Q
      BY <3>1, <3>2 DEF Decode, Lookup
    <3>11. (\E a : Receive(a)) => Q
      BY <3>1, <3>3, <3>6 DEF Receive
    <3>12. (\E supported, batch : Message200(supported, batch)) => Q
      BY <3>1, <3>3 DEF Message200
    <3>13. UNCHANGED vars => Q
      BY <3>5 DEF vars
    <3>14. Q
      BY <3>7, <3>8, <3>9, <3>10, <3>11, <3>12, <3>13 DEF Next
    <3> QED BY <3>14 DEF Q
  <2> QED BY <2>1, <2>2, <2>3 DEF ScaleSetOK
<1> QED BY <1>1, <1>2, PTL DEF Spec

(* The types of a call's state, for any bound of the labels.               *)
THEOREM Typing == Spec => []TypeOK
<1>1. Progress /\ ScaleSetOK => TypeOK
  BY NoAnswerIsNone DEF Progress, ScaleSetOK, TypeOK, Running
<1> QED BY <1>1, ScaleSetAlways, ExplainedAlways, PTL

-----------------------------------------------------------------------------
(* A lookup reads one answer, and is at its end with it.                   *)
LookupInv == LookupExact /\ (pc # "done" => body = None)

Answered(count, listed) ==
  /\ result'.ok /\ result'.value # None => count = 1
  /\ count = listed /\ listed = 1 => result' = [ok |-> TRUE, value |-> 1]
  /\ count = listed /\ listed = 0 => (result'.ok <=> op # "get_runner_group_by_name")
  /\ count = listed /\ listed > 1 => ~result'.ok

LEMMA AnsweredExactly ==
  ASSUME NEW count \in 0..2, NEW listed \in 0..2, op' = op, pc' = "done",
         body' = [count |-> count, listed |-> listed], Answered(count, listed)
  PROVE  LookupInv'
<1>1. body'.count = count /\ body'.listed = listed
  OBVIOUS
<1>2. listed = 1 \/ listed = 0 \/ listed > 1
  OBVIOUS
<1>3. /\ listed = 1 => ~(listed = 0) /\ ~(listed > 1)
      /\ listed = 0 => ~(listed > 1)
  OBVIOUS
<1> DEFINE exact(c, n) == c = n =>
         CASE n = 1 -> result' = [ok |-> TRUE, value |-> 1]
           [] n = 0 -> result'.ok <=> op # "get_runner_group_by_name"
           [] n > 1 -> ~result'.ok
<1>4. exact(count, listed)
  <2>1. CASE listed = 1
    BY <1>3, <2>1 DEF Answered
  <2>2. CASE listed = 0
    BY <2>2 DEF Answered
  <2>3. CASE listed > 1
    BY <2>3 DEF Answered
  <2> QED BY <1>2, <2>1, <2>2, <2>3
<1> HIDE DEF exact
<1>5. exact(body'.count, body'.listed)
  BY <1>1, <1>4
<1>6. result'.ok /\ result'.value # None => body'.count = 1
  BY <1>1 DEF Answered
<1> QED BY <1>5, <1>6 DEF LookupInv, LookupExact, exact

LEMMA LookupReads ==
  ASSUME NEW count \in 0..2, NEW listed \in 0..2, Lookup([count |-> count, listed |-> listed])
  PROVE  LookupInv'
<1> DEFINE l == [count |-> count, listed |-> listed]
<1>0. count \in {0, 1, 2} /\ listed \in {0, 1, 2} /\ (listed > 0 <=> listed # 0)
  OBVIOUS
<1>1. OneOf(l) = IF count = 1 /\ listed # 0 THEN 1 ELSE None
  BY <1>0 DEF OneOf
<1>2. pc' = "done" /\ body' = l /\ op' = op
  BY DEF Lookup, Return, Fail
<1>3. ASSUME count \in {0, 1}, op = "get_runner_group_by_name" => OneOf(l) # None,
             result' = [ok |-> TRUE, value |-> OneOf(l)]
      PROVE  Answered(count, listed)
  <2>1. result'.ok /\ result'.value = OneOf(l)
    BY <1>3
  <2>2. count = listed => ~(listed > 1)
    BY <1>3
  <2>3. count = listed /\ listed = 1 => OneOf(l) = 1
    BY <1>1
  <2>4. count = listed /\ listed = 0 => OneOf(l) = None
    BY <1>1
  <2>5. OneOf(l) # None => count = 1
    BY <1>1
  <2>6. count = listed /\ listed = 1 => result' = [ok |-> TRUE, value |-> 1]
    BY <1>3, <2>3
  <2>7. count = listed /\ listed = 0 => op # "get_runner_group_by_name"
    BY <1>3, <2>4
  <2> QED BY <2>1, <2>2, <2>5, <2>6, <2>7 DEF Answered
<1>4. ASSUME \/ count \notin {0, 1}
             \/ op = "get_runner_group_by_name" /\ OneOf(l) = None,
             result' = [ok |-> FALSE, error |-> Message]
      PROVE  Answered(count, listed)
  <2>1. ~result'.ok
    BY <1>4
  <2>2. count = listed /\ listed = 1 => FALSE
    BY <1>1, <1>4, ApiCallAssumption
  <2>3. count = listed /\ listed = 0 => op = "get_runner_group_by_name"
    BY <1>4
  <2> QED BY <2>1, <2>2, <2>3 DEF Answered
<1>5. l.count = count
  OBVIOUS
<1>6. Answered(count, listed)
  BY <1>3, <1>4, <1>5 DEF Lookup, Return, Fail
<1> QED BY <1>2, <1>6, AnsweredExactly

(* A lookup by name returns something only when there is exactly one.      *)
THEOREM ExactLookups == Spec => []LookupExact
<1>1. Init => LookupInv
  BY DEF Init, LookupInv, LookupExact
<1>2. LookupInv /\ [Next]_vars => LookupInv'
  <2> SUFFICES ASSUME LookupInv, [Next]_vars PROVE LookupInv'
    OBVIOUS
  <2>1. CASE Prepare \/ Connect \/ SendFails \/ Refresh \/ DecodeFails \/ Decode
             \/ \E a \in Answers : Receive(a)
    <3>1. pc # "done" /\ UNCHANGED body
      BY <2>1 DEF Prepare, Connect, SendFails, Refresh, DecodeFails, Decode, Receive
    <3> QED BY <3>1 DEF LookupInv, LookupExact
  <2>2. ASSUME NEW supported, NEW batch, Message200(supported, batch) PROVE LookupInv'
    <3>1. op = "get_message" /\ op' = op /\ op \notin Lookups
      BY <2>2 DEF Message200, Lookups
    <3>2. pc' = "done"
      <4>1. op \in Queue /\ ~HasKind(Message, ExpiredToken)
        BY <3>1, OfMessage DEF Queue
      <4> QED BY <2>2, <4>1 DEF Message200, AttemptFailed, Return, Fail
    <3> QED BY <3>1, <3>2 DEF LookupInv, LookupExact
  <2>3. CASE UNCHANGED vars
    BY <2>3 DEF vars, LookupInv, LookupExact
  <2> QED BY <2>1, <2>2, <2>3, LookupReads DEF Next
<1>3. LookupInv => LookupExact
  BY DEF LookupInv
<1> QED BY <1>1, <1>2, <1>3, PTL DEF Spec

-----------------------------------------------------------------------------
(* The offset a text names, or UTC's.                                      *)
Offset(suffix) ==
  CASE suffix = "+01:00" -> 1 [] suffix = "-01:00" -> -1 [] OTHER -> 0

LEMMA Offsets ==
  /\ DOMAIN OffsetOf = {"Z", "+00:00", "+01:00", "-01:00"}
  /\ OffsetOf["Z"] = 0 /\ OffsetOf["+00:00"] = 0
  /\ OffsetOf["+01:00"] = 1 /\ OffsetOf["-01:00"] = -1
BY DEF OffsetOf

(* The time of a text that names an hour: the hour, and what follows it,   *)
(* UTC when that says nothing.                                             *)
LEMMA TimeRead ==
  ASSUME NEW raw, raw.form = "time", raw.suffix \in TimeSuffixes,
         raw = [form |-> "time", hour |-> raw.hour, suffix |-> raw.suffix]
  PROVE  IF raw.suffix = "garbage" THEN ReadTime(raw) = [valid |-> FALSE, time |-> {}]
         ELSE ReadTime(raw) = [valid |-> TRUE,
                               time |-> {[hour |-> raw.hour, offset |-> Offset(raw.suffix)]}]
<1> DEFINE utc == [raw EXCEPT !.suffix = "+00:00"]
           is(o) == {[hour |-> raw.hour, offset |-> o]}
<1>1. raw.suffix \in {"", "ZZ", "garbage", "Z", "+00:00", "+01:00", "-01:00"}
  BY Offsets DEF TimeSuffixes
<1>2. ASSUME NEW r, r.suffix \in DOMAIN OffsetOf
      PROVE  Rfc3339(r) = {[hour |-> r.hour, offset |-> OffsetOf[r.suffix]]}
  BY <1>2 DEF Rfc3339
<1>3. ASSUME raw.suffix \notin DOMAIN OffsetOf
      PROVE  Rfc3339(raw) = {}
  BY <1>3 DEF Rfc3339
<1>4. Rfc3339(utc) = is(0)
  <2>1. utc.suffix = "+00:00" /\ utc.hour = raw.hour
    OBVIOUS
  <2> HIDE DEF utc
  <2> QED BY <1>2, <2>1, Offsets
<1>5. ParseRfc3339(raw) = IF raw.suffix = "garbage" THEN {} ELSE is(Offset(raw.suffix))
  <2>1. CASE raw.suffix \in DOMAIN OffsetOf
    <3>1. Rfc3339(raw) = is(Offset(raw.suffix)) /\ raw.suffix # "garbage"
      BY <1>2, <2>1, Offsets DEF Offset
    <3> QED BY <3>1 DEF ParseRfc3339
  <2>2. CASE raw.suffix \in {"", "ZZ"}
    BY <1>3, <1>4, <2>2, Offsets DEF ParseRfc3339, Offset
  <2>3. CASE raw.suffix = "garbage"
    BY <1>3, <2>3, Offsets DEF ParseRfc3339
  <2> QED BY <1>1, <2>1, <2>2, <2>3, Offsets
<1> QED BY <1>5 DEF ReadTime

(* What is written of a time reads back as the time.                       *)
LEMMA TimeWritten ==
  ASSUME NEW hour, NEW offset \in {-1, 0, 1}
  PROVE  LET time == {[hour |-> hour, offset |-> offset]}
         IN ReadTime(WriteTime(time)) = [valid |-> TRUE, time |-> time]
<1> DEFINE t == [hour |-> hour, offset |-> offset]
           Fits(s) == OffsetOf[s] = offset
           suffix == CHOOSE s \in DOMAIN OffsetOf \ {"+00:00"} : Fits(s)
           raw == [form |-> "time", hour |-> hour, suffix |-> suffix]
<1>1. \E s \in DOMAIN OffsetOf \ {"+00:00"} : Fits(s)
  BY Offsets
<1>2. suffix \in DOMAIN OffsetOf \ {"+00:00"} /\ Fits(suffix)
  <2> HIDE DEF Fits
  <2> QED BY <1>1
<1>3. WriteTime({t}) = raw
  <2>1. (CHOOSE u \in {t} : TRUE) = t
    OBVIOUS
  <2>2. t.hour = hour /\ t.offset = offset /\ {t} # {}
    OBVIOUS
  <2> HIDE DEF t
  <2> QED BY <2>1, <2>2 DEF WriteTime
<1> HIDE DEF suffix
<1>4. Offset(suffix) = offset /\ suffix # "garbage" /\ suffix \in TimeSuffixes
  BY <1>2, Offsets DEF Offset, TimeSuffixes
<1>5. ReadTime(raw) = [valid |-> TRUE, time |-> {[hour |-> hour, offset |-> Offset(suffix)]}]
  <2>1. raw.form = "time" /\ raw.suffix = suffix /\ raw.hour = hour
        /\ raw = [form |-> "time", hour |-> raw.hour, suffix |-> raw.suffix]
    OBVIOUS
  <2> HIDE DEF raw
  <2> QED BY <1>4, <2>1, TimeRead
<1> QED BY <1>3, <1>4, <1>5

LEMMA RawShape ==
  ASSUME NEW raw \in RawTimes(Hours)
  PROVE  \/ raw.form \in {"null", "empty", "zero"}
         \/ /\ raw.form = "time" /\ raw.hour \in Hours /\ raw.suffix \in TimeSuffixes
            /\ raw = [form |-> "time", hour |-> raw.hour, suffix |-> raw.suffix]
<1>1. CASE raw \in [form : {"null", "empty", "zero"}]
  BY <1>1
<1>2. CASE raw \in [form : {"time"}, hour : Hours, suffix : TimeSuffixes]
  BY <1>2
<1> QED BY <1>1, <1>2 DEF RawTimes

LEMMA TimesKept ==
  ASSUME NEW raw \in RawTimes(Hours)
  PROVE  LET time == ReadTime(raw).time
         IN ReadTime(WriteTime(time)) = [valid |-> TRUE, time |-> time]
<1>1. ReadTime(WriteTime({})) = [valid |-> TRUE, time |-> {}]
  BY DEF WriteTime, ReadTime
<1>2. CASE raw.form \in {"null", "empty", "zero"}
  <2>1. ReadTime(raw).time = {}
    BY <1>2 DEF ReadTime
  <2> QED BY <1>1, <2>1
<1>3. CASE /\ raw.form = "time" /\ raw.hour \in Hours /\ raw.suffix \in TimeSuffixes
           /\ raw = [form |-> "time", hour |-> raw.hour, suffix |-> raw.suffix]
  <2>1. \/ ReadTime(raw).time = {}
        \/ ReadTime(raw).time = {[hour |-> raw.hour, offset |-> Offset(raw.suffix)]}
    BY <1>3, TimeRead
  <2>2. Offset(raw.suffix) \in {-1, 0, 1}
    BY DEF Offset
  <2> QED BY <1>1, <2>1, <2>2, TimeWritten
<1> QED BY <1>2, <1>3, RawShape

LEMMA Instants ==
  ASSUME NEW raw \in RawTimes(Hours), raw.form = "time"
  PROVE  {Instant(t) : t \in ReadTime(raw).time} =
           CASE raw.suffix \in {"", "Z", "ZZ", "+00:00"} -> {raw.hour}
             [] raw.suffix = "+01:00" -> {raw.hour - 1}
             [] raw.suffix = "-01:00" -> {raw.hour + 1}
             [] raw.suffix = "garbage" -> {}
<1>1. /\ raw.hour \in Hours /\ raw.suffix \in TimeSuffixes
      /\ raw = [form |-> "time", hour |-> raw.hour, suffix |-> raw.suffix]
  BY RawShape
<1>2. raw.suffix \in {"", "ZZ", "garbage", "Z", "+00:00", "+01:00", "-01:00"} /\ raw.hour \in Int
  BY <1>1, Offsets, ApiCallAssumption DEF TimeSuffixes
<1>3. CASE raw.suffix = "garbage"
  <2>1. ReadTime(raw).time = {}
    BY <1>1, <1>3, TimeRead
  <2> QED BY <1>3, <2>1
<1>4. CASE raw.suffix # "garbage"
  <2> DEFINE o == Offset(raw.suffix)
  <2>1. ReadTime(raw).time = {[hour |-> raw.hour, offset |-> o]}
    BY <1>1, <1>4, TimeRead
  <2>2. Instant([hour |-> raw.hour, offset |-> o]) = raw.hour - o
    <3> DEFINE x == [hour |-> raw.hour, offset |-> o]
    <3>1. x.hour = raw.hour /\ x.offset = o
      OBVIOUS
    <3> HIDE DEF x
    <3>2. Instant(x) = x.hour - x.offset
      BY DEF Instant
    <3>3. Instant(x) = raw.hour - o
      BY ONLY <3>1, <3>2
    <3> QED BY <3>3 DEF x
  <2>3. {Instant(t) : t \in ReadTime(raw).time} = {raw.hour - o}
    BY <2>1, <2>2
  <2>4. CASE raw.suffix \in {"", "Z", "ZZ", "+00:00"}
    <3>1. o = 0
      BY <2>4 DEF Offset
    <3>2. \A h \in Int : h - 0 = h
      OBVIOUS
    <3> HIDE DEF o
    <3> QED BY <1>2, <2>3, <2>4, <3>1, <3>2
  <2>5. CASE raw.suffix = "+01:00"
    BY <1>2, <2>3, <2>5 DEF Offset
  <2>6. CASE raw.suffix = "-01:00"
    BY <1>2, <2>3, <2>6 DEF Offset
  <2> QED BY <1>2, <1>4, <2>4, <2>5, <2>6
<1> QED BY <1>3, <1>4

-----------------------------------------------------------------------------
(* A scale set on its way has been prepared, and keeps the time it had.    *)
Prepared ==
  /\ op \in Labelled => \E raw \in RawTimes(Hours) : created = ReadTime(raw).time
  /\ pc \in {"connect", "send", "decode"} /\ op \in Labelled =>
       /\ \A i \in DOMAIN labels : labels[i] # ""
       /\ op = "create_runner_scale_set" => labels # <<>>

LEMMA PreparedStep == Progress /\ ScaleSetOK /\ Prepared /\ [Next]_vars => Prepared'
<1> SUFFICES ASSUME Progress, ScaleSetOK, Prepared, [Next]_vars PROVE Prepared'
  OBVIOUS
<1>1. UNCHANGED <<op, created>>
  BY DEF Next, vars, Prepare, Connect, SendFails, Refresh, DecodeFails, Decode, Receive,
         Lookup, Message200
<1>2. CASE Prepare /\ op \in Labelled
  <2>1. CASE labels' = <<"System">>
    <3>1. Len(<<"System">>) = 1 /\ Len(<<>>) = 0 /\ DOMAIN <<"System">> = 1..1
      OBVIOUS
    <3>2. <<"System">> # <<>> /\ \A i \in 1..1 : <<"System">>[i] = "System"
      BY <3>1
    <3> QED BY <1>1, <2>1, <3>1, <3>2 DEF Prepared
  <2>2. CASE labels' = DefaultTypes(labels) /\ (op # "create_runner_scale_set" \/ labels # <<>>)
    <3>1. DOMAIN labels' = DOMAIN labels /\ \A i \in DOMAIN labels' : labels'[i] # ""
      BY <2>2 DEF DefaultTypes
    <3>2. op = "create_runner_scale_set" => labels' # <<>>
      <4>1. labels \in Seq(LabelTypes)
        BY DEF ScaleSetOK
      <4>2. labels # <<>> => 1 \in DOMAIN labels
        BY ONLY <4>1
      <4>3. 1 \notin DOMAIN <<>>
        OBVIOUS
      <4> QED BY <2>2, <3>1, <4>2, <4>3
    <3> QED BY <1>1, <3>1, <3>2 DEF Prepared
  <2>3. CASE pc' = "done"
    BY <1>1, <2>3 DEF Prepared
  <2> QED BY <1>2, <2>1, <2>2, <2>3 DEF Prepare, Fail
<1>3. CASE Prepare /\ op \notin Labelled
  BY <1>1, <1>3 DEF Prepared
<1>4. CASE ~Prepare
  <2>1. UNCHANGED labels
    BY <1>4 DEF Next, vars, Connect, SendFails, Refresh, DecodeFails, Decode, Receive, Lookup,
                Message200
  <2>2. op \in Labelled /\ pc' \in {"connect", "send", "decode"} => pc \in {"connect", "send", "decode"}
    <3>1. op \in Labelled => op \notin Queue
      BY DEF Labelled, Queue
    <3> QED BY <1>4, <3>1 DEF Next, vars, Progress, Running, Connect, SendFails, Refresh,
           DecodeFails, Decode, Receive, Lookup, Message200, AttemptFailed, Return, Fail
  <2> QED BY <1>1, <2>1, <2>2 DEF Prepared
<1> QED BY <1>2, <1>3, <1>4

(* create_runner_scale_set and update_runner_scale_set send labels of some *)
(* type, at least one with a new scale set, and a creation time that is    *)
(* read back as the service wrote it.                                      *)
THEOREM ScaleSetAsMeant == Spec => []ScaleSetSent
<1>1. Init => Prepared
  BY DEF Init, Prepared
<1>2. Prepared => ScaleSetSent
  BY TimesKept, Instants DEF Prepared, ScaleSetSent
<1>3. Spec => []Progress
  BY ExplainedAlways, PTL
<1>4. Spec => []Prepared
  BY <1>1, <1>3, ScaleSetAlways, PreparedStep, PTL DEF Spec
<1> QED BY <1>2, <1>4, PTL

-----------------------------------------------------------------------------
(* Induction over the natural numbers, for a set: the least number outside *)
(* of it would have a predecessor in it.                                   *)
LEMMA Induction ==
  ASSUME NEW S, 0 \in S, \A n \in Nat : n \in S => n + 1 \in S
  PROVE  Nat \subseteq S
<1> DEFINE T == Nat \ S
           R == OpToRel(<, Nat)
<1>1. SUFFICES ASSUME T # {} PROVE FALSE
  OBVIOUS
<1>2. PICK m \in T : \A k \in T : <<k, m>> \notin R
  <2>1. IsWellFoundedOn(R, Nat) /\ T \subseteq Nat
    BY NatLessThanWellFounded
  <2> HIDE DEF R, T
  <2> QED BY <1>1, <2>1, WFMin
<1>3. \A k \in T : ~(k < m)
  BY <1>2 DEF OpToRel
<1> HIDE DEF R
<1>4. m # 0 /\ m - 1 \in Nat /\ m - 1 \notin T
  BY <1>3
<1> QED BY <1>2, <1>4

(* What has been put into the lists by the first n jobs.                   *)
ParsedJobs(m, batch, n) ==
  /\ m \in [JobTypes -> Seq(Nat)]
  /\ \A i \in 1..n : batch[i].decodes
  /\ \A t \in JobTypes :
       Range(m[t]) = {i \in 1..n : batch[i].type = t} /\ Ascending(m[t])

LEMMA AppendedJob ==
  ASSUME NEW s \in Seq(Nat), NEW n \in Nat, Range(s) \subseteq 1..n, Ascending(s)
  PROVE  LET r == Append(s, n + 1)
         IN r \in Seq(Nat) /\ Range(r) = Range(s) \cup {n + 1} /\ Ascending(r)
<1> DEFINE r == Append(s, n + 1)
<1>1. /\ r \in Seq(Nat) /\ Len(s) \in Nat /\ Len(r) = Len(s) + 1
      /\ \A i \in 1..Len(s) : r[i] = s[i]
      /\ r[Len(s) + 1] = n + 1
      /\ DOMAIN r = 1..Len(s) + 1 /\ DOMAIN s = 1..Len(s)
  OBVIOUS
<1> HIDE DEF r
<1>2. Range(r) = Range(s) \cup {n + 1}
  <2>1. ASSUME NEW x \in Range(r) PROVE x \in Range(s) \cup {n + 1}
    <3>1. PICK i \in 1..Len(s) + 1 : x = r[i]
      BY <1>1, <2>1 DEF Range
    <3>2. CASE i = Len(s) + 1
      BY <1>1, <3>1, <3>2
    <3>3. CASE i \in 1..Len(s)
      BY <1>1, <3>1, <3>3 DEF Range
    <3> QED BY <1>1, <3>2, <3>3
  <2>2. ASSUME NEW x \in Range(s) PROVE x \in Range(r)
    <3>1. PICK i \in 1..Len(s) : x = s[i]
      BY <1>1, <2>2 DEF Range
    <3>2. i \in DOMAIN r /\ x = r[i]
      BY <1>1, <3>1
    <3> QED BY <3>2 DEF Range
  <2>3. n + 1 \in Range(r)
    <3>1. Len(s) + 1 \in DOMAIN r
      BY <1>1
    <3> QED BY <1>1, <3>1 DEF Range
  <2> QED BY <2>1, <2>2, <2>3
<1>3. ASSUME NEW j \in DOMAIN r, NEW k \in DOMAIN r, j < k
      PROVE  r[j] < r[k]
  <2>1. j \in 1..Len(s) /\ r[j] = s[j] /\ s[j] \in Range(s)
    BY <1>1, <1>3 DEF Range
  <2>2. CASE k = Len(s) + 1
    BY <1>1, <2>1, <2>2
  <2>3. CASE k \in 1..Len(s)
    BY <1>1, <1>3, <2>1, <2>3 DEF Ascending
  <2> QED BY <1>1, <2>2, <2>3
<1> QED BY <1>1, <1>2, <1>3 DEF Ascending, r

LEMMA ParsesOneMore ==
  ASSUME NEW batch, NEW n \in Nat, NEW m, ParsedJobs(m, batch, n),
         NEW item, item = batch[n + 1], item.decodes
  PROVE  ParsedJobs(ParseJob(m, n + 1, item), batch, n + 1) \/ m = None
<1> DEFINE r == ParseJob(m, n + 1, item)
<1>1. SUFFICES ASSUME m # None PROVE ParsedJobs(r, batch, n + 1)
  OBVIOUS
<1>2. 1..n + 1 = 1..n \cup {n + 1}
  OBVIOUS
<1>3. \A i \in 1..n + 1 : batch[i].decodes
  BY <1>2 DEF ParsedJobs
<1>4. CASE item.type \notin JobTypes
  <2>1. r = m
    BY <1>1, <1>4 DEF ParseJob
  <2>2. \A t \in JobTypes : {i \in 1..n + 1 : batch[i].type = t} = {i \in 1..n : batch[i].type = t}
    BY <1>2, <1>4
  <2> QED BY <1>3, <2>1, <2>2 DEF ParsedJobs
<1>5. CASE item.type \in JobTypes
  <2> DEFINE u == item.type
             s == m[u]
  <2>1. r = [m EXCEPT ![u] = Append(s, n + 1)]
    BY <1>1, <1>5 DEF ParseJob
  <2>2. s \in Seq(Nat) /\ Range(s) \subseteq 1..n /\ Ascending(s)
    BY <1>5 DEF ParsedJobs
  <2>3. /\ Append(s, n + 1) \in Seq(Nat)
        /\ Range(Append(s, n + 1)) = Range(s) \cup {n + 1}
        /\ Ascending(Append(s, n + 1))
    BY <2>2, AppendedJob
  <2>4. r[u] = Append(s, n + 1) /\ \A t \in JobTypes \ {u} : r[t] = m[t]
    BY <1>5, <2>1 DEF ParsedJobs
  <2>5. r \in [JobTypes -> Seq(Nat)]
    BY <1>5, <2>1, <2>3 DEF ParsedJobs
  <2>6. ASSUME NEW t \in JobTypes
        PROVE  Range(r[t]) = {i \in 1..n + 1 : batch[i].type = t} /\ Ascending(r[t])
    <3> HIDE DEF r, s
    <3>1. CASE t = u
      <4>1. {i \in 1..n + 1 : batch[i].type = t} = {i \in 1..n : batch[i].type = t} \cup {n + 1}
        BY <1>2, <3>1
      <4>2. Range(s) = {i \in 1..n : batch[i].type = t}
        BY <3>1 DEF ParsedJobs, s
      <4> QED BY <2>3, <2>4, <3>1, <4>1, <4>2
    <3>2. CASE t # u
      <4>1. {i \in 1..n + 1 : batch[i].type = t} = {i \in 1..n : batch[i].type = t}
        BY <1>2, <3>2
      <4> QED BY <2>4, <3>2, <4>1 DEF ParsedJobs
    <3> QED BY <3>1, <3>2
  <2> QED BY <1>3, <2>5, <2>6 DEF ParsedJobs
<1> QED BY <1>4, <1>5

LEMMA ParseJobStep ==
  ASSUME NEW batch, NEW n \in Nat, NEW m, m = None \/ ParsedJobs(m, batch, n)
  PROVE  LET r == ParseJob(m, n + 1, batch[n + 1])
         IN r = None \/ ParsedJobs(r, batch, n + 1)
<1>1. CASE m = None \/ ~batch[n + 1].decodes
  BY <1>1 DEF ParseJob
<1>2. CASE m # None /\ batch[n + 1].decodes
  BY <1>2, ParsesOneMore
<1> QED BY <1>1, <1>2

(* The recursion over a batch is well defined, and has parsed all.         *)
LEMMA Parsed ==
  ASSUME NEW batch, Len(batch) \in Nat
  PROVE  Parse(batch) = None \/ ParsedJobs(Parse(batch), batch, Len(batch))
<1> DEFINE N == Len(batch)
           Upto(g, k) == g = [n \in 0..k |-> IF n = 0 THEN NoJobs
                                             ELSE ParseJob(g[n - 1], n, batch[n])]
           Defined == {k \in Nat : \E g : Upto(g, k)}
           f == CHOOSE g : Upto(g, N)
           Fine == {k \in Nat : k <= N => f[k] = None \/ ParsedJobs(f[k], batch, k)}
<1>1. 0 \in Defined
  <2>1. Upto([n \in 0..0 |-> NoJobs], 0)
    OBVIOUS
  <2> HIDE DEF Upto
  <2> QED BY <2>1
<1>2. ASSUME NEW k \in Nat, k \in Defined
      PROVE  k + 1 \in Defined
  <2>1. PICK g : Upto(g, k)
    BY <1>2
  <2> DEFINE r == ParseJob(g[k], k + 1, batch[k + 1])
             h == [n \in 0..k + 1 |-> IF n <= k THEN g[n] ELSE r]
  <2> HIDE DEF r
  <2>2. h[k + 1] = r /\ \A n \in 0..k : h[n] = g[n]
    OBVIOUS
  <2>3. ASSUME NEW n \in 0..k + 1
        PROVE  h[n] = IF n = 0 THEN NoJobs ELSE ParseJob(h[n - 1], n, batch[n])
    <3>1. CASE n = k + 1
      <4>1. n # 0 /\ n - 1 = k /\ h[n - 1] = g[k] /\ h[n] = r
        BY <2>2, <3>1
      <4> QED BY <3>1, <4>1 DEF r
    <3>2. CASE n \in 0..k
      <4>1. h[n] = g[n] /\ (n # 0 => h[n - 1] = g[n - 1])
        BY <2>2, <3>2
      <4>2. g[n] = IF n = 0 THEN NoJobs ELSE ParseJob(g[n - 1], n, batch[n])
        BY <2>1, <3>2
      <4> QED BY <4>1, <4>2
    <3> QED BY <3>1, <3>2
  <2>4. Upto(h, k + 1)
    BY <2>3
  <2> HIDE DEF h, Upto
  <2> QED BY <2>4
<1>3. N \in Defined
  <2>1. N \in Nat
    OBVIOUS
  <2> HIDE DEF Defined, N
  <2> QED BY <1>1, <1>2, <2>1, Induction
<1>4. Upto(f, N)
  <2> HIDE DEF Upto
  <2> QED BY <1>3
<1> HIDE DEF f
<1>5. 0 \in Fine
  <2>1. f[0] = NoJobs
    BY <1>4
  <2>2. NoJobs \in [JobTypes -> Seq(Nat)] /\ \A t \in JobTypes : NoJobs[t] = <<>>
    BY DEF NoJobs
  <2>3. Range(<<>>) = {} /\ Ascending(<<>>)
    BY DEF Range, Ascending
  <2>4. \A t : {i \in 1..0 : batch[i].type = t} = {}
    OBVIOUS
  <2> QED BY <2>1, <2>2, <2>3, <2>4 DEF ParsedJobs
<1>6. ASSUME NEW k \in Nat, k \in Fine
      PROVE  k + 1 \in Fine
  <2>1. SUFFICES ASSUME k + 1 <= N
                 PROVE  f[k + 1] = None \/ ParsedJobs(f[k + 1], batch, k + 1)
    OBVIOUS
  <2>2. f[k + 1] = ParseJob(f[k], k + 1, batch[k + 1])
    BY <1>4, <2>1
  <2>3. f[k] = None \/ ParsedJobs(f[k], batch, k)
    BY <1>6, <2>1
  <2> QED BY <2>2, <2>3, ParseJobStep
<1>7. f[N] = None \/ ParsedJobs(f[N], batch, N)
  <2>1. N \in Nat
    OBVIOUS
  <2>2. N \in Fine
    <3> HIDE DEF Fine, N
    <3> QED BY <1>5, <1>6, <2>1, Induction
  <2> QED BY <2>1, <2>2
<1> QED BY <1>7 DEF Parse, f

(* A batch is what Message200 has read when get_message returns something. *)
BatchRead ==
  (pc = "done" /\ op = "get_message" /\ result.ok /\ result.value # None) =>
    Len(body) \in Nat /\ DOMAIN body = 1..Len(body) /\ result.value = Parse(body)

LEMMA BatchReadStep == BatchRead /\ [Next]_vars => BatchRead'
<1> SUFFICES ASSUME BatchRead, [Next]_vars PROVE BatchRead'
  OBVIOUS
<1> DEFINE Q == (pc' = "done" /\ op' = "get_message" /\ result'.ok) => result'.value = None
<1>0. UNCHANGED op
  BY DEF Next, vars, Prepare, Connect, SendFails, Refresh, DecodeFails, Decode, Receive,
         Lookup, Message200
<1>1. Q => BatchRead'
  BY DEF BatchRead
<1>2. (\E e : Fail(e)) => Q
  BY DEF Fail
<1>3. (\E e : AttemptFailed(e)) => Q
  BY <1>2 DEF AttemptFailed
<1>4. Attempt \/ pc' \in {"send", "decode"} \/ Return(None) => Q
  BY DEF Attempt, Return
<1>5. CASE Prepare \/ Connect \/ SendFails \/ DecodeFails \/ Decode \/ \E a \in Answers : Receive(a)
  <2> HIDE DEF Q
  <2> QED BY <1>1, <1>2, <1>3, <1>4, <1>5
          DEF Prepare, Connect, SendFails, DecodeFails, Decode, Receive
<1>6. CASE Refresh
  <2> HIDE DEF Q
  <2> QED BY <1>1, <1>2, <1>4, <1>6 DEF Refresh, RefreshFails
<1>7. CASE \E count \in 0..2, listed \in 0..2 : Lookup([count |-> count, listed |-> listed])
  BY <1>0, <1>7 DEF Lookup, Lookups, BatchRead
<1>8. ASSUME NEW supported \in BOOLEAN, NEW batch \in Batches, Message200(supported, batch)
      PROVE  BatchRead'
  <2>1. CASE \E e : AttemptFailed(e)
    BY <1>1, <1>3, <2>1
  <2>2. CASE Return(Parse(batch))
    <3>1. Len(batch) \in Nat /\ DOMAIN batch = 1..Len(batch)
      <4>1. PICK n \in 0..MaxBatch : batch \in [1..n -> Items]
        BY DEF Batches, SeqOf
      <4> QED BY <4>1
    <3> QED BY <1>8, <2>2, <3>1 DEF Message200, Return, BatchRead
  <2> QED BY <1>8, <2>1, <2>2 DEF Message200
<1>9. CASE UNCHANGED vars
  BY <1>9 DEF vars, BatchRead
<1> QED BY <1>5, <1>6, <1>7, <1>8, <1>9 DEF Next

(* parse_runner_scale_set_message gives a job of each type of the batch    *)
(* its place in the list of the type, once and in order, or gives nothing. *)
THEOREM WholeBatch == Spec => []BatchComplete
<1>1. Init => BatchRead
  BY DEF Init, BatchRead
<1>2. BatchRead => BatchComplete
  <2> SUFFICES ASSUME BatchRead, pc = "done", op = "get_message", result.ok, result.value # None
               PROVE  /\ \A i \in DOMAIN body : body[i].decodes
                      /\ \A t \in JobTypes :
                           Range(result.value[t]) = OfType(body, t) /\ Ascending(result.value[t])
    BY DEF BatchComplete
  <2>1. Len(body) \in Nat /\ DOMAIN body = 1..Len(body) /\ result.value = Parse(body)
    BY DEF BatchRead
  <2>2. ParsedJobs(result.value, body, Len(body))
    BY <2>1, Parsed
  <2> QED BY <2>1, <2>2 DEF ParsedJobs, OfType
<1> QED BY <1>1, <1>2, BatchReadStep, PTL DEF Spec
=============================================================================
