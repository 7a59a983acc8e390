--------------------------- MODULE ClientSetupProofs ---------------------------
(***************************************************************************)
(* All tokens of one exchange are asked of one server, for any configured  *)
(* URL and however GITHUB_ACTIONS_FORCE_GHES changes on the way; and at    *)
(* the path of the one owner the URL names.  The expiry is read from the   *)
(* very bytes of the token's payload.  The URL of a call has the segments  *)
(* and the pairs it was made of, whatever the URL of the service is.       *)
(***************************************************************************)
EXTENDS ClientSetup, FiniteSetTheorems, SequenceTheorems, WellFoundedInduction, TLAPS

(* What Client::new makes of the URL, with the variable as it was then.    *)
MadeWith(f) ==
  config = [url   |-> input,
            scope |-> IF Len(Parts(input)) = 1 THEN "Organization" ELSE ScopeOfTwo(Parts(input)),
            names |-> Parts(input),
            hosted |-> IsHosted(input, f)]

AppPath == <<"app", "installations", "id", "access_tokens">>
AdminPath == <<"actions", "runner-registration">>
AskedPaths == {AppPath, TokenPath(config), AdminPath}

(* A client that asks is made, and asks for nothing but these.             *)
Asking == pc \in {"installation", "registration", "admin"}

CInv ==
  /\ TypeOK
  /\ Asking \/ asked # {} => \E f \in BOOLEAN : MadeWith(f)
  /\ pc = "new" => asked = {}
  /\ \A u \in asked : \E p \in AskedPaths : u = ApiUrl(config, FALSE, p)

-----------------------------------------------------------------------------
LEMMA ScopeKinds ==
  ASSUME NEW f, MadeWith(f)
  PROVE  config.scope \in {"Organization", "Enterprise", "Repository"}
BY DEF MadeWith, ScopeOfTwo

LEMMA ParsedIsMade ==
  ASSUME NEW f, ParseConfig(input, f) # None, config' = ParseConfig(input, f), input' = input
  PROVE  MadeWith(f)'
BY DEF ParseConfig, MadeWith

(* github_api_url looks at the configuration alone.                        *)
LEMMA SameUrl ==
  ASSUME NEW c, NEW f, NEW p
  PROVE  ApiUrl(c, f, p) = ApiUrl(c, FALSE, p)
BY DEF ApiUrl

(* One request more, for one of the paths.                                 *)
LEMMA AsksOneMore ==
  ASSUME CInv, Asking, NEW p \in AskedPaths, Ask(p),
         UNCHANGED <<input, config>>, pc' # "new", TypeOK'
  PROVE  CInv'
<1>1. (\E f \in BOOLEAN : MadeWith(f))'
  <2>1. PICK f \in BOOLEAN : MadeWith(f)
    BY DEF CInv
  <2>2. MadeWith(f)'
    BY <2>1 DEF MadeWith
  <2> QED BY <2>2
<1>2. AskedPaths' = AskedPaths
  BY DEF AskedPaths, TokenPath
<1>3. ASSUME NEW u \in asked'
      PROVE  \E q \in AskedPaths : u = ApiUrl(config, FALSE, q)
  <2>1. CASE u \in asked
    BY <2>1 DEF CInv
  <2>2. CASE u = ApiUrl(config, forceGhes, p)
    BY <2>2, SameUrl
  <2> QED BY <1>3, <2>1, <2>2 DEF Ask
<1> QED BY <1>1, <1>2, <1>3 DEF CInv

(* A step that asks for nothing keeps what was asked for.                  *)
LEMMA AsksNoMore ==
  ASSUME CInv, UNCHANGED <<input, config, asked>>, pc' # "new", Asking' => Asking, TypeOK'
  PROVE  CInv'
<1>1. ASSUME Asking' \/ asked' # {}
      PROVE  (\E f \in BOOLEAN : MadeWith(f))'
  <2>1. PICK f \in BOOLEAN : MadeWith(f)
    BY <1>1 DEF CInv
  <2>2. MadeWith(f)'
    BY <2>1 DEF MadeWith
  <2> QED BY <2>2
<1>2. AskedPaths' = AskedPaths
  BY DEF AskedPaths, TokenPath
<1> QED BY <1>1, <1>2 DEF CInv

-----------------------------------------------------------------------------
THEOREM TypingStep == TypeOK /\ [Next]_vars => TypeOK'
<1> SUFFICES ASSUME TypeOK, [Next]_vars PROVE TypeOK'
  OBVIOUS
<1>1. CASE New
  <2>1. CASE /\ ParseConfig(input, forceGhes) # None /\ Complete(creds)
             /\ config' = ParseConfig(input, forceGhes)
             /\ pc' \in {"installation", "registration"}
    <3>1. config'.scope \in {"Organization", "Enterprise", "Repository"}
      BY <2>1 DEF ParseConfig, ScopeOfTwo
    <3> QED BY <1>1, <2>1, <3>1 DEF New, TypeOK, Complete
  <2>2. CASE Fail
    BY <1>1, <2>2 DEF New, Fail, TypeOK
  <2> QED BY <1>1, <2>1, <2>2 DEF New
<1>2. CASE SetEnvironment
  BY <1>2 DEF SetEnvironment, TypeOK
<1>3. CASE FetchInstallationToken
  BY <1>3 DEF FetchInstallationToken, Fail, TypeOK
<1>4. CASE GetRegistrationToken
  BY <1>4 DEF GetRegistrationToken, TypeOK
<1>5. ASSUME NEW base \in Bases, NEW payload \in Payloads, GetAdminConnection(base, payload)
      PROVE  TypeOK'
  BY <1>5 DEF GetAdminConnection, TypeOK
<1>6. CASE ReadExpiry
  <2>1. CASE pc' = "call"
    <3>1. admin'.url = admin.url
      BY <1>6 DEF ReadExpiry, TypeOK
    <3> QED BY <1>6, <2>1, <3>1 DEF ReadExpiry, TypeOK
  <2>2. CASE pc' = "failed"
    BY <1>6, <2>2 DEF ReadExpiry, TypeOK
  <2> QED BY <1>6, <2>1, <2>2 DEF ReadExpiry
<1>7. ASSUME NEW path \in CallPaths, NEW query \in Queries, Call(path, query)
      PROVE  TypeOK'
  BY <1>7 DEF Call, TypeOK
<1>8. CASE UNCHANGED vars
  BY <1>8 DEF vars, TypeOK
<1> QED BY <1>1, <1>2, <1>3, <1>4, <1>5, <1>6, <1>7, <1>8 DEF Next

THEOREM InvStep == CInv /\ [Next]_vars => CInv'
<1> SUFFICES ASSUME CInv, [Next]_vars PROVE CInv'
  OBVIOUS
<1>0. TypeOK'
  BY TypingStep DEF CInv
<1>1. CASE New
  <2>1. CASE ParseConfig(input, forceGhes) # None /\ config' = ParseConfig(input, forceGhes)
    <3>1. MadeWith(forceGhes)'
      BY <1>1, <2>1, ParsedIsMade DEF New
    <3>2. (\E f \in BOOLEAN : MadeWith(f))'
      <4>1. forceGhes \in BOOLEAN /\ forceGhes' = forceGhes
        BY <1>1 DEF New, CInv, TypeOK
      <4> QED BY <3>1, <4>1
    <3>3. asked' = {}
      BY <1>1 DEF New, Fail, CInv
    <3>4. pc' # "new"
      BY <1>1 DEF New, Fail
    <3> QED BY <1>0, <3>2, <3>3, <3>4 DEF CInv
  <2>2. CASE Fail
    BY <1>0, <1>1, <2>2, AsksNoMore DEF New, Fail, Asking
  <2> QED BY <1>1, <2>1, <2>2 DEF New
<1>2. CASE SetEnvironment
  <2>1. CASE pc = "new"
    BY <1>0, <1>2, <2>1 DEF SetEnvironment, CInv, Asking
  <2>2. CASE pc # "new"
    BY <1>0, <1>2, <2>2, AsksNoMore DEF SetEnvironment, Asking
  <2> QED BY <2>1, <2>2
<1>3. CASE FetchInstallationToken
  <2>1. CASE Fail
    BY <1>0, <1>3, <2>1, AsksNoMore DEF FetchInstallationToken, Fail, Asking
  <2>2. CASE Ask(AppPath) /\ pc' \in {"registration", "failed"} /\ UNCHANGED config
    BY <1>0, <1>3, <2>2, AsksOneMore DEF FetchInstallationToken, Asking, AskedPaths
  <2> QED BY <1>3, <2>1, <2>2 DEF FetchInstallationToken, AppPath
<1>4. CASE GetRegistrationToken
  BY <1>0, <1>4, AsksOneMore DEF GetRegistrationToken, Asking, AskedPaths
<1>5. ASSUME NEW base \in Bases, NEW payload \in Payloads, GetAdminConnection(base, payload)
      PROVE  CInv'
  <2>1. Ask(AdminPath) /\ pc' # "new" /\ UNCHANGED <<input, config>> /\ Asking
    BY <1>5 DEF GetAdminConnection, AdminPath, Asking
  <2> QED BY <1>0, <2>1, AsksOneMore DEF AskedPaths
<1>6. CASE ReadExpiry
  BY <1>0, <1>6, AsksNoMore DEF ReadExpiry, Asking
<1>7. ASSUME NEW path \in CallPaths, NEW query \in Queries, Call(path, query)
      PROVE  CInv'
  BY <1>0, <1>7, AsksNoMore DEF Call, Asking
<1>8. CASE UNCHANGED vars
  <2>1. CASE pc = "new"
    BY <1>0, <1>8, <2>1 DEF vars, CInv, Asking
  <2>2. CASE pc # "new"
    BY <1>0, <1>8, <2>2, AsksNoMore DEF vars, Asking
  <2> QED BY <2>1, <2>2
<1> QED BY <1>1, <1>2, <1>3, <1>4, <1>5, <1>6, <1>7, <1>8 DEF Next

LEMMA Invariance == Spec => []CInv
<1>1. Init => CInv
  BY DEF Init, CInv, TypeOK, Asking
<1> QED BY <1>1, InvStep, PTL DEF Spec

(* Every variable of the client stays within its type.                     *)
THEOREM Typing == Spec => []TypeOK
<1>1. CInv => TypeOK
  BY DEF CInv
<1> QED BY <1>1, Invariance, PTL

-----------------------------------------------------------------------------
(* No path of GitHub's API begins with "api"; that is what tells the two   *)
(* kinds of server apart.                                                  *)
LEMMA PathBegins ==
  ASSUME NEW f, MadeWith(f), NEW p \in AskedPaths
  PROVE  p[1] # "api" /\ SubSeq(<<"api", "v3">> \o p, 1, 2) = <<"api", "v3">>
<1> DEFINE names == config.names
           S == {"app", "installations", "id", "access_tokens", "actions", "runners",
                 "runner-registration", "registration-token", "orgs", "enterprises", "repos",
                 names[1], names[2], "api", "v3"}
           rest == <<"actions", "runners", "registration-token">>
<1>1. rest \in Seq(S) /\ Len(rest) = 3
  OBVIOUS
<1>2. ASSUME NEW owner \in Seq(S), Len(owner) \in {2, 3}, owner[1] # "api"
      PROVE  owner \o rest \in Seq(S) /\ (owner \o rest)[1] # "api"
  BY <1>1, <1>2
<1> HIDE DEF rest
<1>3. p \in Seq(S) /\ p[1] # "api"
  <2>1. CASE p = AppPath
    BY <2>1 DEF AppPath
  <2>2. CASE p = AdminPath
    BY <2>2 DEF AdminPath
  <2>3. CASE p = TokenPath(config)
    <3>1. <<"orgs", names[1]>> \in Seq(S) /\ <<"enterprises", names[2]>> \in Seq(S)
          /\ <<"repos", names[1], names[2]>> \in Seq(S)
      OBVIOUS
    <3>2. \/ p = <<"orgs", names[1]>> \o rest
          \/ p = <<"enterprises", names[2]>> \o rest
          \/ p = <<"repos", names[1], names[2]>> \o rest
      BY <2>3, ScopeKinds DEF TokenPath, rest
    <3> QED BY <1>2, <3>1, <3>2
  <2> QED BY <2>1, <2>2, <2>3 DEF AskedPaths
<1>4. <<"api", "v3">> \in Seq(S) /\ Len(<<"api", "v3">>) = 2
  OBVIOUS
<1> HIDE DEF S
<1>5. SubSeq(<<"api", "v3">> \o p, 1, 2) = <<"api", "v3">>
  <2> DEFINE api == <<"api", "v3">>
             d == api \o p
             head == SubSeq(d, 1, 2)
  <2>1. d \in Seq(S) /\ Len(d) \in Nat /\ Len(d) >= 2 /\ d[1] = "api" /\ d[2] = "v3"
    BY <1>3, <1>4
  <2> HIDE DEF d
  <2>2. head \in Seq(S) /\ Len(head) = 2 /\ head[1] = "api" /\ head[2] = "v3"
    BY <2>1
  <2> HIDE DEF head
  <2>3. head = <<"api", "v3">>
    BY <2>2
  <2> QED BY <2>3 DEF head, d
<1> QED BY <1>3, <1>5

(* github_api_url: all tokens of one exchange are asked of one server, the *)
(* one the client was made for.                                            *)
THEOREM AlwaysOneServer == Spec => []OneServer
<1>1. CInv => OneServer
  <2> SUFFICES ASSUME CInv, NEW u \in asked
               PROVE  /\ \A v \in asked : Server(u) = Server(v)
                      /\ IF config.hosted
                         THEN u.host = ApiHost[input.host] /\ u.path[1] # "api"
                         ELSE Server(u) = Server(input) /\ SubSeq(u.path, 1, 2) = <<"api", "v3">>
    BY DEF OneServer
  <2>1. PICK f \in BOOLEAN : MadeWith(f)
    BY DEF CInv
  <2>2. PICK p \in AskedPaths : u = ApiUrl(config, FALSE, p)
    BY DEF CInv
  <2>3. ASSUME NEW v \in asked
        PROVE  Server(u) = Server(v)
    <3>1. PICK q \in AskedPaths : v = ApiUrl(config, FALSE, q)
      BY DEF CInv
    <3> QED BY <2>2, <3>1 DEF ApiUrl, Server
  <2>4. config.url = input
    BY <2>1 DEF MadeWith
  <2>5. p[1] # "api" /\ SubSeq(<<"api", "v3">> \o p, 1, 2) = <<"api", "v3">>
    BY <2>1, PathBegins
  <2>6. CASE config.hosted
    <3>1. u.host = ApiHost[input.host] /\ u.path = p
      BY <2>2, <2>4, <2>6 DEF ApiUrl
    <3> QED BY <2>3, <2>5, <2>6, <3>1
  <2>7. CASE ~config.hosted
    <3>1. Server(u) = Server(input) /\ u.path = <<"api", "v3">> \o p
      BY <2>2, <2>4, <2>7 DEF ApiUrl, Server
    <3> QED BY <2>3, <2>5, <2>7, <3>1
  <2> QED BY <2>6, <2>7
<1> QED BY <1>1, Invariance, PTL

-----------------------------------------------------------------------------
(* A set of natural numbers has a least one; hence induction over them,    *)
(* for a set: the least number outside of it would have a predecessor in   *)
(* it.                                                                     *)
LEMMA Least ==
  ASSUME NEW T, T \subseteq Nat, T # {}
  PROVE  \E m \in T : \A k \in T : m <= k
<1> DEFINE R == OpToRel(<, Nat)
<1>1. IsWellFoundedOn(R, Nat)
  BY NatLessThanWellFounded
<1>2. PICK m \in T : \A k \in T : <<k, m>> \notin R
  <2> HIDE DEF R
  <2> QED BY <1>1, WFMin
<1>3. \A k \in T : ~(k < m)
  BY <1>2 DEF OpToRel
<1> HIDE DEF R
<1> QED BY <1>3

LEMMA Induction ==
  ASSUME NEW S, 0 \in S, \A n \in Nat : n \in S => n + 1 \in S
  PROVE  Nat \subseteq S
<1> DEFINE T == Nat \ S
<1>1. SUFFICES ASSUME T # {} PROVE FALSE
  OBVIOUS
<1>2. PICK m \in T : \A k \in T : m <= k
  <2>1. T \subseteq Nat
    OBVIOUS
  <2> HIDE DEF T
  <2> QED BY <1>1, <2>1, Least
<1>3. m # 0 /\ m - 1 \in Nat /\ m - 1 \notin T
  BY <1>2
<1> QED BY <1>3

(* A recursive function over 0..N, whose steps stay in V, is well defined. *)
Recursive(g, N, base, step) ==
  g = [n \in 0..N |-> IF n = 0 THEN base ELSE step[n][g[n - 1]]]

LEMMA Recursion ==
  ASSUME NEW N \in Nat, NEW V, NEW base \in V, NEW step \in [1..N -> [V -> V]]
  PROVE  \E g \in [0..N -> V] : Recursive(g, N, base, step)
<1> DEFINE Upto(g, k) == g = [n \in 0..k |-> IF n = 0 THEN base ELSE step[n][g[n - 1]]]
           S == {k \in Nat : k > N \/ \E g \in [0..k -> V] : Upto(g, k)}
<1>1. 0 \in S
  <2>1. [n \in 0..0 |-> base] \in [0..0 -> V] /\ Upto([n \in 0..0 |-> base], 0)
    OBVIOUS
  <2> QED BY <2>1
<1>2. ASSUME NEW k \in Nat, k \in S
      PROVE  k + 1 \in S
  <2>1. SUFFICES ASSUME k + 1 <= N PROVE \E g \in [0..k + 1 -> V] : Upto(g, k + 1)
    OBVIOUS
  <2>2. PICK g \in [0..k -> V] : Upto(g, k)
    BY <1>2, <2>1
  <2> DEFINE h == [n \in 0..k + 1 |-> IF n <= k THEN g[n] ELSE step[k + 1][g[k]]]
  <2>3. step[k + 1] \in [V -> V] /\ g[k] \in V
    BY <2>1
  <2>4. h \in [0..k + 1 -> V]
    BY <2>3
  <2>5. ASSUME NEW n \in 0..k + 1
        PROVE  h[n] = IF n = 0 THEN base ELSE step[n][h[n - 1]]
    <3>1. CASE n = k + 1
      BY <3>1
    <3>2. CASE n <= k
      BY <2>2, <3>2
    <3> QED BY <3>1, <3>2
  <2> HIDE DEF h
  <2>6. Upto(h, k + 1)
    BY <2>4, <2>5
  <2> QED BY <2>4, <2>6
<1> HIDE DEF S
<1>3. N \in S
  BY <1>1, <1>2, Induction
<1>4. \E g \in [0..N -> V] : Upto(g, N)
  BY <1>3 DEF S
<1> QED BY <1>4 DEF Recursive

-----------------------------------------------------------------------------
(* What is kept of s, one element after the other.                         *)
KeepNext(v, c, sep) == IF c = sep THEN v ELSE Append(v, c)

LEMMA KeepNextTyped ==
  ASSUME NEW S, NEW sep, NEW v \in Seq(S \ {sep}), NEW c \in S
  PROVE  KeepNext(v, c, sep) \in Seq(S \ {sep})
<1>1. CASE c = sep
  BY <1>1 DEF KeepNext
<1>2. CASE c # sep
  <2>1. c \in S \ {sep}
    BY <1>2
  <2>2. Append(v, c) \in Seq(S \ {sep})
    BY <2>1, AppendProperties
  <2> QED BY <1>2, <2>2 DEF KeepNext
<1> QED BY <1>1, <1>2

(* f is what is kept of s, up to each of its places.                       *)
Kept(f, S, s, sep) ==
  /\ f \in [0..Len(s) -> Seq(S \ {sep})] /\ Without(s, sep) = f[Len(s)] /\ f[0] = <<>>
  /\ \A n \in 1..Len(s) : f[n] = KeepNext(f[n - 1], s[n], sep)

LEMMA WithoutComputed ==
  ASSUME NEW S, NEW s \in Seq(S), NEW sep
  PROVE  \E f : Kept(f, S, s, sep)
<1> DEFINE N == Len(s)
           V == Seq(S \ {sep})
           step == [n \in 1..N |-> [v \in V |-> KeepNext(v, s[n], sep)]]
           Is(g) == g = [n \in 0..N |-> IF n = 0 THEN <<>>
                                        ELSE IF s[n] = sep THEN g[n - 1] ELSE Append(g[n - 1], s[n])]
           f == CHOOSE g : Is(g)
<1>1. N \in Nat /\ <<>> \in V /\ step \in [1..N -> [V -> V]]
  <2>1. ASSUME NEW n \in 1..N, NEW v \in V
        PROVE  KeepNext(v, s[n], sep) \in V
    <3>1. s[n] \in S
      OBVIOUS
    <3> QED BY <3>1, KeepNextTyped
  <2>2. N \in Nat /\ <<>> \in V
    OBVIOUS
  <2> HIDE DEF V, N
  <2> QED BY <2>1, <2>2
<1> HIDE DEF V
<1>2. PICK g \in [0..N -> V] : Recursive(g, N, <<>>, step)
  <2> HIDE DEF N, step
  <2> QED BY <1>1, Recursion
<1>3. Is(g)
  <2>1. N \in Nat
    OBVIOUS
  <2> HIDE DEF N
  <2>2. ASSUME NEW n \in 0..N, n # 0
        PROVE  step[n][g[n - 1]] = IF s[n] = sep THEN g[n - 1] ELSE Append(g[n - 1], s[n])
    <3>1. n \in 1..N /\ g[n - 1] \in V
      BY <2>1, <2>2
    <3>2. step[n][g[n - 1]] = KeepNext(g[n - 1], s[n], sep)
      BY <3>1
    <3> QED BY <3>2 DEF KeepNext
  <2> HIDE DEF step
  <2>3. g = [n \in 0..N |-> IF n = 0 THEN <<>> ELSE step[n][g[n - 1]]]
    BY <1>2 DEF Recursive
  <2>4. [n \in 0..N |-> IF n = 0 THEN <<>> ELSE step[n][g[n - 1]]]
        = [n \in 0..N |-> IF n = 0 THEN <<>>
                          ELSE IF s[n] = sep THEN g[n - 1] ELSE Append(g[n - 1], s[n])]
    BY <2>2
  <2> QED BY <2>3, <2>4
<1>4. Is(f)
  <2> HIDE DEF Is
  <2> QED BY <1>3
<1> HIDE DEF f
<1>5. f[0] = <<>> /\ \A n \in 1..N : f[n] = KeepNext(f[n - 1], s[n], sep)
  <2>1. N \in Nat
    OBVIOUS
  <2>2. \A n \in 0..N : f[n] = IF n = 0 THEN <<>>
                              ELSE IF s[n] = sep THEN f[n - 1] ELSE Append(f[n - 1], s[n])
    <3> HIDE DEF N
    <3> QED BY <1>4
  <2> HIDE DEF N, Is
  <2> QED BY <2>1, <2>2 DEF KeepNext
<1>6. f \in [0..N -> V]
  <2> DEFINE I == {k \in Nat : k <= N => f[k] \in V}
  <2>1. 0 \in I
    BY <1>1, <1>5
  <2>2. ASSUME NEW k \in Nat, k \in I
        PROVE  k + 1 \in I
    <3>1. SUFFICES ASSUME k + 1 <= N PROVE f[k + 1] \in V
      OBVIOUS
    <3>2. f[k] \in V /\ s[k + 1] \in S /\ f[k + 1] = KeepNext(f[k], s[k + 1], sep)
      BY <1>5, <2>2, <3>1
    <3> QED BY <3>2, KeepNextTyped DEF V
  <2>3. Nat \subseteq I
    <3> HIDE DEF I
    <3> QED BY <2>1, <2>2, Induction
  <2>4. \A k \in 0..N : f[k] \in V
    BY <2>3
  <2>5. f = [n \in 0..N |-> f[n]]
    BY <1>4
  <2> HIDE DEF N
  <2> QED BY <2>4, <2>5
<1>7. Without(s, sep) = f[N]
  BY DEF Without, f
<1> QED BY <1>5, <1>6, <1>7 DEF V, Kept

LEMMA WithoutTyped ==
  ASSUME NEW S, NEW s \in Seq(S), NEW sep
  PROVE  Without(s, sep) \in Seq(S \ {sep})
<1>1. Len(s) \in 0..Len(s)
  OBVIOUS
<1>2. PICK f : Kept(f, S, s, sep)
  BY WithoutComputed
<1> QED BY <1>1, <1>2 DEF Kept

-----------------------------------------------------------------------------
(* The paths of the three kinds of scope, and whom they name.              *)
PathOf(parts) ==
  CASE Len(parts) = 1 -> <<"orgs", parts[1]>>
    [] Len(parts) = 2 /\ ScopeOfTwo(parts) = "Enterprise" -> <<"enterprises", parts[2]>>
    [] OTHER -> <<"repos", parts[1], parts[2]>>

OwnerOf(parts) ==
  IF Len(parts) = 2 /\ ScopeOfTwo(parts) = "Enterprise" THEN <<"", parts[2]>> ELSE parts

LEMMA PartsTyped ==
  ASSUME NEW url \in Urls
  PROVE  Parts(url) \in Seq(STRING \ {""})
BY WithoutTyped, ClientSetupAssumption DEF Parts

(* A sequence of one or two elements is the tuple of them.                 *)
LEMMA OneOrTwo ==
  ASSUME NEW S, NEW s \in Seq(S)
  PROVE  /\ Len(s) = 1 => s[1] \in S /\ s = <<s[1]>>
         /\ Len(s) = 2 => s[1] \in S /\ s[2] \in S /\ s = <<s[1], s[2]>>
OBVIOUS

(* The three kinds of scope, by the names in the URL.                      *)
Org(path, owner, a) == path = <<"orgs", a>> /\ owner = <<a>>
Ent(path, owner, b) == path = <<"enterprises", b>> /\ owner = <<"", b>>
Repo(path, owner, a, b) == path = <<"repos", a, b>> /\ owner = <<a, b>> /\ a # ""
Kind(path, owner) == \E a, b : Org(path, owner, a) \/ Ent(path, owner, b) \/ Repo(path, owner, a, b)

LEMMA PathOfOne ==
  ASSUME NEW s, Len(s) = 1
  PROVE  PathOf(s) = <<"orgs", s[1]>> /\ OwnerOf(s) = s
BY DEF PathOf, OwnerOf

LEMMA PathOfEnterprise ==
  ASSUME NEW s, Len(s) = 2, ScopeOfTwo(s) = "Enterprise"
  PROVE  PathOf(s) = <<"enterprises", s[2]>> /\ OwnerOf(s) = <<"", s[2]>>
BY DEF PathOf, OwnerOf

LEMMA PathOfRepository ==
  ASSUME NEW s, Len(s) = 2, ScopeOfTwo(s) # "Enterprise"
  PROVE  PathOf(s) = <<"repos", s[1], s[2]>> /\ OwnerOf(s) = s
<1>1. PathOf(s) = <<"repos", s[1], s[2]>>
  BY DEF PathOf
<1>2. OwnerOf(s) = s
  BY DEF OwnerOf
<1> QED BY <1>1, <1>2

LEMMA Kinds ==
  ASSUME NEW S, NEW s \in Seq(S), "" \notin S, Len(s) \in {1, 2}
  PROVE  Kind(PathOf(s), OwnerOf(s))
<1>1. /\ Len(s) = 1 => s = <<s[1]>>
      /\ Len(s) = 2 => s[1] # "" /\ s = <<s[1], s[2]>>
  BY OneOrTwo
<1>2. CASE Len(s) = 1
  <2>1. Org(PathOf(s), OwnerOf(s), s[1])
    BY <1>1, <1>2, PathOfOne DEF Org
  <2> QED BY <2>1 DEF Kind
<1>3. CASE Len(s) = 2 /\ ScopeOfTwo(s) = "Enterprise"
  <2>1. Ent(PathOf(s), OwnerOf(s), s[2])
    BY <1>3, PathOfEnterprise DEF Ent
  <2> QED BY <2>1 DEF Kind
<1>4. CASE Len(s) = 2 /\ ScopeOfTwo(s) # "Enterprise"
  <2>1. Repo(PathOf(s), OwnerOf(s), s[1], s[2])
    BY <1>1, <1>4, PathOfRepository DEF Repo
  <2> QED BY <2>1 DEF Kind
<1> QED BY <1>2, <1>3, <1>4

LEMMA PathIsOwners ==
  ASSUME NEW path, NEW owner, NEW otherPath, NEW otherOwner,
         Kind(path, owner), Kind(otherPath, otherOwner)
  PROVE  path = otherPath <=> owner = otherOwner
<1>1. PICK a, b : Org(path, owner, a) \/ Ent(path, owner, b) \/ Repo(path, owner, a, b)
  BY DEF Kind
<1>2. PICK c, d : Org(otherPath, otherOwner, c) \/ Ent(otherPath, otherOwner, d)
                    \/ Repo(otherPath, otherOwner, c, d)
  BY DEF Kind
<1>3. CASE Org(path, owner, a)
  <2>1. CASE Org(otherPath, otherOwner, c)
    BY <1>3, <2>1 DEF Org
  <2>2. CASE Ent(otherPath, otherOwner, d)
    BY <1>3, <2>2 DEF Org, Ent
  <2>3. CASE Repo(otherPath, otherOwner, c, d)
    BY <1>3, <2>3 DEF Org, Repo
  <2> QED BY <1>2, <2>1, <2>2, <2>3
<1>4. CASE Ent(path, owner, b)
  <2>1. CASE Org(otherPath, otherOwner, c)
    BY <1>4, <2>1 DEF Org, Ent
  <2>2. CASE Ent(otherPath, otherOwner, d)
    BY <1>4, <2>2 DEF Ent
  <2>3. CASE Repo(otherPath, otherOwner, c, d)
    BY <1>4, <2>3 DEF Ent, Repo
  <2> QED BY <1>2, <2>1, <2>2, <2>3
<1>5. CASE Repo(path, owner, a, b)
  <2>1. CASE Org(otherPath, otherOwner, c)
    BY <1>5, <2>1 DEF Org, Repo
  <2>2. CASE Ent(otherPath, otherOwner, d)
    BY <1>5, <2>2 DEF Ent, Repo
  <2>3. CASE Repo(otherPath, otherOwner, c, d)
    BY <1>5, <2>3 DEF Repo
  <2> QED BY <1>2, <2>1, <2>2, <2>3
<1> QED BY <1>1, <1>3, <1>4, <1>5

(* What follows the owner in the path of a registration token.             *)
Rest == <<"actions", "runners", "registration-token">>

LEMMA TokenPathIsPath ==
  ASSUME NEW c, NEW parts, Len(parts) \in {1, 2}, c.names = parts,
         c.scope = IF Len(parts) = 1 THEN "Organization" ELSE ScopeOfTwo(parts)
  PROVE  TokenPath(c) = PathOf(parts) \o Rest
<1>1. CASE Len(parts) = 1
  BY <1>1 DEF TokenPath, PathOf, Rest
<1>2. CASE Len(parts) = 2 /\ ScopeOfTwo(parts) = "Enterprise"
  BY <1>2 DEF TokenPath, PathOf, Rest
<1>3. CASE Len(parts) = 2 /\ ScopeOfTwo(parts) # "Enterprise"
  <2>1. ScopeOfTwo(parts) = "Repository"
    BY <1>3 DEF ScopeOfTwo
  <2> QED BY <1>3, <2>1 DEF TokenPath, PathOf, Rest
<1> QED BY <1>1, <1>2, <1>3

(* The same continuation of two sequences ends them at the same place.     *)
LEMMA SameEnd ==
  ASSUME NEW S, NEW p \in Seq(S), NEW q \in Seq(S), NEW rest \in Seq(S),
         p \o rest = q \o rest
  PROVE  p = q
<1>1. Len(p) = Len(q)
  <2>1. Len(p \o rest) = Len(p) + Len(rest) /\ Len(q \o rest) = Len(q) + Len(rest)
    BY ConcatProperties
  <2> QED BY <2>1
<1>2. \A i \in 1..Len(p) : p[i] = (p \o rest)[i] /\ q[i] = (q \o rest)[i]
  BY <1>1
<1> QED BY <1>1, <1>2, SeqEqual

LEMMA TuplesTyped ==
  ASSUME NEW T, NEW a \in T, NEW b \in T, NEW c \in T
  PROVE  <<a, b>> \in Seq(T) /\ <<a, b, c>> \in Seq(T)
OBVIOUS

LEMMA SamePath ==
  ASSUME NEW S, NEW p \in Seq(S), NEW q \in Seq(S), "" \notin S,
         Len(p) \in {1, 2}, Len(q) \in {1, 2}
  PROVE  PathOf(p) \o Rest = PathOf(q) \o Rest <=> OwnerOf(p) = OwnerOf(q)
<1> DEFINE T == S \cup {"orgs", "enterprises", "repos", "actions", "runners", "registration-token"}
<1>1. ASSUME NEW a \in T, NEW b \in T
      PROVE  /\ <<"orgs", a>> \in Seq(T) /\ <<"enterprises", a>> \in Seq(T)
             /\ <<"repos", a, b>> \in Seq(T)
  <2>1. "orgs" \in T /\ "enterprises" \in T /\ "repos" \in T
    OBVIOUS
  <2> HIDE DEF T
  <2> QED BY <1>1, <2>1, TuplesTyped
<1>2. Rest \in Seq(T)
  <2>1. "actions" \in T /\ "runners" \in T /\ "registration-token" \in T
    OBVIOUS
  <2> HIDE DEF T
  <2> QED BY <2>1, TuplesTyped DEF Rest
<1>3. S \subseteq T
  OBVIOUS
<1> HIDE DEF T
<1>4. ASSUME NEW s \in Seq(S), Len(s) \in {1, 2}
      PROVE  PathOf(s) \in Seq(T)
  <2>1. /\ Len(s) = 1 => s[1] \in T
        /\ Len(s) = 2 => s[1] \in T /\ s[2] \in T
    BY <1>3, OneOrTwo
  <2>2. CASE Len(s) = 1
    BY <1>1, <2>1, <2>2, PathOfOne
  <2>3. CASE Len(s) = 2 /\ ScopeOfTwo(s) = "Enterprise"
    BY <1>1, <2>1, <2>3, PathOfEnterprise
  <2>4. CASE Len(s) = 2 /\ ScopeOfTwo(s) # "Enterprise"
    BY <1>1, <2>1, <2>4, PathOfRepository
  <2> QED BY <1>4, <2>2, <2>3, <2>4
<1>5. PathOf(p) \in Seq(T) /\ PathOf(q) \in Seq(T)
  BY <1>4
<1>6. PathOf(p) \o Rest = PathOf(q) \o Rest => PathOf(p) = PathOf(q)
  BY ONLY <1>2, <1>5, SameEnd
<1>7. PathOf(p) = PathOf(q) <=> OwnerOf(p) = OwnerOf(q)
  BY Kinds, PathIsOwners
<1> QED BY <1>6, <1>7

(* A client that asks for tokens was made from a URL of one or two names.  *)
Scoped ==
  pc \in {"installation", "registration"} =>
    /\ config.names = Parts(input) /\ Len(Parts(input)) \in {1, 2}
    /\ config.scope = IF Len(Parts(input)) = 1 THEN "Organization" ELSE ScopeOfTwo(Parts(input))

LEMMA ScopedStep == Scoped /\ [Next]_vars => Scoped'
<1> SUFFICES ASSUME Scoped, [Next]_vars PROVE Scoped'
  OBVIOUS
<1>1. CASE New
  <2>1. CASE ParseConfig(input, forceGhes) # None /\ config' = ParseConfig(input, forceGhes)
    BY <1>1, <2>1 DEF New, ParseConfig, Scoped
  <2>2. CASE Fail
    BY <2>2 DEF Fail, Scoped
  <2> QED BY <1>1, <2>1, <2>2 DEF New
<1>2. CASE ~New
  <2>1. pc' \in {"installation", "registration"} => pc \in {"installation", "registration"}
    BY <1>2 DEF Next, vars, SetEnvironment, FetchInstallationToken, GetRegistrationToken,
                GetAdminConnection, ReadExpiry, Call, Fail
  <2>2. UNCHANGED <<input, config>>
    BY <1>2 DEF Next, vars, SetEnvironment, FetchInstallationToken, GetRegistrationToken,
                GetAdminConnection, ReadExpiry, Call, Fail
  <2> QED BY <2>1, <2>2 DEF Scoped
<1> QED BY <1>1, <1>2

(* registration_token_path: the token is asked for at the path of the one  *)
(* owner the URL names, and of no other.                                   *)
THEOREM OneScope == Spec => []ScopeUnambiguous
<1>1. Init => Scoped
  BY DEF Init, Scoped
<1>2. TypeOK /\ Scoped => ScopeUnambiguous
  <2> SUFFICES ASSUME TypeOK, Scoped, pc \in {"installation", "registration"}, NEW url \in Urls,
                      ParseConfig(url, forceGhes) # None
               PROVE  TokenPath(ParseConfig(url, forceGhes)) = TokenPath(config)
                        <=> Owner(url) = Owner(input)
    BY DEF ScopeUnambiguous
  <2> DEFINE p == Parts(url)
             q == Parts(input)
             c == ParseConfig(url, forceGhes)
  <2>1. p \in Seq(STRING \ {""}) /\ q \in Seq(STRING \ {""})
    BY PartsTyped DEF TypeOK
  <2>2. Len(p) \in {1, 2} /\ c.names = p
        /\ c.scope = IF Len(p) = 1 THEN "Organization" ELSE ScopeOfTwo(p)
    BY DEF ParseConfig
  <2>3. /\ Len(q) \in {1, 2} /\ config.names = q
        /\ config.scope = IF Len(q) = 1 THEN "Organization" ELSE ScopeOfTwo(q)
    BY DEF Scoped
  <2>4. Owner(url) = OwnerOf(p) /\ Owner(input) = OwnerOf(q)
    BY DEF Owner, OwnerOf, ScopeOfTwo
  <2> HIDE DEF c, p, q
  <2>5. TokenPath(c) = PathOf(p) \o Rest
    BY ONLY <2>2, TokenPathIsPath
  <2>6. TokenPath(config) = PathOf(q) \o Rest
    BY ONLY <2>3, TokenPathIsPath
  <2> DEFINE S == STRING \ {""}
  <2>7. "" \notin S
    OBVIOUS
  <2> HIDE DEF S
  <2>8. PathOf(p) \o Rest = PathOf(q) \o Rest <=> OwnerOf(p) = OwnerOf(q)
    BY <2>1, <2>2, <2>3, <2>7, SamePath DEF S
  <2> QED BY <2>4, <2>5, <2>6, <2>8 DEF c
<1>3. Spec => []Scoped
  BY <1>1, ScopedStep, PTL DEF Spec
<1> QED BY <1>2, <1>3, Typing, PTL

-----------------------------------------------------------------------------
Six == 0..63
Eight == 0..255

(* Three bytes as four values of six bits, and back.                       *)
First(a) == a \div 4
Second(a, b) == (a % 4) * 16 + b \div 16
Third(b, c) == (b % 16) * 4 + c \div 64
Fourth(c) == c % 64

LEMMA SixBits ==
  ASSUME NEW a \in Eight, NEW b \in Eight, NEW c \in Eight
  PROVE  /\ First(a) \in Six /\ Second(a, b) \in Six
         /\ Third(b, c) \in Six /\ Fourth(c) \in Six
BY DEF First, Second, Third, Fourth, Six, Eight

LEMMA EightBits ==
  ASSUME NEW a \in Eight, NEW b \in Eight, NEW c \in Eight
  PROVE  /\ Byte(First(a) * 4) + Second(a, b) \div 16 = a
         /\ GroupMiddle(Second(a, b), Third(b, c)) = b
         /\ Byte(Third(b, c) * 64) + Fourth(c) = c
<1>1. Byte(First(a) * 4) + Second(a, b) \div 16 = a
  BY DEF Byte, First, Second, Eight
<1>2. GroupMiddle(Second(a, b), Third(b, c)) = b
  BY DEF Byte, GroupMiddle, Second, Third, Eight
<1>3. Byte(Third(b, c) * 64) + Fourth(c) = c
  BY DEF Byte, Third, Fourth, Eight
<1> QED BY <1>1, <1>2, <1>3

LEMMA Joined ==
  ASSUME NEW S, NEW a \in S, NEW b \in S, NEW c \in S
  PROVE  /\ <<a>> \o <<b>> \o <<c>> = <<a, b, c>> /\ <<a>> \o <<b>> \o <<>> = <<a, b>>
         /\ <<a>> \o <<>> \o <<>> = <<a>>
<1>1. <<a>> \in Seq(S) /\ <<b>> \in Seq(S) /\ <<c>> \in Seq(S) /\ <<a, b>> \in Seq(S)
  OBVIOUS
<1>2. ASSUME NEW s \in Seq(S), NEW x \in S
      PROVE  s \o <<x>> = Append(s, x)
  OBVIOUS
<1>3. <<a>> \o <<b>> = <<a, b>> /\ <<a, b>> \o <<c>> = <<a, b, c>>
  <2>1. ASSUME NEW s \in Seq(S), NEW x \in S
        PROVE  /\ Append(s, x) \in Seq(S) /\ Len(Append(s, x)) = Len(s) + 1
               /\ \A i \in 1..Len(s) : Append(s, x)[i] = s[i]
               /\ Append(s, x)[Len(s) + 1] = x
    BY AppendProperties
  <2>2. /\ Append(<<a>>, b) \in Seq(S) /\ Len(Append(<<a>>, b)) = 2
        /\ Append(<<a>>, b)[1] = a /\ Append(<<a>>, b)[2] = b
    BY <1>1, <2>1
  <2>3. /\ Append(<<a, b>>, c) \in Seq(S) /\ Len(Append(<<a, b>>, c)) = 3
        /\ Append(<<a, b>>, c)[1] = a /\ Append(<<a, b>>, c)[2] = b /\ Append(<<a, b>>, c)[3] = c
    BY <1>1, <2>1
  <2>4. \A s \in Seq(S) : /\ Len(s) = 2 => s = <<s[1], s[2]>>
                          /\ Len(s) = 3 => s = <<s[1], s[2], s[3]>>
    OBVIOUS
  <2> QED BY <1>1, <1>2, <2>2, <2>3, <2>4
<1>4. <<a>> \o <<>> = <<a>> /\ <<a, b>> \o <<>> = <<a, b>>
  BY <1>1, ConcatEmptySeq
<1> QED BY ONLY <1>3, <1>4

LEMMA MappedSeq ==
  ASSUME NEW S, NEW m \in Nat, NEW f, f = [i \in 1..m |-> f[i]], \A i \in 1..m : f[i] \in S
  PROVE  f \in Seq(S) /\ Len(f) = m
<1>1. f \in [1..m -> S]
  <2> DEFINE D == 1..m
  <2>1. f = [i \in D |-> f[i]] /\ \A i \in D : f[i] \in S
    OBVIOUS
  <2> HIDE DEF D
  <2> QED BY ONLY <2>1 DEF D
<1> QED BY ONLY <1>1, m \in Nat

(* decode_b64, one group: as many bytes as it has characters, less one.    *)
LEMMA GroupExact ==
  ASSUME NEW a \in Eight, NEW b \in Eight, NEW c \in Eight, NEW g,
         g[1] = First(a), g[2] = Second(a, b)
  PROVE  /\ g[3] = Third(b, c) /\ g[4] = Fourth(c) => Group(g) = <<a, b, c>>
         /\ g[3] = Third(b, c) /\ g[4] = Pad => Group(g) = <<a, b>>
         /\ g[3] = Pad /\ g[4] = Pad => Group(g) = <<a>>
<1> DEFINE p == First(a)
           q == Second(a, b)
           r == Third(b, c)
           t == Fourth(c)
<1>1. Val(p) = p /\ Val(q) = q /\ Val(r) = r /\ Val(t) = t /\ r # Pad /\ t # Pad
  <2>1. p \in Six /\ q \in Six /\ r \in Six /\ t \in Six
    BY ONLY a \in Eight, b \in Eight, c \in Eight, SixBits
  <2> HIDE DEF p, q, r, t
  <2> QED BY ONLY <2>1 DEF Val, Pad, Six
<1>2. /\ Byte(p * 4) + q \div 16 = a /\ GroupMiddle(q, r) = b
      /\ Byte(r * 64) + t = c
  BY ONLY a \in Eight, b \in Eight, c \in Eight, EightBits
<1>3. g[1] = p /\ g[2] = q
  OBVIOUS
<1> HIDE DEF p, q, r, t
<1>4. Byte(Val(g[1]) * 4) + Val(g[2]) \div 16 = a
  BY ONLY <1>1, <1>2, <1>3
<1>5. ASSUME g[3] = r
      PROVE  g[3] # Pad /\ GroupMiddle(Val(g[2]), Val(g[3])) = b
  BY ONLY <1>1, <1>2, <1>3, <1>5
<1>6. ASSUME g[3] = r, g[4] = t
      PROVE  g[4] # Pad /\ Byte(Val(g[3]) * 64) + Val(g[4]) = c
  BY ONLY <1>1, <1>2, <1>6
<1>7. /\ <<a>> \o <<b>> \o <<c>> = <<a, b, c>> /\ <<a>> \o <<b>> \o <<>> = <<a, b>>
      /\ <<a>> \o <<>> \o <<>> = <<a>>
  BY ONLY a \in Eight, b \in Eight, c \in Eight, Joined
<1>8. ASSUME g[3] = r, g[4] = t
      PROVE  Group(g) = <<a, b, c>>
  <2>1. Group(g) = <<a>> \o <<b>> \o <<c>>
    BY ONLY <1>4, <1>5, <1>6, <1>8 DEF Group
  <2> QED BY ONLY <1>7, <2>1
<1>9. ASSUME g[3] = r, g[4] = Pad
      PROVE  Group(g) = <<a, b>>
  <2>1. Group(g) = <<a>> \o <<b>> \o <<>>
    BY ONLY <1>4, <1>5, <1>9 DEF Group
  <2> QED BY ONLY <1>7, <2>1
<1>10. ASSUME g[3] = Pad, g[4] = Pad
       PROVE  Group(g) = <<a>>
  <2>1. Group(g) = <<a>> \o <<>> \o <<>>
    BY ONLY <1>4, <1>10 DEF Group
  <2> QED BY ONLY <1>7, <2>1
<1> QED BY <1>8, <1>9, <1>10 DEF r, t

-----------------------------------------------------------------------------
(* The characters of the text, as decode_b64 sees them.                    *)
LEMMA AtTyped ==
  ASSUME NEW bytes \in Seq(Eight), NEW k \in Nat \ {0}
  PROVE  At(bytes, k) \in Eight
<1>1. CASE k <= Len(bytes)
  <2>1. k \in 1..Len(bytes)
    BY <1>1
  <2>2. bytes[k] \in Eight
    BY <2>1, ElementOfSeq
  <2> QED BY <1>1, <2>2 DEF At
<1>2. CASE ~(k <= Len(bytes))
  <2>1. At(bytes, k) = 0
    BY <1>2 DEF At
  <2> QED BY <2>1 DEF Eight
<1> QED BY <1>1, <1>2

LEMMA Sextets ==
  ASSUME NEW bytes \in Seq(Eight), NEW k \in Nat
  PROVE  /\ Sextet(bytes, 4 * k + 1) = First(At(bytes, 3 * k + 1))
         /\ Sextet(bytes, 4 * k + 2) = Second(At(bytes, 3 * k + 1), At(bytes, 3 * k + 2))
         /\ Sextet(bytes, 4 * k + 3) = Third(At(bytes, 3 * k + 2), At(bytes, 3 * k + 3))
         /\ Sextet(bytes, 4 * k + 4) = Fourth(At(bytes, 3 * k + 3))
<1>1. ASSUME NEW i \in 0..3
      PROVE  /\ 3 * (((4 * k + 1 + i) - 1) \div 4) = 3 * k
             /\ ((4 * k + 1 + i) - 1) % 4 = i
  OBVIOUS
<1>2. Sextet(bytes, 4 * k + 1) = First(At(bytes, 3 * k + 1))
  <2>1. 3 * (((4 * k + 1) - 1) \div 4) = 3 * k /\ ((4 * k + 1) - 1) % 4 = 0
    BY <1>1
  <2> QED BY <2>1 DEF Sextet, First
<1>3. Sextet(bytes, 4 * k + 2) = Second(At(bytes, 3 * k + 1), At(bytes, 3 * k + 2))
  <2>1. 3 * (((4 * k + 2) - 1) \div 4) = 3 * k /\ ((4 * k + 2) - 1) % 4 = 1
    BY <1>1
  <2> QED BY <2>1 DEF Sextet, Second
<1>4. Sextet(bytes, 4 * k + 3) = Third(At(bytes, 3 * k + 2), At(bytes, 3 * k + 3))
  <2>1. 3 * (((4 * k + 3) - 1) \div 4) = 3 * k /\ ((4 * k + 3) - 1) % 4 = 2
    BY <1>1
  <2> QED BY <2>1 DEF Sextet, Third
<1>5. Sextet(bytes, 4 * k + 4) = Fourth(At(bytes, 3 * k + 3))
  <2>1. 3 * (((4 * k + 4) - 1) \div 4) = 3 * k /\ ((4 * k + 4) - 1) % 4 = 3
    BY <1>1
  <2> QED BY <2>1 DEF Sextet, Fourth
<1> QED BY <1>2, <1>3, <1>4, <1>5

LEMMA SextetTyped ==
  ASSUME NEW bytes \in Seq(Eight), NEW j \in Nat \ {0}
  PROVE  Sextet(bytes, j) \in Six
<1>1. PICK k \in Nat : \E i \in 1..4 : j = 4 * k + i
  <2>1. (j - 1) \div 4 \in Nat /\ (j - 1) % 4 \in 0..3
        /\ j = 4 * ((j - 1) \div 4) + (((j - 1) % 4) + 1)
    OBVIOUS
  <2> QED BY <2>1
<1>2. /\ At(bytes, 3 * k + 1) \in Eight /\ At(bytes, 3 * k + 2) \in Eight
      /\ At(bytes, 3 * k + 3) \in Eight
  BY AtTyped
<1>3. /\ Sextet(bytes, 4 * k + 1) \in Six /\ Sextet(bytes, 4 * k + 2) \in Six
      /\ Sextet(bytes, 4 * k + 3) \in Six /\ Sextet(bytes, 4 * k + 4) \in Six
  <2> DEFINE a == At(bytes, 3 * k + 1)
             b == At(bytes, 3 * k + 2)
             c == At(bytes, 3 * k + 3)
  <2>1. /\ First(a) \in Six /\ Second(a, b) \in Six
        /\ Third(b, c) \in Six /\ Fourth(c) \in Six
    BY ONLY <1>2, SixBits
  <2>2. /\ Sextet(bytes, 4 * k + 1) = First(a) /\ Sextet(bytes, 4 * k + 2) = Second(a, b)
        /\ Sextet(bytes, 4 * k + 3) = Third(b, c) /\ Sextet(bytes, 4 * k + 4) = Fourth(c)
    BY Sextets
  <2> HIDE DEF a, b, c
  <2> QED BY ONLY <2>1, <2>2
<1>4. PICK i \in 1..4 : j = 4 * k + i
  BY <1>1
<1>5. i = 1 \/ i = 2 \/ i = 3 \/ i = 4
  OBVIOUS
<1> QED BY ONLY <1>3, <1>4, <1>5

(* The two characters that differ between the alphabets.                   *)
LEMMA ReadBack ==
  ASSUME NEW v \in Six, NEW url, NEW std,
         url = CASE v = 62 -> Dash [] v = 63 -> Underscore [] OTHER -> v,
         std = CASE url = Dash -> 62 [] url = Underscore -> 63 [] OTHER -> url
  PROVE  std = v
<1>1. Dash # Underscore /\ v # Dash /\ v # Underscore
  BY DEF Dash, Underscore, Six
<1>2. CASE v = 62
  BY ONLY <1>1, <1>2, url = CASE v = 62 -> Dash [] v = 63 -> Underscore [] OTHER -> v,
          std = CASE url = Dash -> 62 [] url = Underscore -> 63 [] OTHER -> url
<1>3. CASE v = 63
  BY <1>1, <1>3
<1>4. CASE v # 62 /\ v # 63
  BY <1>1, <1>4
<1> QED BY <1>2, <1>3, <1>4

(* parse_exp_from_payload: the text in the alphabet of decode_b64, filled  *)
(* up to whole groups.                                                     *)
LEMMA Normalized ==
  ASSUME NEW bytes \in Seq(Eight)
  PROVE  LET text == Normalize(Base64Url(bytes))
             chars == (8 * Len(bytes) + 5) \div 6
         IN /\ text \in Seq(Int) /\ Len(text) = 4 * ((Len(bytes) + 2) \div 3)
            /\ \A i \in 1..Len(text) : text[i] = IF i <= chars THEN Sextet(bytes, i) ELSE Pad
<1> DEFINE n == Len(bytes)
           m == (8 * n + 5) \div 6
           url == Base64Url(bytes)
           std == [i \in DOMAIN url |-> CASE url[i] = Dash -> 62
                                          [] url[i] = Underscore -> 63 [] OTHER -> url[i]]
           fill == (4 - (m % 4)) % 4
           pads == [i \in 1..fill |-> Pad]
<1>1. n \in Nat /\ m \in Nat /\ fill \in 0..3
  OBVIOUS
<1>2. m + fill = 4 * ((n + 2) \div 3)
  <2>1. PICK q \in Nat, r \in 0..2 : n = 3 * q + r
    <3>1. n \div 3 \in Nat /\ n % 3 \in 0..2 /\ n = 3 * (n \div 3) + (n % 3)
      BY <1>1
    <3> QED BY <3>1
  <2> HIDE DEF n
  <2>2. CASE r = 0
    BY <2>1, <2>2
  <2>3. CASE r = 1
    BY <2>1, <2>3
  <2>4. CASE r = 2
    BY <2>1, <2>4
  <2> QED BY <2>1, <2>2, <2>3, <2>4
<1> HIDE DEF n
<1> HIDE DEF m
<1>3. DOMAIN url = 1..m /\ \A i \in 1..m : url[i] = CASE Sextet(bytes, i) = 62 -> Dash
                                                   [] Sextet(bytes, i) = 63 -> Underscore
                                                   [] OTHER -> Sextet(bytes, i)
  BY DEF Base64Url, m, n
<1>4. url \in Seq(Int) /\ Len(url) = m
  <2>1. ASSUME NEW i \in 1..m PROVE url[i] \in Int
    <3>1. i \in Nat \ {0}
      BY <1>1
    <3>2. Sextet(bytes, i) \in Six
      BY <3>1, SextetTyped
    <3>3. Dash \in Int /\ Underscore \in Int /\ Six \subseteq Int
      BY DEF Dash, Underscore, Six
    <3>4. url[i] \in {Dash, Underscore, Sextet(bytes, i)}
      BY <1>3
    <3> QED BY ONLY <3>2, <3>3, <3>4
  <2>2. url = [i \in 1..m |-> url[i]]
    BY DEF Base64Url, m, n
  <2> HIDE DEF url
  <2> QED BY ONLY <1>1, <2>1, <2>2, MappedSeq
<1>5. ASSUME NEW i \in 1..m PROVE std[i] = Sextet(bytes, i)
  <2>1. Sextet(bytes, i) \in Six
    <3>1. i \in Nat \ {0}
      BY <1>1
    <3> QED BY <3>1, SextetTyped
  <2>2. std[i] = CASE url[i] = Dash -> 62 [] url[i] = Underscore -> 63 [] OTHER -> url[i]
    BY <1>3
  <2> HIDE DEF std
  <2>3. url[i] = CASE Sextet(bytes, i) = 62 -> Dash
                   [] Sextet(bytes, i) = 63 -> Underscore
                   [] OTHER -> Sextet(bytes, i)
    BY <1>3
  <2> HIDE DEF url
  <2> QED BY ONLY <2>1, <2>2, <2>3, ReadBack
<1>6. Normalize(url) = std \o pads
  BY <1>4 DEF Normalize
<1>7. std \in Seq(Int) /\ Len(std) = m
  <2>1. ASSUME NEW i \in 1..m PROVE std[i] \in Int
    <3>1. i \in Nat \ {0}
      BY <1>1
    <3>2. Sextet(bytes, i) \in Six
      BY <3>1, SextetTyped
    <3>3. Six \subseteq Int
      BY DEF Six
    <3> QED BY <1>5, <3>2, <3>3
  <2>2. std = [i \in 1..m |-> std[i]]
    BY <1>3
  <2> HIDE DEF std
  <2> QED BY ONLY <1>1, <2>1, <2>2, MappedSeq
<1> HIDE DEF url, std, fill
<1>8. pads \in Seq(Int) /\ Len(pads) = fill
  BY <1>1 DEF Pad
<1>9. /\ std \o pads \in Seq(Int) /\ Len(std \o pads) = m + fill
      /\ \A i \in 1..m + fill : (std \o pads)[i] = IF i <= m THEN std[i] ELSE pads[i - m]
  BY <1>1, <1>7, <1>8, ConcatProperties
<1>10. \A i \in 1..m + fill : i > m => pads[i - m] = Pad
  BY <1>1
<1> HIDE DEF pads
<1>11. Len(std \o pads) = 4 * ((n + 2) \div 3)
  BY ONLY <1>2, <1>9
<1>12. ASSUME NEW i \in 1..Len(std \o pads)
       PROVE  (std \o pads)[i] = IF i <= m THEN Sextet(bytes, i) ELSE Pad
  <2>1. i \in 1..m + fill
    BY <1>9
  <2>2. CASE i <= m
    BY <1>1, <1>5, <1>9, <2>1, <2>2
  <2>3. CASE ~(i <= m)
    BY <1>1, <1>9, <1>10, <2>1, <2>3
  <2> QED BY <2>2, <2>3
<1> QED BY <1>6, <1>9, <1>11, <1>12 DEF n, m, url

-----------------------------------------------------------------------------
(* The k-th group is decoded to the k-th three bytes, or what is left.     *)
EndOf(bytes, k) == IF 3 * k <= Len(bytes) THEN 3 * k ELSE Len(bytes)

LEMMA GroupPlaces ==
  ASSUME NEW n \in Nat, NEW k \in Nat, k < (n + 2) \div 3
  PROVE  LET m == (8 * n + 5) \div 6
         IN /\ 3 * k + 1 <= n /\ 4 * k + 2 <= m
            /\ 3 * k + 2 <= n <=> 4 * k + 3 <= m
            /\ 3 * k + 3 <= n <=> 4 * k + 4 <= m
OBVIOUS

LEMMA GroupOfText ==
  ASSUME NEW bytes \in Seq(Eight), NEW k \in Nat, k < (Len(bytes) + 2) \div 3
  PROVE  Group(SubSeq(Normalize(Base64Url(bytes)), 4 * k + 1, 4 * k + 4))
           = SubSeq(bytes, 3 * k + 1, EndOf(bytes, k + 1))
<1> DEFINE n == Len(bytes)
           m == (8 * n + 5) \div 6
           text == Normalize(Base64Url(bytes))
           g == SubSeq(text, 4 * k + 1, 4 * k + 4)
           a == At(bytes, 3 * k + 1)
           b == At(bytes, 3 * k + 2)
           c == At(bytes, 3 * k + 3)
           rest == SubSeq(bytes, 3 * k + 1, EndOf(bytes, k + 1))
<1>1. /\ n \in Nat /\ m \in Nat /\ text \in Seq(Int) /\ Len(text) = 4 * ((n + 2) \div 3)
      /\ \A i \in 1..Len(text) : text[i] = IF i <= m THEN Sextet(bytes, i) ELSE Pad
  BY Normalized
<1>2. /\ 3 * k + 1 <= n /\ 4 * k + 2 <= m
      /\ 3 * k + 2 <= n <=> 4 * k + 3 <= m
      /\ 3 * k + 3 <= n <=> 4 * k + 4 <= m
  BY GroupPlaces
<1>3. a \in Eight /\ b \in Eight /\ c \in Eight
  BY AtTyped
<1>4. /\ Sextet(bytes, 4 * k + 1) = First(a) /\ Sextet(bytes, 4 * k + 2) = Second(a, b)
      /\ Sextet(bytes, 4 * k + 3) = Third(b, c) /\ Sextet(bytes, 4 * k + 4) = Fourth(c)
  BY Sextets
<1>5. 4 * k + 4 <= Len(text)
  <2> HIDE DEF text, m, n
  <2>1. k + 1 <= (n + 2) \div 3
    BY <1>1 DEF n
  <2> QED BY <1>1, <2>1
<1> HIDE DEF text, m, n
<1>6. \A i \in 1..4 : g[i] = text[4 * k + i]
  <2>1. \A i \in 4 * k + 1..4 * k + 4 : text[i] \in Int
    BY <1>1, <1>5
  <2>2. \A i \in 1..(4 * k + 4) - (4 * k + 1) + 1 : g[i] = text[(4 * k + 1) + i - 1]
    BY ONLY <2>1, k \in Nat, SubSeqProperties
  <2> QED BY <2>2
<1> HIDE DEF g
<1>7. /\ g[1] = First(a) /\ g[2] = Second(a, b)
      /\ g[3] = IF 3 * k + 2 <= n THEN Third(b, c) ELSE Pad
      /\ g[4] = IF 3 * k + 3 <= n THEN Fourth(c) ELSE Pad
  <2>1. ASSUME NEW i \in 1..4
        PROVE  g[i] = IF 4 * k + i <= m THEN Sextet(bytes, 4 * k + i) ELSE Pad
    <3>1. 4 * k + i \in 1..Len(text)
      BY <1>1, <1>5
    <3>2. text[4 * k + i] = IF 4 * k + i <= m THEN Sextet(bytes, 4 * k + i) ELSE Pad
      BY ONLY <1>1, <3>1
    <3> QED BY ONLY <1>6, <3>2, i \in 1..4
  <2>2. /\ g[1] = IF 4 * k + 1 <= m THEN Sextet(bytes, 4 * k + 1) ELSE Pad
        /\ g[2] = IF 4 * k + 2 <= m THEN Sextet(bytes, 4 * k + 2) ELSE Pad
        /\ g[3] = IF 4 * k + 3 <= m THEN Sextet(bytes, 4 * k + 3) ELSE Pad
        /\ g[4] = IF 4 * k + 4 <= m THEN Sextet(bytes, 4 * k + 4) ELSE Pad
    <3>1. 1 \in 1..4 /\ 2 \in 1..4 /\ 3 \in 1..4 /\ 4 \in 1..4
      OBVIOUS
    <3> QED BY ONLY <2>1, <3>1
  <2> HIDE DEF a, b, c
  <2>3. 4 * k + 1 <= m
    BY <1>1, <1>2
  <2> QED BY ONLY <1>2, <1>4, <2>2, <2>3
<1>8. Group(g) = IF 3 * k + 3 <= n THEN <<a, b, c>>
                 ELSE IF 3 * k + 2 <= n THEN <<a, b>> ELSE <<a>>
  <2> HIDE DEF a, b, c
  <2>1. 3 * k + 3 <= n => 3 * k + 2 <= n
    BY <1>1
  <2> QED BY ONLY <1>3, <1>7, <2>1, GroupExact
<1>9. /\ rest \in Seq(Eight) /\ Len(rest) = EndOf(bytes, k + 1) - 3 * k
      /\ \A i \in 1..Len(rest) : rest[i] = At(bytes, 3 * k + i)
  <2> DEFINE e == EndOf(bytes, k + 1)
  <2>1. e \in 3 * k + 1..n
    BY <1>1, <1>2 DEF EndOf, n
  <2>2. \A i \in 1..n : bytes[i] \in Eight /\ At(bytes, i) = bytes[i]
    BY ElementOfSeq DEF At, n
  <2> HIDE DEF e
  <2>3. \A i \in 3 * k + 1..e : bytes[i] \in Eight
    BY <1>1, <2>1, <2>2
  <2>4. /\ rest \in Seq(Eight) /\ Len(rest) = IF 3 * k + 1 <= e THEN e - (3 * k + 1) + 1 ELSE 0
        /\ \A i \in 1..e - (3 * k + 1) + 1 : rest[i] = bytes[(3 * k + 1) + i - 1]
    <3>1. e \in Int /\ 3 * k + 1 \in Int
      BY <1>1, <2>1
    <3> QED BY ONLY <2>3, <3>1, SubSeqProperties DEF e
  <2> HIDE DEF rest
  <2>5. Len(rest) = e - 3 * k
    BY <1>1, <2>1, <2>4
  <2>6. \A i \in 1..Len(rest) : rest[i] = At(bytes, 3 * k + i)
    <3> SUFFICES ASSUME NEW i \in 1..Len(rest)
                 PROVE  rest[i] = At(bytes, 3 * k + i)
      OBVIOUS
    <3>1. /\ i \in 1..e - (3 * k + 1) + 1 /\ (3 * k + 1) + i - 1 = 3 * k + i
          /\ 3 * k + i \in 1..n
      BY <1>1, <2>1, <2>5
    <3> QED BY ONLY <2>2, <2>4, <3>1
  <2> QED BY <2>4, <2>5, <2>6 DEF e
<1> HIDE DEF rest
<1>10. EndOf(bytes, k + 1) = IF 3 * k + 3 <= n THEN 3 * k + 3 ELSE n
  <2>1. 3 * (k + 1) = 3 * k + 3
    OBVIOUS
  <2> QED BY <2>1 DEF EndOf, n
<1>11. \A s \in Seq(Eight) : /\ Len(s) = 1 => s = <<s[1]>>
                             /\ Len(s) = 2 => s = <<s[1], s[2]>>
                             /\ Len(s) = 3 => s = <<s[1], s[2], s[3]>>
  OBVIOUS
<1>12. CASE 3 * k + 3 <= n
  <2>1. Len(rest) = 3
    BY ONLY <1>1, <1>9, <1>12, <1>10, k \in Nat
  <2>2. rest = <<rest[1], rest[2], rest[3]>>
    BY <1>9, <1>11, <2>1
  <2>3. rest[1] = a /\ rest[2] = b /\ rest[3] = c
    <3>1. 1 \in 1..Len(rest) /\ 2 \in 1..Len(rest) /\ 3 \in 1..Len(rest)
      BY ONLY <2>1
    <3> QED BY ONLY <1>9, <3>1
  <2> QED BY <1>8, <1>12, <2>2, <2>3 DEF rest, g, text
<1>13. CASE 3 * k + 2 <= n /\ ~(3 * k + 3 <= n)
  <2>1. Len(rest) = 2
    BY ONLY <1>1, <1>9, <1>13, <1>10, k \in Nat
  <2>2. rest = <<rest[1], rest[2]>>
    BY <1>9, <1>11, <2>1
  <2>3. rest[1] = a /\ rest[2] = b
    <3>1. 1 \in 1..Len(rest) /\ 2 \in 1..Len(rest)
      BY ONLY <2>1
    <3> QED BY ONLY <1>9, <3>1
  <2> QED BY <1>8, <1>13, <2>2, <2>3 DEF rest, g, text
<1>14. CASE ~(3 * k + 2 <= n)
  <2>1. Len(rest) = 1 /\ ~(3 * k + 3 <= n)
    BY ONLY <1>1, <1>2, <1>9, <1>14, <1>10, k \in Nat
  <2>2. rest = <<rest[1]>>
    BY <1>9, <1>11, <2>1
  <2>3. rest[1] = a
    <3>1. 1 \in 1..Len(rest)
      BY ONLY <2>1
    <3> QED BY ONLY <1>9, <3>1
  <2> QED BY <1>8, <1>14, <2>1, <2>2, <2>3 DEF rest, g, text
<1> QED BY <1>12, <1>13, <1>14

(* decode_b64, all groups, by induction over them.                         *)
LEMMA DecodedText ==
  ASSUME NEW bytes \in Seq(Eight)
  PROVE  DecodeB64(Normalize(Base64Url(bytes))) = bytes
<1> DEFINE n == Len(bytes)
           text == Normalize(Base64Url(bytes))
           G == Len(text) \div 4
           Is(f) == f = [k \in 0..G |-> IF k = 0 THEN <<>>
                                        ELSE f[k - 1] \o Group(SubSeq(text, 4 * k - 3, 4 * k))]
           g == [k \in 0..G |-> SubSeq(bytes, 1, EndOf(bytes, k))]
           f == CHOOSE f : Is(f)
<1>1. n \in Nat /\ G \in Nat /\ G = (n + 2) \div 3
  <2>1. n \in Nat /\ Len(text) = 4 * ((n + 2) \div 3)
    BY Normalized
  <2> HIDE DEF n, text
  <2> QED BY <2>1
<1>2. ASSUME NEW k \in 1..G
      PROVE  SubSeq(bytes, 1, EndOf(bytes, k))
               = SubSeq(bytes, 1, EndOf(bytes, k - 1)) \o Group(SubSeq(text, 4 * k - 3, 4 * k))
  <2> DEFINE h == k - 1
  <2>1. h \in Nat /\ h < (n + 2) \div 3 /\ h + 1 = k /\ 4 * h + 1 = 4 * k - 3 /\ 4 * h + 4 = 4 * k
    BY <1>1
  <2>2. Group(SubSeq(text, 4 * h + 1, 4 * h + 4)) = SubSeq(bytes, 3 * h + 1, EndOf(bytes, h + 1))
    BY <2>1, GroupOfText
  <2>3. EndOf(bytes, h) = 3 * h /\ EndOf(bytes, h + 1) \in 3 * h + 1..n
    BY <1>1, <2>1, GroupPlaces DEF EndOf
  <2>4. SubSeq(bytes, 1, 3 * h) \o SubSeq(bytes, 3 * h + 1, EndOf(bytes, h + 1))
          = SubSeq(bytes, 1, EndOf(bytes, h + 1))
    <3>1. /\ 1 \in 1..Len(bytes) + 1 /\ 3 * h \in 1 - 1..Len(bytes)
          /\ EndOf(bytes, h + 1) \in 3 * h..Len(bytes)
      BY <1>1, <2>1, <2>3
    <3> HIDE DEF h
    <3> QED BY ONLY <3>1, bytes \in Seq(Eight), ConcatAdjacentSubSeq
  <2> HIDE DEF h, text, n
  <2> QED BY <2>1, <2>2, <2>3, <2>4 DEF h
<1>3. SubSeq(bytes, 1, EndOf(bytes, 0)) = <<>>
  BY <1>1, SubSeqEmpty DEF EndOf
<1> HIDE DEF text, n
<1>4. Is(g)
  <2> HIDE DEF G
  <2>1. \A k \in 0..G : SubSeq(bytes, 1, EndOf(bytes, k))
                          = IF k = 0 THEN <<>>
                            ELSE g[k - 1] \o Group(SubSeq(text, 4 * k - 3, 4 * k))
    <3> SUFFICES ASSUME NEW k \in 0..G, k # 0
                 PROVE  SubSeq(bytes, 1, EndOf(bytes, k))
                          = g[k - 1] \o Group(SubSeq(text, 4 * k - 3, 4 * k))
      BY <1>3
    <3>1. k \in 1..G /\ k - 1 \in 0..G
      BY <1>1
    <3>2. g[k - 1] = SubSeq(bytes, 1, EndOf(bytes, k - 1))
      BY <3>1
    <3> HIDE DEF g
    <3> QED BY <1>2, <3>1, <3>2
  <2> QED BY <2>1
<1> HIDE DEF g
<1>5. Is(f)
  <2> HIDE DEF Is
  <2> QED BY <1>4
<1> HIDE DEF f
<1>6. \A k \in 0..G : f[k] = SubSeq(bytes, 1, EndOf(bytes, k))
  <2> DEFINE I == {k \in Nat : k <= G => f[k] = SubSeq(bytes, 1, EndOf(bytes, k))}
  <2>1. \A k \in 0..G : f[k] = IF k = 0 THEN <<>>
                               ELSE f[k - 1] \o Group(SubSeq(text, 4 * k - 3, 4 * k))
    <3> HIDE DEF G
    <3> QED BY <1>5
  <2> HIDE DEF G
  <2>2. 0 \in I
    <3>1. 0 \in 0..G
      BY <1>1
    <3> QED BY <1>3, <2>1, <3>1
  <2>3. ASSUME NEW k \in Nat, k \in I
        PROVE  k + 1 \in I
    <3>1. SUFFICES ASSUME k + 1 <= G PROVE f[k + 1] = SubSeq(bytes, 1, EndOf(bytes, k + 1))
      OBVIOUS
    <3>2. k + 1 \in 1..G /\ k + 1 # 0 /\ k + 1 \in 0..G /\ (k + 1) - 1 = k /\ k <= G
      BY <1>1, <3>1
    <3>3. f[k + 1] = f[(k + 1) - 1] \o Group(SubSeq(text, 4 * (k + 1) - 3, 4 * (k + 1)))
      BY <2>1, <3>2
    <3>4. f[k] = SubSeq(bytes, 1, EndOf(bytes, k))
      BY <2>3, <3>2
    <3>5. SubSeq(bytes, 1, EndOf(bytes, k + 1))
            = SubSeq(bytes, 1, EndOf(bytes, (k + 1) - 1)) \o Group(SubSeq(text, 4 * (k + 1) - 3, 4 * (k + 1)))
      BY <1>2, <3>2
    <3> QED BY ONLY <3>2, <3>3, <3>4, <3>5
  <2> HIDE DEF I
  <2>4. Nat \subseteq I
    BY <2>2, <2>3, Induction
  <2> QED BY <1>1, <2>4 DEF I
<1>7. DecodeB64(text) = f[G]
  BY DEF DecodeB64, f
<1> HIDE DEF Is
<1>8. EndOf(bytes, G) = n
  <2> HIDE DEF G
  <2> QED BY <1>1 DEF EndOf, n
<1>9. SubSeq(bytes, 1, n) = bytes
  BY SubSeqFull DEF n
<1>10. f[G] = SubSeq(bytes, 1, EndOf(bytes, G))
  <2> HIDE DEF G
  <2>1. G \in 0..G
    BY <1>1
  <2> QED BY ONLY <1>6, <2>1
<1> QED BY ONLY <1>7, <1>8, <1>9, <1>10 DEF text

(* What is being decoded is a payload.                                     *)
Reading == pc = "reading" => admin.bytes \in Payloads

LEMMA ReadingStep == Reading /\ [Next]_vars => Reading'
<1> SUFFICES ASSUME Reading, [Next]_vars PROVE Reading'
  OBVIOUS
<1>1. ASSUME NEW base \in Bases, NEW payload \in Payloads, GetAdminConnection(base, payload)
      PROVE  Reading'
  BY <1>1 DEF GetAdminConnection, Reading
<1>2. CASE New \/ FetchInstallationToken \/ GetRegistrationToken \/ ReadExpiry
  BY <1>2 DEF New, FetchInstallationToken, GetRegistrationToken, ReadExpiry, Fail, Reading
<1>3. CASE SetEnvironment \/ UNCHANGED vars
  BY <1>3 DEF SetEnvironment, vars, Reading
<1>4. ASSUME NEW path \in CallPaths, NEW query \in Queries, Call(path, query)
      PROVE  Reading'
  BY <1>4 DEF Call, Reading
<1> QED BY <1>1, <1>2, <1>3, <1>4 DEF Next

(* decode_b64: no byte of a token's payload is lost or changed, whatever   *)
(* its length.                                                             *)
THEOREM Decoded == Spec => []DecodeExact
<1>1. Init => Reading
  BY DEF Init, Reading
<1>2. Reading => DecodeExact
  <2>1. Payloads \subseteq Seq(Eight)
    BY ClientSetupAssumption DEF Eight
  <2> QED BY <2>1, DecodedText DEF Reading, DecodeExact
<1>3. Spec => []Reading
  BY <1>1, ReadingStep, PTL DEF Spec
<1> QED BY <1>2, <1>3, PTL

-----------------------------------------------------------------------------
(* How often c stands in s.                                                *)
Count(s, c) == Cardinality(Places(s, c))

LEMMA PlacesFinite ==
  ASSUME NEW S, NEW s \in Seq(S), NEW c
  PROVE  IsFiniteSet(Places(s, c)) /\ Count(s, c) \in Nat
<1>1. IsFiniteSet(1..Len(s))
  BY FS_Interval
<1>2. Places(s, c) \in SUBSET (1..Len(s))
  BY DEF Places
<1>3. IsFiniteSet(Places(s, c))
  BY <1>1, <1>2, FS_Subset
<1> QED BY <1>3, FS_CardinalityType DEF Count

(* The places in a text and the one behind it.                             *)
Shifted(s, t, c) == {i \in 1..Len(s) + Len(t) : i > Len(s) /\ i - Len(s) \in Places(t, c)}

LEMMA PlacesConcat ==
  ASSUME NEW S, NEW s \in Seq(S), NEW t \in Seq(S), NEW c
  PROVE  Places(s \o t, c) = Places(s, c) \cup Shifted(s, t, c)
<1> DEFINE A == Places(s, c)
           B == Places(t, c)
           l == Len(s)
           C == {i \in 1..l + Len(t) : i > l /\ i - l \in B}
<1>1. l \in Nat /\ Len(t) \in Nat /\ A \subseteq 1..l /\ B \subseteq 1..Len(t)
  BY DEF Places
<1>2. Places(s \o t, c) = A \cup C
  <2>1. /\ DOMAIN (s \o t) = 1..l + Len(t)
        /\ \A i \in 1..l + Len(t) : (s \o t)[i] = IF i <= l THEN s[i] ELSE t[i - l]
    <3>1. s \o t \in Seq(S) /\ Len(s \o t) = l + Len(t)
      BY ConcatProperties
    <3> QED BY <3>1, ConcatProperties
  <2>2. DOMAIN s = 1..l /\ DOMAIN t = 1..Len(t)
    OBVIOUS
  <2>3. ASSUME NEW i \in 1..l + Len(t)
        PROVE  (s \o t)[i] = c <=> i \in A \cup C
    <3>1. CASE i <= l
      <4>1. i \in DOMAIN s /\ (s \o t)[i] = s[i]
        BY <1>1, <2>1, <3>1
      <4> QED BY <1>1, <3>1, <4>1 DEF Places
    <3>2. CASE i > l
      <4>1. i - l \in DOMAIN t /\ (s \o t)[i] = t[i - l]
        BY <1>1, <2>1, <3>2
      <4>2. i \notin A
        BY <1>1, <3>2
      <4> QED BY <1>1, <3>2, <4>1, <4>2 DEF Places
    <3> QED BY <1>1, <3>1, <3>2
  <2>4. A \cup C \subseteq 1..l + Len(t)
    BY <1>1
  <2> HIDE DEF A, C, l
  <2> QED BY <2>1, <2>3, <2>4 DEF Places
<1> QED BY <1>2 DEF Shifted

LEMMA CountConcat ==
  ASSUME NEW S, NEW s \in Seq(S), NEW t \in Seq(S), NEW c
  PROVE  Count(s \o t, c) = Count(s, c) + Count(t, c)
<1> DEFINE A == Places(s, c)
           B == Places(t, c)
           l == Len(s)
           C == {i \in 1..l + Len(t) : i > l /\ i - l \in B}
           f == [i \in B |-> l + i]
<1>1. l \in Nat /\ Len(t) \in Nat /\ A \subseteq 1..l /\ B \subseteq 1..Len(t)
  BY DEF Places
<1>2. Places(s \o t, c) = A \cup C
  <2>1. C = Shifted(s, t, c)
    BY DEF Shifted
  <2> HIDE DEF A, C
  <2> QED BY <2>1, PlacesConcat DEF A
<1>3. IsFiniteSet(A) /\ IsFiniteSet(B)
  BY PlacesFinite
<1> HIDE DEF A, B
<1>4. ExistsBijection(B, C)
  <2>1. f \in [B -> C]
    BY <1>1
  <2>2. \A i, j \in B : f[i] = f[j] => i = j
    BY <1>1
  <2>3. \A j \in C : \E i \in B : f[i] = j
    <3> SUFFICES ASSUME NEW j \in C PROVE f[j - l] = j /\ j - l \in B
      OBVIOUS
    <3> QED BY <1>1
  <2> HIDE DEF f, C
  <2>4. f \in Bijection(B, C)
    BY <2>1, <2>2, <2>3 DEF Bijection, Injection, Surjection, IsInjective
  <2> QED BY <2>4 DEF ExistsBijection
<1>5. IsFiniteSet(C) /\ Cardinality(C) = Cardinality(B)
  BY <1>3, <1>4, FS_Bijection
<1>6. A \cap C = {}
  BY <1>1
<1> HIDE DEF C
<1>7. Cardinality(A \cup C) = Cardinality(A) + Cardinality(C) - 0
  BY <1>3, <1>5, <1>6, FS_Union, FS_EmptySet
<1>8. Cardinality(A) \in Nat /\ Cardinality(C) \in Nat
  BY <1>3, <1>5, FS_CardinalityType
<1> QED BY <1>2, <1>5, <1>7, <1>8 DEF Count, A, B

LEMMA CountOne ==
  ASSUME NEW x, NEW c
  PROVE  Count(<<x>>, c) = IF x = c THEN 1 ELSE 0
<1>1. Places(<<x>>, c) = IF x = c THEN {1} ELSE {}
  BY DEF Places
<1> QED BY <1>1, FS_Singleton, FS_EmptySet DEF Count

LEMMA CountNone ==
  ASSUME NEW S, NEW s \in Seq(S), NEW c, c \notin S
  PROVE  Count(s, c) = 0
<1>1. Places(s, c) = {}
  BY ElementOfSeq DEF Places
<1> QED BY <1>1, FS_EmptySet DEF Count

-----------------------------------------------------------------------------
(* split and filter of two texts one after the other.                      *)
Behind(v, w, c) == Append(v \o w, c) = v \o Append(w, c)

LEMMA AppendBehind ==
  ASSUME NEW S, NEW v \in Seq(S), NEW w \in Seq(S), NEW c \in S
  PROVE  Behind(v, w, c)
BY DEF Behind

Keeps(v, w, c, sep) == KeepNext(v \o w, c, sep) = v \o KeepNext(w, c, sep)

LEMMA KeepBehind ==
  ASSUME NEW S, NEW sep, NEW v \in Seq(S \ {sep}), NEW w \in Seq(S \ {sep}), NEW c \in S
  PROVE  Keeps(v, w, c, sep)
<1>1. CASE c = sep
  BY <1>1 DEF Keeps, KeepNext
<1>2. CASE c # sep
  <2> DEFINE T == S \ {sep}
  <2>1. c \in T /\ v \in Seq(T) /\ w \in Seq(T)
    BY <1>2
  <2> HIDE DEF T
  <2>2. Behind(v, w, c)
    BY ONLY <2>1, AppendBehind
  <2> QED BY <1>2, <2>2 DEF Keeps, KeepNext, Behind
<1> QED BY <1>1, <1>2

Splits(s, t, sep) == Without(s \o t, sep) = Without(s, sep) \o Without(t, sep)

LEMMA WithoutConcat ==
  ASSUME NEW S, NEW s \in Seq(S), NEW t \in Seq(S), NEW sep
  PROVE  Splits(s, t, sep)
<1> DEFINE T == S \ {sep}
           V == Seq(T)
           l == Len(s)
           m == Len(t)
           u == s \o t
<1>1. l \in Nat /\ m \in Nat /\ u \in Seq(S) /\ Len(u) = l + m
      /\ \A i \in 1..l + m : u[i] = IF i <= l THEN s[i] ELSE t[i - l]
  BY ConcatProperties
<1>2. PICK f : Kept(f, S, s, sep)
  BY WithoutComputed
<1>3. PICK g : Kept(g, S, t, sep)
  BY WithoutComputed
<1> HIDE DEF u
<1>4. PICK h : Kept(h, S, u, sep)
  BY <1>1, WithoutComputed
<1>5. /\ f \in [0..l -> V] /\ Without(s, sep) = f[l] /\ f[0] = <<>>
      /\ \A n \in 1..l : f[n] = KeepNext(f[n - 1], s[n], sep)
  BY <1>2 DEF Kept
<1>6. /\ g \in [0..m -> V] /\ Without(t, sep) = g[m] /\ g[0] = <<>>
       /\ \A n \in 1..m : g[n] = KeepNext(g[n - 1], t[n], sep)
  BY <1>3 DEF Kept
<1>7. /\ Without(u, sep) = h[l + m] /\ h[0] = <<>>
       /\ \A n \in 1..l + m : h[n] = KeepNext(h[n - 1], u[n], sep)
  <2>1. Len(u) = l + m
    BY <1>1
  <2> HIDE DEF l, m
  <2> QED BY ONLY <1>4, <2>1 DEF Kept
<1> HIDE DEF T, l, m
<1>8. h[l] = f[l]
  <2> DEFINE I == {k \in Nat : k <= l => h[k] = f[k]}
  <2>1. 0 \in I
    BY <1>5, <1>7
  <2>2. ASSUME NEW k \in Nat, k \in I
        PROVE  k + 1 \in I
    <3>1. SUFFICES ASSUME k + 1 <= l PROVE h[k + 1] = f[k + 1]
      OBVIOUS
    <3>2. k + 1 \in 1..l /\ k + 1 \in 1..l + m /\ (k + 1) - 1 = k /\ k + 1 <= l /\ k <= l
      BY <1>1, <3>1
    <3>3. u[k + 1] = s[k + 1]
      BY <1>1, <3>2
    <3>4. h[k] = f[k]
      BY <2>2, <3>2
    <3>5. h[k + 1] = KeepNext(h[(k + 1) - 1], u[k + 1], sep)
      BY <1>7, <3>2
    <3>6. f[k + 1] = KeepNext(f[(k + 1) - 1], s[k + 1], sep)
      BY <1>5, <3>2
    <3> QED BY ONLY <3>2, <3>3, <3>4, <3>5, <3>6
  <2> HIDE DEF I
  <2>3. l \in I
    BY <1>1, <2>1, <2>2, Induction
  <2> QED BY <1>1, <2>3 DEF I
<1>9. f[l] \in V
  BY <1>1, <1>5
<1>10. ASSUME NEW w \in V, NEW c \in S
       PROVE  KeepNext(f[l] \o w, c, sep) = f[l] \o KeepNext(w, c, sep)
  <2>1. Keeps(f[l], w, c, sep)
    BY <1>9, KeepBehind DEF T
  <2> QED BY <2>1 DEF Keeps
<1>11. h[l + m] = f[l] \o g[m]
  <2> DEFINE Same(k) == h[l + k] = f[l] \o g[k]
             I == {k \in Nat : k <= m => Same(k)}
  <2>1. 0 \in I
    <3>1. f[l] \o <<>> = f[l]
      BY <1>9, ConcatEmptySeq
    <3>2. l + 0 = l
      BY <1>1
    <3> QED BY <1>6, <1>8, <3>1, <3>2
  <2>2. ASSUME NEW k \in Nat, k \in I
        PROVE  k + 1 \in I
    <3>1. ASSUME k + 1 <= m PROVE Same(k + 1)
      <4> DEFINE j == l + (k + 1)
      <4>1. /\ j \in 1..l + m /\ j - 1 = l + k /\ j > l /\ j - l = k + 1
            /\ k + 1 \in 1..m /\ (k + 1) - 1 = k /\ k <= m /\ k \in 0..m
        BY <1>1, <3>1
      <4>2. u[j] = t[k + 1] /\ t[k + 1] \in S
        <5>1. u[j] = t[j - l]
          BY <1>1, <4>1
        <5> QED BY <4>1, <5>1, ElementOfSeq DEF m
      <4> HIDE DEF j
      <4>3. h[l + k] = f[l] \o g[k]
        BY <2>2, <4>1
      <4>4. h[j] = KeepNext(h[j - 1], u[j], sep)
        BY <1>7, <4>1
      <4>5. g[k + 1] = KeepNext(g[(k + 1) - 1], t[k + 1], sep)
        BY <1>6, <4>1
      <4>6. g[k] \in V
        BY <1>6, <4>1
      <4> QED BY ONLY <1>10, <4>1, <4>2, <4>3, <4>4, <4>5, <4>6 DEF j
    <3>2. k + 1 \in Nat
      OBVIOUS
    <3> HIDE DEF Same
    <3> QED BY ONLY <3>1, <3>2
  <2> HIDE DEF I
  <2>3. m \in I
    BY <1>1, <2>1, <2>2, Induction
  <2>4. m <= m
    BY <1>1
  <2> QED BY ONLY <2>3, <2>4 DEF I
<1> QED BY <1>5, <1>6, <1>7, <1>11 DEF u, Splits

LEMMA WithoutNone ==
  ASSUME NEW S, NEW s \in Seq(S), NEW sep, \A i \in 1..Len(s) : s[i] = sep
  PROVE  Without(s, sep) = <<>>
<1> DEFINE l == Len(s)
<1>1. PICK f : Kept(f, S, s, sep)
  BY WithoutComputed
<1>2. /\ Without(s, sep) = f[l] /\ f[0] = <<>>
      /\ \A n \in 1..l : f[n] = KeepNext(f[n - 1], s[n], sep)
  BY <1>1 DEF Kept
<1>3. l \in Nat
  OBVIOUS
<1>4. \A i \in 1..l : s[i] = sep
  OBVIOUS
<1> HIDE DEF l
<1> DEFINE I == {k \in Nat : k <= l => f[k] = <<>>}
<1>5. 0 \in I
  BY <1>2
<1>6. ASSUME NEW k \in Nat, k \in I
      PROVE  k + 1 \in I
  <2>1. SUFFICES ASSUME k + 1 <= l PROVE f[k + 1] = <<>>
    OBVIOUS
  <2>2. k + 1 \in 1..l /\ (k + 1) - 1 = k /\ k <= l
    BY <1>3, <2>1
  <2>3. f[k + 1] = KeepNext(f[(k + 1) - 1], s[k + 1], sep) /\ s[k + 1] = sep
    BY <1>2, <1>4, <2>2
  <2>4. f[k] = <<>>
    BY <1>6, <2>2
  <2> QED BY ONLY <2>2, <2>3, <2>4 DEF KeepNext
<1> HIDE DEF I
<1>7. l \in I
  BY <1>3, <1>5, <1>6, Induction
<1> QED BY <1>2, <1>3, <1>7 DEF I

-----------------------------------------------------------------------------
(* join_url_path: the slashes at the end of the base are dropped, no more. *)
LEMMA TrimEndStops ==
  ASSUME NEW S, NEW s \in Seq(S)
  PROVE  \E n \in 0..Len(s) :
           /\ TrimEnd(s) = SubSeq(s, 1, n)
           /\ \A j \in n + 1..Len(s) : s[j] = "/"
           /\ n > 0 => s[n] # "/"
<1> DEFINE l == Len(s)
           Z == {n \in Nat : n <= l /\ \A j \in n + 1..l : s[j] = "/"}
           kept == {i \in DOMAIN s : \E j \in i..l : s[j] # "/"}
           m == CHOOSE k \in 0..l : kept = 1..k
<1>1. l \in Nat /\ DOMAIN s = 1..l
  OBVIOUS
<1> HIDE DEF l
<1>2. l \in Z
  BY <1>1
<1>3. PICK n \in Z : \A k \in Z : n <= k
  <2>1. Z # {} /\ Z \subseteq Nat
    BY <1>2
  <2> HIDE DEF Z
  <2> QED BY <2>1, Least
<1>4. n > 0 => s[n] # "/"
  <2> SUFFICES ASSUME n > 0, s[n] = "/" PROVE FALSE
    OBVIOUS
  <2>1. n \in Nat /\ n - 1 \in Nat /\ n - 1 <= l
    BY <1>1
  <2>2. \A j \in (n - 1) + 1..l : s[j] = "/"
    BY <1>1
  <2>3. n - 1 \in Z
    BY <2>1, <2>2
  <2> HIDE DEF Z
  <2>4. n <= n - 1
    BY <1>3, <2>3
  <2> QED BY <2>1, <2>4
<1>5. n \in 0..l /\ \A j \in n + 1..l : s[j] = "/"
  BY <1>1
<1>6. kept = 1..n
  <2>1. ASSUME NEW i \in 1..l, i <= n
        PROVE  \E j \in i..l : s[j] # "/"
    <3>1. n \in i..l /\ n > 0
      BY <1>1, <1>5, <2>1
    <3> QED BY <1>4, <3>1
  <2>2. ASSUME NEW i \in 1..l, i > n, NEW j \in i..l
        PROVE  s[j] = "/"
    BY <1>1, <1>5, <2>2
  <2> HIDE DEF Z
  <2>3. \A i \in 1..l : i <= n <=> \E j \in i..l : s[j] # "/"
    <3> SUFFICES ASSUME NEW i \in 1..l
                 PROVE  i <= n <=> \E j \in i..l : s[j] # "/"
      OBVIOUS
    <3>1. CASE i <= n
      BY <2>1, <3>1
    <3>2. CASE i > n
      <4>1. ~(i <= n)
        BY <1>1, <1>5, <3>2
      <4> QED BY <2>2, <3>2, <4>1
    <3> QED BY <1>1, <1>5, <3>1, <3>2
  <2>4. kept \subseteq 1..l /\ 1..n \subseteq 1..l /\ \A i \in 1..l : i \in 1..n <=> i <= n
    BY <1>1, <1>5
  <2>5. \A i \in 1..l : i \in kept <=> \E j \in i..l : s[j] # "/"
    BY <1>1
  <2> HIDE DEF kept
  <2> QED BY <2>3, <2>4, <2>5
<1> HIDE DEF kept, Z
<1>7. m \in 0..l /\ kept = 1..m
  BY <1>5, <1>6
<1> HIDE DEF m
<1>8. m = n
  <2>1. 1..m = 1..n
    BY <1>6, <1>7
  <2> QED BY <1>1, <1>5, <1>7, <2>1
<1>9. TrimEnd(s) = SubSeq(s, 1, m)
  BY DEF TrimEnd, m, kept, l
<1> QED BY <1>4, <1>5, <1>8, <1>9 DEF l

(* The URL is the base without them, and the path with a slash before it.  *)
JoinsTo(base, path, n, p) ==
  /\ JoinUrlPath(base, path) = SubSeq(base, 1, n) \o p
  /\ \A j \in n + 1..Len(base) : base[j] = "/"
  /\ n > 0 => base[n] # "/"
  /\ \/ p = path /\ (p = <<>> \/ p[1] = "/")
     \/ p = <<"/">> \o path /\ path # <<>> /\ path[1] # "/"

LEMMA Joins ==
  ASSUME NEW S, NEW base \in Seq(S), NEW path \in Seq(S)
  PROVE  \E n \in 0..Len(base), p \in {path, <<"/">> \o path} : JoinsTo(base, path, n, p)
<1>1. PICK n \in 0..Len(base) : /\ TrimEnd(base) = SubSeq(base, 1, n)
                                /\ \A j \in n + 1..Len(base) : base[j] = "/"
                                /\ n > 0 => base[n] # "/"
  BY TrimEndStops
<1> DEFINE t == SubSeq(base, 1, n)
           slashed == IF path = <<>> \/ path[1] = "/" THEN path ELSE <<"/">> \o path
<1>2. t \in Seq(S) /\ (base = <<>> => t = <<>>)
  <2>1. t \in Seq(S)
    OBVIOUS
  <2>2. base = <<>> => n = 0
    OBVIOUS
  <2>3. SubSeq(base, 1, 0) = <<>>
    BY SubSeqEmpty
  <2> QED BY <2>1, <2>2, <2>3
<1> HIDE DEF t
<1>3. JoinUrlPath(base, path) = t \o slashed
  <2>1. CASE base = <<>>
    <3>1. JoinUrlPath(base, path) = slashed
      BY <2>1 DEF JoinUrlPath
    <3>2. <<>> \o path = path /\ <<>> \o (<<"/">> \o path) = <<"/">> \o path
      <4>1. path \in Seq(S \cup {"/"}) /\ <<"/">> \o path \in Seq(S \cup {"/"})
        OBVIOUS
      <4> QED BY <4>1, ConcatEmptySeq
    <3> QED BY <1>2, <2>1, <3>1, <3>2
  <2>2. CASE base # <<>> /\ path = <<>>
    <3>1. JoinUrlPath(base, path) = t
      BY <1>1, <2>2 DEF JoinUrlPath, t
    <3> QED BY <1>2, <2>2, <3>1, ConcatEmptySeq
  <2>3. CASE base # <<>> /\ path # <<>>
    BY <1>1, <2>3 DEF JoinUrlPath, t
  <2> QED BY <2>1, <2>2, <2>3
<1>4. JoinsTo(base, path, n, slashed)
  <2>1. CASE path = <<>> \/ path[1] = "/"
    BY <1>1, <1>3, <2>1 DEF JoinsTo, t
  <2>2. CASE ~(path = <<>> \/ path[1] = "/")
    BY <1>1, <1>3, <2>2 DEF JoinsTo, t
  <2> QED BY <2>1, <2>2
<1> QED BY <1>4

(* No two slashes are left in a row but those in the middle of the base.   *)
Single(s) == Doubled(s) = {}
Slashes(base, url) == \A i \in Doubled(url) : i \in Doubled(base) /\ \E j \in i..Len(base) : base[j] # "/"

LEMMA JoinsOnce ==
  ASSUME NEW S, NEW base \in Seq(S), NEW path \in Seq(S), Single(path),
         NEW T, S \cup {"/"} \subseteq T
  PROVE  JoinUrlPath(base, path) \in Seq(T) /\ Slashes(base, JoinUrlPath(base, path))
<1>0. PICK n \in 0..Len(base), p \in {path, <<"/">> \o path} : JoinsTo(base, path, n, p)
  BY Joins
<1> DEFINE t == SubSeq(base, 1, n)
           url == JoinUrlPath(base, path)
<1>1. /\ url = t \o p /\ (n > 0 => base[n] # "/")
      /\ \/ p = path
         \/ p = <<"/">> \o path /\ path # <<>> /\ path[1] # "/"
  BY <1>0 DEF JoinsTo
<1>2. n \in Nat /\ Len(base) \in Nat /\ n <= Len(base)
  OBVIOUS
<1>3. t \in Seq(T) /\ Len(t) = n /\ \A i \in 1..n : t[i] = base[i]
  <2>1. \A i \in 1..n : base[i] \in T
    BY <1>2, ElementOfSeq
  <2>2. /\ t \in Seq(T) /\ Len(t) = IF 1 <= n THEN n - 1 + 1 ELSE 0
        /\ \A i \in 1..n - 1 + 1 : t[i] = base[1 + i - 1]
    <3>1. 1 \in Int /\ n \in Int
      BY <1>2
    <3> QED BY ONLY <2>1, <3>1, SubSeqProperties
  <2> HIDE DEF t
  <2>3. \A i \in 1..n : i \in 1..n - 1 + 1 /\ 1 + i - 1 = i
    BY <1>2
  <2>4. (IF 1 <= n THEN n - 1 + 1 ELSE 0) = n
    BY <1>2
  <2> QED BY ONLY <2>2, <2>3, <2>4
<1>4. path \in Seq(T) /\ Len(path) \in Nat /\ \A i \in 1..Len(path) - 1 : ~(path[i] = "/" /\ path[i + 1] = "/")
  <2>1. path \in Seq(T)
    BY SeqMonotonic
  <2>2. ASSUME NEW i \in 1..Len(path) - 1, path[i] = "/", path[i + 1] = "/"
        PROVE  FALSE
    <3>1. i \in DOMAIN path /\ i + 1 \in DOMAIN path
      OBVIOUS
    <3> QED BY <2>2, <3>1 DEF Single, Doubled, Places
  <2> QED BY <2>1, <2>2
<1>5. p \in Seq(T) /\ Len(p) \in Nat /\ \A i \in 1..Len(p) - 1 : ~(p[i] = "/" /\ p[i + 1] = "/")
  <2>1. CASE p = path
    BY <1>4, <2>1
  <2>2. CASE p = <<"/">> \o path /\ path # <<>> /\ path[1] # "/"
    <3>1. <<"/">> \in Seq(T) /\ Len(<<"/">>) = 1 /\ <<"/">>[1] = "/"
      OBVIOUS
    <3>2. /\ p \in Seq(T) /\ Len(p) = 1 + Len(path)
          /\ \A i \in 1..1 + Len(path) : p[i] = IF i <= 1 THEN <<"/">>[i] ELSE path[i - 1]
      BY <1>4, <2>2, <3>1, ConcatProperties
    <3>3. ASSUME NEW i \in 1..Len(p) - 1, p[i] = "/", p[i + 1] = "/"
          PROVE  FALSE
      <4>1. p[i + 1] = path[i]
        BY <1>4, <3>2
      <4>2. CASE i = 1
        BY <2>2, <3>3, <4>1, <4>2
      <4>3. CASE i # 1
        <5>1. i - 1 \in 1..Len(path) - 1 /\ (i - 1) + 1 = i /\ i \in 1..1 + Len(path) /\ ~(i <= 1)
          BY <1>4, <3>2, <4>3
        <5>2. p[i] = path[i - 1]
          BY <3>2, <5>1
        <5> QED BY <1>4, <3>3, <4>1, <5>1, <5>2
      <4> QED BY <4>2, <4>3
    <3> QED BY <1>4, <3>2, <3>3
  <2> QED BY <1>1, <2>1, <2>2
<1> HIDE DEF t, url
<1>6. /\ url \in Seq(T) /\ Len(url) = n + Len(p)
      /\ \A i \in 1..n + Len(p) : url[i] = IF i <= n THEN t[i] ELSE p[i - n]
  <2>1. /\ t \o p \in Seq(T) /\ Len(t \o p) = Len(t) + Len(p)
        /\ \A i \in 1..Len(t) + Len(p) : (t \o p)[i] = IF i <= Len(t) THEN t[i] ELSE p[i - Len(t)]
    BY ONLY <1>3, <1>5, ConcatProperties
  <2>2. url = t \o p /\ Len(t) = n
    BY <1>1, <1>3
  <2> QED BY ONLY <2>1, <2>2
<1>7. ASSUME NEW i \in Doubled(url)
      PROVE  i \in Doubled(base) /\ \E j \in i..Len(base) : base[j] # "/"
  <2>1. i \in 1..n + Len(p) /\ i + 1 \in 1..n + Len(p) /\ url[i] = "/" /\ url[i + 1] = "/"
    BY <1>6 DEF Doubled, Places
  <2>2. CASE i + 1 <= n
    <3>1. i \in 1..n /\ i + 1 \in 1..n /\ i <= n
      BY <1>2, <2>1, <2>2
    <3>2. base[i] = "/" /\ base[i + 1] = "/"
      BY <1>3, <1>6, <2>1, <2>2, <3>1
    <3>3. i \in DOMAIN base /\ i + 1 \in DOMAIN base
      BY <1>2, <3>1
    <3>4. i \in Doubled(base)
      BY <3>2, <3>3 DEF Doubled, Places
    <3>5. n \in i..Len(base) /\ n > 0
      BY <1>2, <3>1
    <3> QED BY <1>1, <3>4, <3>5
  <2>3. CASE i = n
    <3>1. n \in 1..n /\ n > 0 /\ i <= n
      BY <1>2, <2>1, <2>3
    <3>2. url[i] = base[n]
      BY <1>3, <1>6, <2>1, <2>3, <3>1
    <3> QED BY <1>1, <2>1, <3>1, <3>2
  <2>4. CASE i > n
    <3>1. i - n \in 1..Len(p) - 1 /\ ~(i <= n) /\ ~(i + 1 <= n) /\ (i + 1) - n = (i - n) + 1
      BY <1>2, <1>5, <2>1, <2>4
    <3>2. url[i] = p[i - n] /\ url[i + 1] = p[(i + 1) - n]
      BY <1>6, <2>1, <3>1
    <3> QED BY <1>5, <2>1, <3>1, <3>2
  <2> QED BY <1>2, <1>5, <2>1, <2>2, <2>3, <2>4
<1> QED BY <1>6, <1>7 DEF url, Slashes

(* The base is cut in two: what is kept, and the slashes at its end.       *)
Pieces(base, path, t, rest, p) ==
  /\ base = t \o rest /\ JoinUrlPath(base, path) = t \o p
  /\ p = path \/ p = <<"/">> \o path
  /\ \A i \in 1..Len(rest) : rest[i] = "/"

LEMMA JoinsPieces ==
  ASSUME NEW S, NEW base \in Seq(S), NEW path \in Seq(S)
  PROVE  \E t, rest \in Seq(S \cup {"/"}), p \in {path, <<"/">> \o path} : Pieces(base, path, t, rest, p)
<1>0. PICK n \in 0..Len(base), p \in {path, <<"/">> \o path} : JoinsTo(base, path, n, p)
  BY Joins
<1> DEFINE T == S \cup {"/"}
           t == SubSeq(base, 1, n)
           rest == SubSeq(base, n + 1, Len(base))
<1>1. /\ JoinUrlPath(base, path) = t \o p /\ (p = path \/ p = <<"/">> \o path)
      /\ \A j \in n + 1..Len(base) : base[j] = "/"
  BY <1>0 DEF JoinsTo
<1>2. base \in Seq(T) /\ path \in Seq(T) /\ <<"/">> \in Seq(T)
  OBVIOUS
<1> HIDE DEF T
<1>3. n \in Nat /\ Len(base) \in Nat /\ n <= Len(base)
  OBVIOUS
<1>4. t \in Seq(T) /\ rest \in Seq(T) /\ t \o rest = base
  <2>1. t \in Seq(T) /\ rest \in Seq(T)
    BY <1>2, <1>3
  <2>2. t \o rest = SubSeq(base, 1, Len(base))
    <3>1. 1 \in 1..Len(base) + 1 /\ n \in 1 - 1..Len(base) /\ Len(base) \in n..Len(base)
      BY <1>3
    <3> QED BY ONLY <1>2, <3>1, ConcatAdjacentSubSeq
  <2> QED BY <1>2, <2>1, <2>2, SubSeqFull
<1>5. \A i \in 1..Len(rest) : rest[i] = "/"
  <2>1. \A j \in n + 1..Len(base) : base[j] \in T
    BY <1>2, <1>3, ElementOfSeq
  <2>2. /\ Len(rest) = IF n + 1 <= Len(base) THEN Len(base) - (n + 1) + 1 ELSE 0
        /\ \A i \in 1..Len(base) - (n + 1) + 1 : rest[i] = base[(n + 1) + i - 1]
    <3>1. n + 1 \in Int /\ Len(base) \in Int
      BY <1>3
    <3> QED BY ONLY <2>1, <3>1, SubSeqProperties
  <2> HIDE DEF rest
  <2> SUFFICES ASSUME NEW i \in 1..Len(rest) PROVE rest[i] = "/"
    OBVIOUS
  <2>3. i \in 1..Len(base) - (n + 1) + 1 /\ (n + 1) + i - 1 \in n + 1..Len(base)
    BY <1>3, <2>2
  <2> QED BY ONLY <1>1, <2>2, <2>3
<1> HIDE DEF t, rest
<1>6. Pieces(base, path, t, rest, p)
  BY <1>1, <1>4, <1>5 DEF Pieces
<1> QED BY <1>4, <1>6 DEF T

(* The segments are those of both.                                         *)
JoinsAll(base, path) ==
  Without(JoinUrlPath(base, path), "/") = Without(base, "/") \o Without(path, "/")

LEMMA JoinsSegments ==
  ASSUME NEW S, NEW base \in Seq(S), NEW path \in Seq(S)
  PROVE  JoinsAll(base, path)
<1> DEFINE T == S \cup {"/"}
<1>1. PICK t, rest \in Seq(T), p \in {path, <<"/">> \o path} : Pieces(base, path, t, rest, p)
  BY JoinsPieces
<1>2. base \in Seq(T) /\ path \in Seq(T) /\ <<"/">> \in Seq(T)
  OBVIOUS
<1> HIDE DEF T
<1>4. base = t \o rest
  BY <1>1 DEF Pieces
<1>5. \A i \in 1..Len(rest) : rest[i] = "/"
  BY <1>1 DEF Pieces
<1>6. Without(rest, "/") = <<>>
  BY <1>4, <1>5, WithoutNone
<1>7. Without(<<"/">>, "/") = <<>>
  <2>1. \A i \in 1..Len(<<"/">>) : <<"/">>[i] = "/"
    OBVIOUS
  <2> QED BY <1>2, <2>1, WithoutNone
<1> DEFINE W == Seq(T \ {"/"})
<1>8. Without(t, "/") \in W /\ Without(path, "/") \in W
  BY <1>2, WithoutTyped
<1>9. Without(base, "/") = Without(t, "/") \o Without(rest, "/")
  <2>1. Splits(t, rest, "/")
    BY WithoutConcat
  <2> QED BY <1>4, <2>1 DEF Splits
<1>10. Without(t, "/") \o <<>> = Without(t, "/") /\ <<>> \o Without(path, "/") = Without(path, "/")
  BY <1>8, ConcatEmptySeq
<1>11. p \in Seq(T) /\ Without(p, "/") = Without(path, "/")
  <2>1. CASE p = path
    BY <1>2, <2>1
  <2>2. CASE p = <<"/">> \o path
    <3>1. p \in Seq(T)
      BY <1>2, <2>2, ConcatProperties
    <3>2. Without(p, "/") = Without(<<"/">>, "/") \o Without(path, "/")
      <4>1. Splits(<<"/">>, path, "/")
        BY ONLY <1>2, WithoutConcat
      <4> QED BY <2>2, <4>1 DEF Splits
    <3> QED BY <1>7, <1>10, <3>1, <3>2
  <2> QED BY <1>1, <2>1, <2>2
<1>12. Without(t \o p, "/") = Without(t, "/") \o Without(p, "/")
  <2>1. Splits(t, p, "/")
    BY <1>11, WithoutConcat
  <2> QED BY <2>1 DEF Splits
<1>13. JoinUrlPath(base, path) = t \o p
  BY <1>1 DEF Pieces
<1> QED BY <1>6, <1>9, <1>10, <1>11, <1>12, <1>13 DEF JoinsAll

-----------------------------------------------------------------------------
(* The pieces of a query, one after the other.                             *)
Flat(f, seqs, L) ==
  /\ FlattenSeq(seqs) = f[L] /\ f[1] = seqs[1]
  /\ \A i \in 1..L : i # 1 => f[i] = f[i - 1] \o seqs[i]

LEMMA Flattened ==
  ASSUME NEW S, NEW seqs, NEW L \in Nat \ {0}, Len(seqs) = L, \A i \in 1..L : seqs[i] \in Seq(S)
  PROVE  \E f : Flat(f, seqs, L)
<1> DEFINE V == Seq(S)
           step == [n \in 1..L |-> [v \in V |-> v \o seqs[n]]]
           Is(f) == f = [i \in 1..L |-> IF i = 1 THEN seqs[i] ELSE f[i - 1] \o seqs[i]]
           f == CHOOSE f : Is(f)
<1>1. step \in [1..L -> [V -> V]] /\ <<>> \in V
  <2>1. ASSUME NEW n \in 1..L, NEW v \in V
        PROVE  v \o seqs[n] \in V
    <3>1. seqs[n] \in Seq(S)
      OBVIOUS
    <3> QED BY <3>1, ConcatProperties
  <2>2. <<>> \in V
    OBVIOUS
  <2> HIDE DEF V
  <2> QED BY <2>1, <2>2
<1>2. PICK g \in [0..L -> V] : Recursive(g, L, <<>>, step)
  <2>1. L \in Nat
    OBVIOUS
  <2> HIDE DEF V, step
  <2> QED BY <1>1, <2>1, Recursion
<1> DEFINE h == [i \in 1..L |-> g[i]]
<1>3. /\ g[0] = <<>>
      /\ \A i \in 1..L : g[i] = g[i - 1] \o seqs[i]
  <2>1. \A n \in 0..L : g[n] = IF n = 0 THEN <<>> ELSE step[n][g[n - 1]]
    <3> HIDE DEF step, V
    <3> QED BY <1>2 DEF Recursive
  <2>2. ASSUME NEW n \in 1..L
        PROVE  g[n] = g[n - 1] \o seqs[n]
    <3>1. n \in 0..L /\ n # 0 /\ n - 1 \in 0..L
      OBVIOUS
    <3>2. g[n - 1] \in V
      BY <3>1
    <3>3. step[n][g[n - 1]] = g[n - 1] \o seqs[n]
      <4> HIDE DEF V
      <4> QED BY <3>2
    <3> HIDE DEF step
    <3> QED BY <2>1, <3>1, <3>3
  <2>3. 0 \in 0..L
    OBVIOUS
  <2> QED BY ONLY <2>1, <2>2, <2>3
<1> HIDE DEF step
<1>4. Is(h)
  <2>1. ASSUME NEW i \in 1..L
        PROVE  g[i] = IF i = 1 THEN seqs[i] ELSE h[i - 1] \o seqs[i]
    <3>1. CASE i = 1
      <4>1. g[i - 1] = <<>> /\ seqs[i] \in Seq(S)
        BY <1>3, <3>1
      <4> QED BY <1>3, <3>1, <4>1, ConcatEmptySeq
    <3>2. CASE i # 1
      <4>1. i - 1 \in 1..L
        BY <3>2
      <4>2. h[i - 1] = g[i - 1]
        BY <4>1
      <4> HIDE DEF h
      <4> QED BY <1>3, <3>2, <4>2
    <3> QED BY <3>1, <3>2
  <2> QED BY <2>1
<1>5. Is(f)
  <2> HIDE DEF Is
  <2> QED BY <1>4
<1>6. FlattenSeq(seqs) = f[L]
  BY DEF FlattenSeq, f
<1> HIDE DEF f
<1>7. \A i \in 1..L : f[i] = IF i = 1 THEN seqs[i] ELSE f[i - 1] \o seqs[i]
  BY <1>5
<1> HIDE DEF Is
<1>8. 1 \in 1..L
  OBVIOUS
<1> QED BY <1>6, <1>7, <1>8 DEF Flat

(* A text without c before one with it, and the other way round.           *)
LEMMA PlacesBefore ==
  ASSUME NEW S, NEW s \in Seq(S), NEW t \in Seq(S), NEW c, Places(t, c) = {}
  PROVE  Places(s \o t, c) = Places(s, c)
<1>1. Shifted(s, t, c) = {}
  BY DEF Shifted
<1>2. Places(s \o t, c) = Places(s, c) \cup Shifted(s, t, c)
  BY PlacesConcat
<1> QED BY ONLY <1>1, <1>2

(* A text is the beginning of what it is joined to.                        *)
BeginsWith(s, t) == SubSeq(s \o t, 1, Len(s)) = s

LEMMA Prefix ==
  ASSUME NEW S, NEW s \in Seq(S), NEW t \in Seq(S)
  PROVE  BeginsWith(s, t)
<1>1. Len(s) \in Nat /\ (s # <<>> => Len(s) \in 1..Len(s)) /\ (s # <<>> => 1 \in 1..Len(s))
  BY EmptySeq
<1>2. CASE s = <<>>
  <2>1. Len(s) < 1 /\ 1 \in Int /\ Len(s) \in Int
    BY <1>2
  <2>2. SubSeq(s \o t, 1, Len(s)) = <<>>
    BY ONLY <2>1, SubSeqEmpty
  <2> QED BY <1>2, <2>2 DEF BeginsWith
<1>3. CASE s # <<>>
  <2>1. SubSeq(s \o t, 1, Len(s)) = SubSeq(s, 1, Len(s))
    <3>1. 1 \in 1..Len(s) /\ Len(s) \in 1..Len(s)
      BY <1>1, <1>3
    <3> QED BY ONLY <3>1, s \in Seq(S), t \in Seq(S), SubSeqOfConcat1
  <2>2. SubSeq(s, 1, Len(s)) = s
    BY SubSeqFull
  <2> QED BY <2>1, <2>2 DEF BeginsWith
<1> QED BY <1>2, <1>3

(* What the path does not have, the URL has where the base has it, and     *)
(* never at its end.                                                       *)
JoinsAt(base, path, c) ==
  LET url == JoinUrlPath(base, path)
  IN Places(url, c) = Places(base, c) /\ url[Len(url)] # c

LEMMA JoinsPlaces ==
  ASSUME NEW S, NEW base \in Seq(S), NEW T, T \subseteq S, NEW path \in Seq(T), path # <<>>,
         NEW c, c # "/", c \notin T
  PROVE  JoinsAt(base, path, c)
<1> DEFINE U == S \cup {"/"}
           V == T \cup {"/"}
           url == JoinUrlPath(base, path)
<1>1. path \in Seq(S)
  BY SeqMonotonic
<1>2. PICK t, rest \in Seq(U), p \in {path, <<"/">> \o path} : Pieces(base, path, t, rest, p)
  <2>1. base \in Seq(S)
    OBVIOUS
  <2> QED BY ONLY <1>1, <2>1, JoinsPieces
<1>3. base = t \o rest /\ url = t \o p
  BY <1>2 DEF Pieces
<1>4. Places(rest, c) = {}
  <2>1. \A i \in 1..Len(rest) : rest[i] = "/"
    BY <1>2 DEF Pieces
  <2> QED BY <2>1 DEF Places
<1>5. p \in Seq(V) /\ p # <<>>
  <2>1. path \in Seq(V)
    OBVIOUS
  <2>2. <<"/">> \o path \in Seq(V) /\ Len(<<"/">> \o path) = 1 + Len(path)
    <3>1. <<"/">> \in Seq(V) /\ Len(<<"/">>) = 1
      OBVIOUS
    <3> QED BY <2>1, <3>1, ConcatProperties
  <2>3. <<"/">> \o path # <<>>
    <3>1. Len(<<"/">> \o path) # 0
      BY <2>2
    <3> QED BY <3>1, EmptySeq
  <2> QED BY <2>1, <2>2, <2>3
<1>6. \A i \in 1..Len(p) : p[i] # c
  BY <1>5, ElementOfSeq
<1>7. p \in Seq(U)
  <2>1. V \subseteq U
    OBVIOUS
  <2> HIDE DEF U, V
  <2> QED BY <1>5, <2>1, SeqMonotonic
<1> HIDE DEF U, V, url
<1>8. Places(p, c) = {}
  BY <1>6, <1>7 DEF Places
<1>9. Places(base, c) = Places(t, c) /\ Places(url, c) = Places(t, c)
  BY <1>2, <1>3, <1>4, <1>7, <1>8, PlacesBefore
<1>10. url[Len(url)] # c
  <2>1. Len(p) \in Nat \ {0} /\ Len(t) \in Nat
    BY <1>5, <1>7, EmptySeq
  <2>2. /\ Len(url) = Len(t) + Len(p)
        /\ \A i \in 1..Len(t) + Len(p) : url[i] = IF i <= Len(t) THEN t[i] ELSE p[i - Len(t)]
    BY <1>3, <1>7, ConcatProperties
  <2>3. /\ Len(t) + Len(p) \in 1..Len(t) + Len(p) /\ ~ Len(t) + Len(p) <= Len(t)
        /\ (Len(t) + Len(p)) - Len(t) = Len(p) /\ Len(p) \in 1..Len(p)
    BY <2>1
  <2> QED BY <1>6, <2>2, <2>3
<1> QED BY <1>9, <1>10 DEF JoinsAt, url

-----------------------------------------------------------------------------
(* How many of the numbers up to the next are in a set.                    *)
Upto(Q, k) == {i \in 1..k : i \in Q}

LEMMA UptoNext ==
  ASSUME NEW Q, NEW k \in Nat
  PROVE  /\ Cardinality(Upto(Q, k)) \in Nat
         /\ Cardinality(Upto(Q, k + 1)) = Cardinality(Upto(Q, k)) + (IF k + 1 \in Q THEN 1 ELSE 0)
<1>1. IsFiniteSet(Upto(Q, k)) /\ Cardinality(Upto(Q, k)) \in Nat
  <2>1. IsFiniteSet(1..k)
    BY FS_Interval
  <2>2. Upto(Q, k) \in SUBSET (1..k)
    BY DEF Upto
  <2>3. IsFiniteSet(Upto(Q, k))
    BY <2>1, <2>2, FS_Subset
  <2> QED BY <2>3, FS_CardinalityType
<1>2. CASE k + 1 \in Q
  <2>1. Upto(Q, k + 1) = Upto(Q, k) \cup {k + 1} /\ k + 1 \notin Upto(Q, k)
    BY <1>2 DEF Upto
  <2> QED BY <1>1, <1>2, <2>1, FS_AddElement
<1>3. CASE k + 1 \notin Q
  <2>1. Upto(Q, k + 1) = Upto(Q, k)
    BY <1>3 DEF Upto
  <2> QED BY <1>1, <1>3, <2>1
<1> QED BY <1>1, <1>2, <1>3

(* What may stand in a URL, in its query, and in a value once encoded.     *)
Chars == STRING \cup {"?", "/", "&", "=", "api-version", "6.0-preview", VersionIs}
           \cup {"%26", "%3D", "%3F", "%25", "%2F", "api-version%3D"}
Letters == Chars \ {"?", "/"}
Quiet == Letters \ {"&", "=", VersionIs}

LEMMA Alphabet ==
  /\ {"&", "=", VersionIs} \subseteq Letters /\ {"api-version", "6.0-preview"} \subseteq Chars
  /\ {"%26", "%3D", "%3F", "%25", "%2F", "api-version%3D"} \subseteq Quiet
  /\ Quiet \subseteq Letters /\ Letters \subseteq Chars /\ STRING \subseteq Chars /\ {"?", "/"} \subseteq Chars
  /\ "&" \notin Quiet /\ "=" \notin Quiet /\ VersionIs \notin Quiet
  /\ "?" \notin Letters /\ "/" \notin Letters
BY DEF Chars, Letters, Quiet, VersionIs

(* urlencoding_lite leaves nothing that separates.                         *)
LEMMA Encoded ==
  ASSUME NEW v \in Seq(Chars)
  PROVE  UrlEncode(v) \in Seq(Quiet)
<1> DEFINE e == UrlEncode(v)
<1>1. DOMAIN v = 1..Len(v) /\ Len(v) \in Nat /\ \A i \in 1..Len(v) : v[i] \in Chars
  BY ElementOfSeq
<1>2. e = [i \in 1..Len(v) |-> e[i]]
  BY <1>1 DEF UrlEncode
<1>3. ASSUME NEW i \in 1..Len(v)
      PROVE  e[i] \in Quiet
  <2>1. e[i] = IF v[i] \in DOMAIN Code THEN Code[v[i]] ELSE v[i]
    BY <1>1 DEF UrlEncode
  <2>2. DOMAIN Code = {"&", "=", "?", "%", "/", VersionIs}
    BY DEF Code
  <2>3. CASE v[i] \in DOMAIN Code
    <3>1. Code[v[i]] \in {"%26", "%3D", "%3F", "%25", "%2F", "api-version%3D"}
      BY <2>3 DEF Code, VersionIs
    <3> QED BY <2>1, <2>3, <3>1, Alphabet
  <2>4. CASE v[i] \notin DOMAIN Code
    <3>1. v[i] \in Quiet
      BY <1>1, <2>2, <2>4 DEF Letters, Quiet
    <3> QED BY <2>1, <2>4, <3>1
  <2> QED BY <2>3, <2>4
<1> HIDE DEF e
<1> QED BY <1>1, <1>2, <1>3, MappedSeq DEF e

(* A query's pairs, of any names and values.                               *)
Pairs == Chars \X Seq(Chars)

(* The separators of one pair and of a text.                               *)
Separates(text, e, v) ==
  Count(text, "=") = e /\ Count(text, VersionIs) = v /\ Count(text, "&") = e + v

Nought(s) == Count(s, "=") = 0 /\ Count(s, VersionIs) = 0 /\ Count(s, "&") = 0

LEMMA NoughtQuiet ==
  ASSUME NEW e \in Seq(Quiet)
  PROVE  e \in Seq(Letters) /\ Nought(e)
<1>1. e \in Seq(Letters)
  BY Alphabet, SeqMonotonic
<1> QED BY <1>1, Alphabet, CountNone DEF Nought

Summed(s, t) == \A c : Count(s \o t, c) = Count(s, c) + Count(t, c)

LEMMA SummedConcat ==
  ASSUME NEW S, NEW s \in Seq(S), NEW t \in Seq(S)
  PROVE  s \o t \in Seq(S) /\ Summed(s, t)
<1>1. ASSUME NEW c PROVE Count(s \o t, c) = Count(s, c) + Count(t, c)
  BY CountConcat
<1> QED BY <1>1, ConcatProperties DEF Summed

One(b) == IF b THEN 1 ELSE 0

LEMMA PairCounted ==
  ASSUME NEW pair \in Pairs
  PROVE  /\ PairText(pair) \in Seq(Letters) /\ Len(PairText(pair)) \in Nat \ {0} /\ PairText(pair)[1] = "&"
         /\ Separates(PairText(pair), One(~IsVersion(pair)), One(IsVersion(pair)))
<1> DEFINE a == <<"&">>
           n == UrlEncode(<<pair[1]>>)
           is == <<"=">>
           ver == <<VersionIs>>
           m == IF IsVersion(pair) THEN ver ELSE n \o is
           e == UrlEncode(pair[2])
<1>1. n \in Seq(Quiet) /\ e \in Seq(Quiet)
  <2>1. <<pair[1]>> \in Seq(Chars) /\ pair[2] \in Seq(Chars)
    BY DEF Pairs
  <2> QED BY <2>1, Encoded
<1>2. n \in Seq(Letters) /\ Nought(n) /\ e \in Seq(Letters) /\ Nought(e)
  <2> HIDE DEF n, e
  <2> QED BY <1>1, NoughtQuiet
<1>3. a \in Seq(Letters) /\ is \in Seq(Letters) /\ ver \in Seq(Letters)
  BY Alphabet
<1>4. /\ Count(a, "&") = 1 /\ Count(a, "=") = 0 /\ Count(a, VersionIs) = 0
      /\ Count(is, "&") = 0 /\ Count(is, "=") = 1 /\ Count(is, VersionIs) = 0
      /\ Count(ver, "&") = 0 /\ Count(ver, "=") = 0 /\ Count(ver, VersionIs) = 1
  BY CountOne DEF VersionIs
<1>5. Len(a) = 1 /\ a[1] = "&"
  OBVIOUS
<1>6. PairText(pair) = (a \o m) \o e
  BY DEF PairText
<1> HIDE DEF a, n, is, ver, e
<1>7. m \in Seq(Letters) /\ Count(m, "&") = 0 /\ Count(m, "=") = One(~IsVersion(pair))
      /\ Count(m, VersionIs) = One(IsVersion(pair))
  <2>1. CASE IsVersion(pair)
    BY <1>3, <1>4, <2>1 DEF One
  <2>2. CASE ~IsVersion(pair)
    <3>1. n \o is \in Seq(Letters) /\ Summed(n, is)
      BY <1>2, <1>3, SummedConcat
    <3> QED BY <1>2, <1>4, <2>2, <3>1 DEF One, Summed, Nought
  <2> QED BY <2>1, <2>2
<1> HIDE DEF m
<1> DEFINE am == a \o m
<1>8. am \in Seq(Letters) /\ Summed(a, m) /\ Len(am) = 1 + Len(m) /\ am[1] = "&"
  <2>1. am \in Seq(Letters) /\ Summed(a, m)
    BY <1>3, <1>7, SummedConcat
  <2>2. /\ Len(am) = Len(a) + Len(m)
        /\ \A i \in 1..Len(a) + Len(m) : am[i] = IF i <= Len(a) THEN a[i] ELSE m[i - Len(a)]
    BY <1>3, <1>7, ConcatProperties
  <2>3. Len(m) \in Nat
    BY <1>7
  <2>4. 1 \in 1..1 + Len(m)
    BY <2>3
  <2> QED BY <1>5, <2>1, <2>2, <2>4
<1>9. /\ Count(am, "&") = 1 /\ Count(am, "=") = One(~IsVersion(pair))
      /\ Count(am, VersionIs) = One(IsVersion(pair))
  BY <1>4, <1>7, <1>8 DEF Summed, One
<1> HIDE DEF am
<1> DEFINE text == am \o e
<1>10. text \in Seq(Letters) /\ Summed(am, e) /\ Len(text) \in Nat \ {0} /\ text[1] = "&"
  <2>1. text \in Seq(Letters) /\ Summed(am, e)
    BY <1>2, <1>8, SummedConcat
  <2>2. /\ Len(text) = Len(am) + Len(e)
        /\ \A i \in 1..Len(am) + Len(e) : text[i] = IF i <= Len(am) THEN am[i] ELSE e[i - Len(am)]
    <3>1. am \in Seq(Letters) /\ e \in Seq(Letters)
      BY <1>2, <1>8
    <3> QED BY ONLY <3>1, ConcatProperties
  <2>3. Len(m) \in Nat /\ Len(e) \in Nat
    BY <1>2, <1>7
  <2>4. 1 \in 1..Len(am) + Len(e) /\ 1 <= Len(am) /\ Len(am) + Len(e) \in Nat \ {0}
    BY <1>8, <2>3
  <2> QED BY <1>8, <2>1, <2>2, <2>4
<1>11. Separates(text, One(~IsVersion(pair)), One(IsVersion(pair)))
  <2>1. /\ Count(text, "&") = Count(am, "&") + Count(e, "&")
        /\ Count(text, "=") = Count(am, "=") + Count(e, "=")
        /\ Count(text, VersionIs) = Count(am, VersionIs) + Count(e, VersionIs)
    BY <1>10 DEF Summed
  <2>2. /\ Count(text, "&") = 1 /\ Count(text, "=") = One(~IsVersion(pair))
        /\ Count(text, VersionIs) = One(IsVersion(pair))
    BY <1>2, <1>9, <2>1 DEF Nought, One
  <2>3. One(~IsVersion(pair)) + One(IsVersion(pair)) = 1
    BY DEF One
  <2> QED BY <2>2, <2>3 DEF Separates
<1>12. PairText(pair) = text
  BY <1>6 DEF am
<1> HIDE DEF text
<1> QED BY <1>10, <1>11, <1>12

-----------------------------------------------------------------------------
(* A text of pairs is empty or begins with an ampersand.                   *)
Opens(text) == text = <<>> \/ (Len(text) \in Nat \ {0} /\ text[1] = "&")

LEMMA OpensConcat ==
  ASSUME NEW s \in Seq(Letters), NEW t \in Seq(Letters), Opens(s), Opens(t)
  PROVE  Opens(s \o t)
<1>1. CASE s = <<>>
  <2>1. s \o t = t
    BY <1>1, ConcatEmptySeq
  <2> QED BY <2>1
<1>2. CASE s # <<>>
  <2>1. Len(s) \in Nat \ {0} /\ s[1] = "&" /\ Len(t) \in Nat
    BY <1>2 DEF Opens
  <2>2. /\ Len(s \o t) = Len(s) + Len(t)
        /\ \A i \in 1..Len(s) + Len(t) : (s \o t)[i] = IF i <= Len(s) THEN s[i] ELSE t[i - Len(s)]
    BY ConcatProperties
  <2>3. 1 \in 1..Len(s) + Len(t) /\ 1 <= Len(s) /\ Len(s) + Len(t) \in Nat \ {0}
    BY <2>1
  <2>4. Len(s \o t) \in Nat \ {0} /\ (s \o t)[1] = "&"
    BY ONLY <2>1, <2>2, <2>3
  <2> QED BY ONLY <2>4 DEF Opens
<1> QED BY <1>1, <1>2

LEMMA SeparatesConcat ==
  ASSUME NEW s \in Seq(Letters), NEW t \in Seq(Letters),
         NEW e \in Nat, NEW v \in Nat, NEW g \in Nat, NEW w \in Nat,
         Separates(s, e, v), Separates(t, g, w)
  PROVE  Separates(s \o t, e + g, v + w)
<1>1. /\ Count(s \o t, "=") = Count(s, "=") + Count(t, "=")
      /\ Count(s \o t, VersionIs) = Count(s, VersionIs) + Count(t, VersionIs)
      /\ Count(s \o t, "&") = Count(s, "&") + Count(t, "&")
  BY CountConcat
<1> QED BY <1>1 DEF Separates

(* Without its first ampersand.                                            *)
Shorter(text) == \A c : Count(text, c) = One(c = "&") + Count(Tail(text), c)

LEMMA Shortened ==
  ASSUME NEW text \in Seq(Letters), Opens(text), text # <<>>
  PROVE  Tail(text) \in Seq(Letters) /\ Shorter(text)
<1> DEFINE a == <<"&">>
           r == Tail(text)
           l == Len(text)
<1>1. l \in Nat \ {0} /\ text[1] = "&"
  BY DEF Opens
<1>2. r \in Seq(Letters) /\ r = SubSeq(text, 2, l)
  BY HeadTailProperties, TailIsSubSeq
<1>3. text = a \o r
  <2>1. SubSeq(text, 1, l) = <<text[1]>> \o SubSeq(text, 1 + 1, l)
    <3>1. 1 \in 1..Len(text) /\ l \in 1..Len(text)
      BY <1>1
    <3> HIDE DEF l
    <3> QED BY ONLY <3>1, text \in Seq(Letters), SubSeqRecursiveFirst
  <2>2. SubSeq(text, 1, l) = text
    BY SubSeqFull
  <2>3. 1 + 1 = 2
    OBVIOUS
  <2> HIDE DEF r, l
  <2> QED BY ONLY <1>1, <1>2, <2>1, <2>2, <2>3
<1>4. a \in Seq(Letters) /\ \A c : Count(a, c) = One(c = "&")
  BY Alphabet, CountOne DEF One
<1> HIDE DEF a, r
<1>5. \A c : Count(a \o r, c) = Count(a, c) + Count(r, c)
  <2>1. Summed(a, r)
    BY <1>2, <1>4, SummedConcat
  <2> QED BY <2>1 DEF Summed
<1>6. \A c : Count(text, c) = One(c = "&") + Count(r, c)
  BY ONLY <1>3, <1>4, <1>5
<1> QED BY <1>2, <1>6 DEF Shorter, r

-----------------------------------------------------------------------------
(* actions_url's pairs: which of them name the version, and which do not.  *)
Versions(pairs) == {i \in 1..Len(pairs) : IsVersion(pairs[i])}
Others(pairs) == {i \in 1..Len(pairs) : ~IsVersion(pairs[i])}
Sent(pairs, dropped) == IF dropped THEN {} ELSE Versions(pairs)

Piece(pairs, dropped, i) == IF dropped /\ IsVersion(pairs[i]) THEN <<>> ELSE PairText(pairs[i])

LEMMA PieceCounted ==
  ASSUME NEW pairs \in Seq(Pairs), NEW dropped \in BOOLEAN, NEW i \in 1..Len(pairs)
  PROVE  LET piece == Piece(pairs, dropped, i)
         IN /\ piece \in Seq(Letters) /\ Opens(piece)
            /\ Separates(piece, One(i \in Others(pairs)), One(i \in Sent(pairs, dropped)))
<1> DEFINE piece == Piece(pairs, dropped, i)
<1>1. pairs[i] \in Pairs
  BY ElementOfSeq
<1>2. CASE dropped /\ IsVersion(pairs[i])
  <2>1. piece = <<>> /\ i \notin Others(pairs) /\ i \notin Sent(pairs, dropped)
    BY <1>2 DEF Piece, Others, Sent
  <2>2. <<>> \in Seq(Quiet)
    OBVIOUS
  <2>3. <<>> \in Seq(Letters) /\ Nought(<<>>)
    BY <2>2, NoughtQuiet
  <2>4. Separates(<<>>, 0, 0) /\ Opens(<<>>)
    <3>1. 0 + 0 = 0
      OBVIOUS
    <3>2. Separates(<<>>, 0, 0)
      BY ONLY <2>3, <3>1 DEF Nought, Separates
    <3>3. \A s : s = <<>> => Opens(s)
      BY DEF Opens
    <3> QED BY ONLY <3>2, <3>3
  <2>5. One(i \in Others(pairs)) = 0 /\ One(i \in Sent(pairs, dropped)) = 0
    BY <2>1 DEF One
  <2>6. Piece(pairs, dropped, i) = <<>>
    BY <2>1
  <2> QED BY ONLY <2>3, <2>4, <2>5, <2>6
<1>3. CASE ~(dropped /\ IsVersion(pairs[i]))
  <2>1. piece = PairText(pairs[i])
    BY <1>3 DEF Piece
  <2>2. (i \in Others(pairs) <=> ~IsVersion(pairs[i])) /\ (i \in Sent(pairs, dropped) <=> IsVersion(pairs[i]))
    BY <1>3 DEF Others, Versions, Sent
  <2>3. /\ One(i \in Others(pairs)) = One(~IsVersion(pairs[i]))
        /\ One(i \in Sent(pairs, dropped)) = One(IsVersion(pairs[i]))
    BY <2>2 DEF One
  <2>4. /\ PairText(pairs[i]) \in Seq(Letters) /\ Opens(PairText(pairs[i]))
        /\ Separates(PairText(pairs[i]), One(~IsVersion(pairs[i])), One(IsVersion(pairs[i])))
    BY <1>1, PairCounted DEF Opens
  <2>5. Piece(pairs, dropped, i) = PairText(pairs[i])
    BY <2>1
  <2> QED BY ONLY <2>3, <2>4, <2>5
<1> QED BY <1>2, <1>3

(* actions_url's text: one separator for each pair that is not dropped.    *)
TextOf(text, pairs, dropped) ==
  /\ text \in Seq(Letters) /\ Opens(text)
  /\ Separates(text, Cardinality(Others(pairs)), Cardinality(Sent(pairs, dropped)))

LEMMA TextCounted ==
  ASSUME NEW pairs \in Seq(Pairs), pairs # <<>>, NEW dropped \in BOOLEAN
  PROVE  TextOf(PairsText(pairs, dropped), pairs, dropped)
<1> DEFINE L == Len(pairs)
           P == [i \in 1..L |-> Piece(pairs, dropped, i)]
           V == Seq(Letters)
           O == Others(pairs)
           W == Sent(pairs, dropped)
           e(k) == Cardinality(Upto(O, k))
           v(k) == Cardinality(Upto(W, k))
<1>1. L \in Nat \ {0}
  BY EmptySeq
<1>2. PairsText(pairs, dropped) = FlattenSeq(P)
  BY DEF PairsText, Piece
<1>3. \A i \in 1..L : P[i] = Piece(pairs, dropped, i)
  OBVIOUS
<1>4. \A i \in 1..L : P[i] \in V /\ Opens(P[i]) /\ Separates(P[i], One(i \in O), One(i \in W))
  BY <1>3, PieceCounted
<1>5. Len(P) = L
  <2>1. P = [i \in 1..L |-> P[i]] /\ L \in Nat
    BY <1>1
  <2> HIDE DEF P, L
  <2> QED BY ONLY <1>4, <2>1, MappedSeq
<1>6. O \subseteq 1..L /\ W \subseteq 1..L
  BY DEF Others, Sent, Versions
<1> HIDE DEF P, L, O, W
<1>7. PICK f : Flat(f, P, L)
  BY ONLY <1>1, <1>4, <1>5, Flattened
<1>8. \A k \in Nat : /\ e(k) \in Nat /\ v(k) \in Nat
                     /\ e(k + 1) = e(k) + One(k + 1 \in O) /\ v(k + 1) = v(k) + One(k + 1 \in W)
  BY UptoNext DEF One
<1>9. e(0) = 0 /\ v(0) = 0
  <2>1. Upto(O, 0) = {} /\ Upto(W, 0) = {}
    BY DEF Upto
  <2> QED BY <2>1, FS_EmptySet
<1>10. \A b : One(b) \in Nat
  BY DEF One
<1> HIDE DEF e, v
<1> DEFINE Good(k) == f[k] \in V /\ Opens(f[k]) /\ Separates(f[k], e(k), v(k))
           I == {k \in Nat : k + 1 <= L => Good(k + 1)}
<1>11. 0 \in I
  <2>1. 1 \in 1..L /\ 0 + 1 = 1 /\ 0 \in Nat
    BY <1>1
  <2>2. e(1) = One(1 \in O) /\ v(1) = One(1 \in W)
    <3>1. e(0 + 1) = e(0) + One(0 + 1 \in O) /\ v(0 + 1) = v(0) + One(0 + 1 \in W)
      BY <1>8, <2>1
    <3>2. One(1 \in O) \in Nat /\ One(1 \in W) \in Nat
      BY <1>10
    <3> QED BY <1>9, <2>1, <3>1, <3>2
  <2>3. f[1] = P[1]
    BY <1>7 DEF Flat
  <2>4. Good(1)
    BY <1>4, <2>1, <2>2, <2>3
  <2> HIDE DEF Good
  <2> QED BY <2>1, <2>4
<1>12. ASSUME NEW k \in Nat, k \in I
       PROVE  k + 1 \in I
  <2> DEFINE n == k + 1
             p == n + 1
  <2>1. SUFFICES ASSUME p <= L PROVE Good(p)
    OBVIOUS
  <2>2. n \in Nat /\ p \in 1..L /\ p # 1 /\ p - 1 = n /\ n <= L
    BY <1>1, <2>1
  <2>3. Good(n)
    BY <1>12, <2>2
  <2>4. f[p] = f[n] \o P[p]
    BY <1>7, <2>2 DEF Flat
  <2>5. P[p] \in V /\ Opens(P[p]) /\ Separates(P[p], One(p \in O), One(p \in W))
    BY <1>4, <2>2
  <2>6. /\ e(n) \in Nat /\ v(n) \in Nat /\ One(p \in O) \in Nat /\ One(p \in W) \in Nat
        /\ e(p) = e(n) + One(p \in O) /\ v(p) = v(n) + One(p \in W)
    BY <1>8, <1>10, <2>2
  <2> HIDE DEF p, n
  <2>7. Separates(f[n] \o P[p], e(n) + One(p \in O), v(n) + One(p \in W))
    <3>1. f[n] \in V /\ Separates(f[n], e(n), v(n))
      BY <2>3
    <3> QED BY ONLY <2>5, <2>6, <3>1, SeparatesConcat
  <2>8. f[n] \o P[p] \in V /\ Opens(f[n] \o P[p])
    <3>1. f[n] \in V /\ Opens(f[n])
      BY <2>3
    <3> QED BY ONLY <2>5, <3>1, ConcatProperties, OpensConcat
  <2> HIDE DEF V
  <2> QED BY ONLY <2>4, <2>6, <2>7, <2>8
<1> HIDE DEF Good, I
<1>13. Good(L)
  <2>1. L - 1 \in Nat /\ (L - 1) + 1 = L
    BY <1>1
  <2>2. L - 1 \in I
    BY <1>11, <1>12, <2>1, Induction
  <2> QED BY <1>1, <2>1, <2>2 DEF I
<1>14. Upto(O, L) = O /\ Upto(W, L) = W
  BY <1>6 DEF Upto
<1>15. FlattenSeq(P) = f[L]
  BY <1>7 DEF Flat
<1> QED BY <1>2, <1>13, <1>14, <1>15 DEF Good, TextOf, e, v, O, W

(* The call's pairs with the version: how many of them name it.            *)
VersionsOf(query, own) == IF own = Len(query) THEN 1 ELSE Len(query) - own
OwnOf(query) == Cardinality({i \in DOMAIN query : ~IsVersion(query[i])})

LEMMA VersionsCounted ==
  ASSUME NEW query \in Seq(Pairs)
  PROVE  /\ WithVersion(query) \in Seq(Pairs) /\ WithVersion(query) # <<>>
         /\ Cardinality(Others(WithVersion(query))) = OwnOf(query)
         /\ Cardinality(Versions(WithVersion(query))) = VersionsOf(query, OwnOf(query))
         /\ OwnOf(query) \in Nat /\ VersionsOf(query, OwnOf(query)) \in Nat \ {0}
<1> DEFINE N == Len(query)
           A == Others(query)
           B == Versions(query)
           pairs == WithVersion(query)
<1>1. N \in Nat /\ A = {i \in DOMAIN query : ~IsVersion(query[i])} /\ OwnOf(query) = Cardinality(A)
  <2>1. N \in Nat /\ DOMAIN query = 1..N
    OBVIOUS
  <2> HIDE DEF N
  <2> QED BY ONLY <2>1 DEF Others, OwnOf, A, N
<1>2. A \in SUBSET (1..N) /\ B \in SUBSET (1..N) /\ A \cup B = 1..N /\ A \cap B = {}
  BY DEF Others, Versions
<1>3. (\E i \in DOMAIN query : IsVersion(query[i])) <=> B # {}
  BY DEF Versions
<1> HIDE DEF A, B
<1>4. IsFiniteSet(1..N) /\ Cardinality(1..N) = N
  <2>1. 1 \in Int /\ N \in Int /\ (IF 1 > N THEN 0 ELSE N - 1 + 1) = N
    BY <1>1
  <2> HIDE DEF N
  <2> QED BY <2>1, FS_Interval
<1>5. IsFiniteSet(A) /\ IsFiniteSet(B)
  BY <1>2, <1>4, FS_Subset
<1>6. Cardinality(A) \in Nat /\ Cardinality(B) \in Nat /\ (B = {} <=> Cardinality(B) = 0)
  BY <1>5, FS_CardinalityType, FS_EmptySet
<1>7. Cardinality(A) + Cardinality(B) = N
  <2>1. Cardinality(A \cup B) = Cardinality(A) + Cardinality(B) - Cardinality(A \cap B)
    BY <1>5, FS_Union
  <2>2. Cardinality(A \cap B) = 0
    BY <1>2, FS_EmptySet
  <2>3. Cardinality(A \cup B) = N
    BY <1>2, <1>4
  <2> HIDE DEF N
  <2> QED BY ONLY <1>6, <2>1, <2>2, <2>3
<1>8. CASE B # {}
  <2>1. pairs = query /\ Others(pairs) = A /\ Versions(pairs) = B
    BY <1>3, <1>8 DEF WithVersion, A, B
  <2>2. query # <<>>
    <3>1. N # 0
      BY <1>1, <1>2, <1>8
    <3> QED BY <3>1, EmptySeq
  <2>3. Cardinality(B) = VersionsOf(query, Cardinality(A)) /\ Cardinality(B) # 0
    BY <1>6, <1>7, <1>8 DEF VersionsOf
  <2> HIDE DEF pairs
  <2> QED BY <1>1, <1>6, <2>1, <2>2, <2>3 DEF pairs
<1>9. CASE B = {}
  <2>1. pairs = Append(query, Version)
    BY <1>3, <1>9 DEF WithVersion
  <2>2. Version \in Pairs /\ IsVersion(Version)
    <3>1. <<"6.0-preview">> \in Seq(Chars) /\ "api-version" \in Chars
      BY Alphabet
    <3> QED BY <3>1 DEF Version, Pairs, IsVersion
  <2>3. /\ pairs \in Seq(Pairs) /\ pairs # <<>> /\ Len(pairs) = N + 1
        /\ \A i \in 1..N : pairs[i] = query[i]
        /\ pairs[N + 1] = Version
    BY <2>1, <2>2, AppendProperties
  <2> HIDE DEF pairs
  <2>4. \A i \in 1..N : ~IsVersion(query[i])
    BY <1>9 DEF B, Versions
  <2>5. \A i \in 1..N : ~IsVersion(pairs[i])
    BY <2>3, <2>4
  <2>6. IsVersion(pairs[N + 1])
    BY <2>2, <2>3
  <2>7. Others(pairs) = 1..N /\ Versions(pairs) = {N + 1}
    <3>1. \A i \in 1..N + 1 : i \in 1..N \/ i = N + 1
      BY <1>1
    <3>2. 1..N \subseteq 1..N + 1 /\ N + 1 \in 1..N + 1
      BY <1>1
    <3> HIDE DEF N
    <3> QED BY ONLY <2>3, <2>5, <2>6, <3>1, <3>2 DEF Others, Versions
  <2>8. Cardinality(A) = N /\ Cardinality(Others(pairs)) = N
    BY <1>4, <1>6, <1>7, <1>9, <2>7
  <2>9. Cardinality(Versions(pairs)) = 1
    BY <2>7, FS_Singleton
  <2>10. VersionsOf(query, Cardinality(A)) = 1
    BY <2>8 DEF VersionsOf
  <2> QED BY <1>1, <2>3, <2>8, <2>9, <2>10 DEF pairs
<1> QED BY <1>8, <1>9

-----------------------------------------------------------------------------
(* The URL is the joined one, and what is added to it.                     *)
Added(joined, text) ==
  IF text = <<>> THEN <<>> ELSE IF Places(joined, "?") = {} THEN <<"?">> \o Tail(text) ELSE text

LEMMA UrlAdds ==
  ASSUME NEW joined \in Seq(Chars), joined[Len(joined)] \notin {"?", "&"}, NEW base, NEW path, NEW query,
         joined = JoinUrlPath(base, path),
         NEW text \in Seq(Letters), Opens(text),
         text = PairsText(WithVersion(query), NamesVersion(joined))
  PROVE  ActionsUrl(base, path, query) = joined \o Added(joined, text)
<1>1. CASE text = <<>>
  <2>1. joined \o <<>> = joined
    BY ConcatEmptySeq
  <2> QED BY <1>1, <2>1 DEF ActionsUrl, Added
<1>2. CASE text # <<>> /\ Places(joined, "?") = {}
  <2>1. Tail(text) \in Seq(Chars) /\ <<"?">> \in Seq(Chars)
    <3>1. Tail(text) \in Seq(Letters)
      BY <1>2, Shortened
    <3> QED BY <3>1, Alphabet, SeqMonotonic
  <2> DEFINE q == <<"?">>
             r == Tail(text)
  <2>2. ActionsUrl(base, path, query) = (joined \o q) \o r
    BY <1>2 DEF ActionsUrl
  <2>3. Added(joined, text) = q \o r
    BY <1>2 DEF Added
  <2> HIDE DEF q, r
  <2>4. (joined \o q) \o r = joined \o (q \o r)
    <3>1. joined \in Seq(Chars) /\ q \in Seq(Chars) /\ r \in Seq(Chars)
      BY <2>1 DEF q, r
    <3> QED BY ONLY <3>1, ConcatAssociative
  <2> QED BY ONLY <2>2, <2>3, <2>4
<1>3. CASE text # <<>> /\ Places(joined, "?") # {}
  BY <1>3 DEF ActionsUrl, Added
<1> QED BY <1>1, <1>2, <1>3

(* What is added has no slash, and at most the one question mark that      *)
(* begins a query.                                                         *)
AddsTo(joined, text, more) ==
  /\ more \in Seq(Chars) /\ Count(more, VersionIs) = Count(text, VersionIs) /\ Count(more, "=") = Count(text, "=")
  /\ Places(more, "/") = {}
  /\ IF Places(joined, "?") # {} THEN Places(more, "?") = {} /\ Count(more, "&") = Count(text, "&")
     ELSE Places(more, "?") = {1} /\ Count(more, "&") = Count(text, "&") - 1

LEMMA AddedCounted ==
  ASSUME NEW joined, NEW text \in Seq(Letters), Opens(text), text = <<>> => Places(joined, "?") # {}
  PROVE  AddsTo(joined, text, Added(joined, text))
<1>1. text \in Seq(Chars) /\ Places(text, "/") = {} /\ Places(text, "?") = {}
  <2>1. text \in Seq(Chars)
    BY Alphabet, SeqMonotonic
  <2>2. \A i \in 1..Len(text) : text[i] # "/" /\ text[i] # "?"
    BY Alphabet, ElementOfSeq
  <2> QED BY <2>1, <2>2 DEF Places
<1>2. CASE Places(joined, "?") # {}
  <2>1. Added(joined, text) = text
    BY <1>2 DEF Added
  <2> QED BY <1>1, <1>2, <2>1 DEF AddsTo
<1>3. CASE Places(joined, "?") = {}
  <2> DEFINE q == <<"?">>
             r == Tail(text)
             more == q \o r
  <2>1. text # <<>> /\ Added(joined, text) = more
    BY <1>3 DEF Added
  <2>2. r \in Seq(Letters) /\ Shorter(text)
    BY <2>1, Shortened
  <2>3. Len(q) = 1 /\ Places(q, "/") = {} /\ Places(q, "?") = {1} /\ q \in Seq(Chars)
    BY Alphabet DEF Places
  <2>4. Count(q, VersionIs) = 0 /\ Count(q, "=") = 0 /\ Count(q, "&") = 0
    BY CountOne DEF VersionIs
  <2> HIDE DEF q, r
  <2>5. r \in Seq(Chars) /\ Places(r, "/") = {} /\ Places(r, "?") = {}
    <3>1. r \in Seq(Chars)
      BY <2>2, Alphabet, SeqMonotonic
    <3>2. \A i \in 1..Len(r) : r[i] # "/" /\ r[i] # "?"
      BY <2>2, Alphabet, ElementOfSeq
    <3> QED BY <3>1, <3>2 DEF Places
  <2>6. more \in Seq(Chars) /\ Summed(q, r)
    BY <2>3, <2>5, SummedConcat
  <2>7. Places(more, "/") = {} /\ Places(more, "?") = {1}
    <3>1. Places(q \o r, "/") = Places(q, "/") /\ Places(q \o r, "?") = Places(q, "?")
      BY <2>3, <2>5, PlacesBefore
    <3> QED BY <2>3, <3>1
  <2>8. /\ Count(more, VersionIs) = 0 + Count(r, VersionIs) /\ Count(more, "=") = 0 + Count(r, "=")
        /\ Count(more, "&") = 0 + Count(r, "&")
    BY <2>4, <2>6 DEF Summed
  <2>9. /\ Count(text, VersionIs) = 0 + Count(r, VersionIs) /\ Count(text, "=") = 0 + Count(r, "=")
        /\ Count(text, "&") = 1 + Count(r, "&")
    <3>1. One(VersionIs = "&") = 0 /\ One("=" = "&") = 0 /\ One("&" = "&") = 1
      BY DEF One, VersionIs
    <3> QED BY <2>2, <3>1 DEF Shorter, r
  <2>10. Count(r, "&") \in Nat
    BY <2>2, PlacesFinite
  <2> HIDE DEF more
  <2>11. Count(more, "&") = Count(text, "&") - 1
    BY ONLY <2>8, <2>9, <2>10
  <2> QED BY <1>3, <2>1, <2>6, <2>7, <2>8, <2>9, <2>11 DEF AddsTo, more
<1> QED BY <1>2, <1>3

(* What CallUrlExact says of one call.                                     *)
Exact(base, path, query, url) ==
  LET segments == Without(base, "/") \o Without(path, "/")
      own == OwnOf(query)
      versions == IF NamesVersion(base) THEN 0 ELSE VersionsOf(query, own)
  IN /\ SubSeq(Without(url, "/"), 1, Len(segments)) = segments
     /\ Slashes(base, url)
     /\ IF Places(base, "?") # {} THEN Places(url, "?") = Places(base, "?")
        ELSE /\ Count(url, "?") = 1
             /\ \A i \in Places(url, "?") : Without(SubSeq(url, 1, i - 1), "/") = segments
     /\ Count(url, "=") = Count(base, "=") + own
     /\ Count(url, VersionIs) = Count(base, VersionIs) + versions
     /\ Count(url, "&") = Count(base, "&") + own + versions - (IF Places(base, "?") = {} THEN 1 ELSE 0)

LEMMA UrlExact ==
  ASSUME NEW base \in Bases, NEW path \in CallPaths, NEW query \in Queries
  PROVE  Exact(base, path, query, ActionsUrl(base, path, query))
<1> DEFINE S == STRING \ Reserved
           joined == JoinUrlPath(base, path)
           pairs == WithVersion(query)
           named == NamesVersion(joined)
           text == PairsText(pairs, named)
           more == Added(joined, text)
           url == joined \o more
           own == OwnOf(query)
           versions == IF named THEN 0 ELSE VersionsOf(query, own)
<1>1. /\ base \in Seq(STRING) /\ path \in Seq(S) /\ path # <<>> /\ Single(path)
      /\ query \in Seq(STRING \X Seq(STRING))
  BY ClientSetupAssumption DEF Single
<1>2. base \in Seq(Chars) /\ query \in Seq(Pairs)
  <2> DEFINE W == STRING
             N == W \X Seq(W)
  <2>1. W \subseteq Chars
    BY Alphabet
  <2> HIDE DEF W
  <2>2. Seq(W) \subseteq Seq(Chars)
    BY <2>1
  <2>3. N \subseteq Pairs
    BY <2>1, <2>2 DEF Pairs
  <2>4. base \in Seq(W) /\ query \in Seq(N)
    BY <1>1 DEF W
  <2> HIDE DEF N
  <2> QED BY <2>1, <2>3, <2>4, SeqMonotonic
<1>3. S \subseteq Chars /\ \A c \in Reserved : c \notin S /\ c # "/"
  BY Alphabet DEF Reserved, VersionIs
<1> HIDE DEF S
<1>4. \A c \in Reserved : Places(joined, c) = Places(base, c) /\ joined[Len(joined)] # c
  <2> SUFFICES ASSUME NEW c \in Reserved PROVE JoinsAt(base, path, c)
    BY DEF JoinsAt
  <2> QED BY <1>1, <1>2, <1>3, JoinsPlaces
<1>5. joined \in Seq(Chars) /\ Slashes(base, joined)
  <2>1. path \in Seq(Chars) /\ Chars \cup {"/"} \subseteq Chars
    BY <1>1, <1>3, Alphabet, SeqMonotonic
  <2>2. base \in Seq(Chars) /\ Single(path)
    BY <1>1, <1>2
  <2> QED BY ONLY <2>1, <2>2, JoinsOnce
<1>6. Without(joined, "/") = Without(base, "/") \o Without(path, "/")
  <2>1. path \in Seq(Chars)
    BY <1>1, <1>3, SeqMonotonic
  <2>2. JoinsAll(base, path)
    BY ONLY <1>2, <2>1, JoinsSegments
  <2> QED BY <2>2 DEF JoinsAll
<1>7. /\ Places(joined, "?") = Places(base, "?") /\ named = NamesVersion(base)
      /\ \A c \in {"=", "&", VersionIs} : Count(joined, c) = Count(base, c)
      /\ joined[Len(joined)] \notin {"?", "&"}
  BY <1>4 DEF Reserved, NamesVersion, Count
<1>8. named \in BOOLEAN /\ (named => Places(joined, "?") # {})
  BY DEF NamesVersion
<1>9. /\ pairs \in Seq(Pairs) /\ pairs # <<>> /\ Cardinality(Others(pairs)) = own
      /\ Cardinality(Versions(pairs)) = VersionsOf(query, own)
      /\ own \in Nat /\ VersionsOf(query, own) \in Nat \ {0}
  BY <1>2, VersionsCounted
<1> HIDE DEF pairs, named, own, joined
<1>10. TextOf(text, pairs, named)
  BY <1>8, <1>9, TextCounted
<1>11. Cardinality(Sent(pairs, named)) = versions
  BY <1>8, <1>9, FS_EmptySet DEF Sent
<1>12. versions \in Nat /\ (~named => versions # 0)
  BY <1>8, <1>9
<1> HIDE DEF text, versions
<1>13. text \in Seq(Letters) /\ Opens(text) /\ Separates(text, own, versions)
  BY <1>9, <1>10, <1>11 DEF TextOf
<1>14. text = <<>> => Places(joined, "?") # {}
  <2> SUFFICES ASSUME text = <<>>, ~named PROVE FALSE
    BY <1>8
  <2>1. Count(<<>>, VersionIs) = 0
    BY CountNone, <<>> \in Seq({}), VersionIs \notin {}
  <2> QED BY <1>12, <1>13, <2>1 DEF Separates
<1>15. ActionsUrl(base, path, query) = url
  BY <1>5, <1>7, <1>13, UrlAdds DEF text, pairs, named, joined
<1>16. AddsTo(joined, text, more)
  BY <1>13, <1>14, AddedCounted
<1> HIDE DEF more
<1>17. more \in Seq(Chars) /\ url \in Seq(Chars) /\ Summed(joined, more)
  BY <1>5, <1>16, SummedConcat DEF AddsTo
<1>18. SubSeq(Without(url, "/"), 1, Len(Without(joined, "/"))) = Without(joined, "/")
  <2>1. Splits(joined, more, "/")
    BY <1>5, <1>17, WithoutConcat
  <2>2. Without(joined, "/") \in Seq(Chars \ {"/"}) /\ Without(more, "/") \in Seq(Chars \ {"/"})
    BY <1>5, <1>17, WithoutTyped
  <2>3. BeginsWith(Without(joined, "/"), Without(more, "/"))
    BY <2>2, Prefix
  <2> QED BY <2>1, <2>3 DEF Splits, BeginsWith
<1>19. Slashes(base, url)
  <2>1. Places(url, "/") = Places(joined, "/")
    BY <1>5, <1>16, <1>17, PlacesBefore DEF AddsTo
  <2>2. Doubled(url) = Doubled(joined)
    BY <2>1 DEF Doubled
  <2> QED BY <1>5, <2>2 DEF Slashes
<1>20. ASSUME Places(base, "?") # {}
       PROVE  Places(url, "?") = Places(base, "?")
  <2>1. Places(url, "?") = Places(joined, "?")
    BY <1>5, <1>7, <1>16, <1>17, <1>20, PlacesBefore DEF AddsTo
  <2> QED BY <1>7, <2>1
<1>21. ASSUME Places(base, "?") = {}
       PROVE  /\ Count(url, "?") = 1
              /\ \A i \in Places(url, "?") : Without(SubSeq(url, 1, i - 1), "/") = Without(joined, "/")
  <2> DEFINE l == Len(joined)
  <2>1. l \in Nat /\ Len(more) \in Nat
    BY <1>5, <1>17
  <2>2. Places(more, "?") = {1}
    BY <1>7, <1>16, <1>21 DEF AddsTo
  <2>3. 1 \in 1..Len(more)
    BY <1>17, <2>2 DEF Places
  <2>4. Shifted(joined, more, "?") = {l + 1}
    BY <2>1, <2>2, <2>3 DEF Shifted
  <2>5. Places(url, "?") = {l + 1}
    <3>1. Places(url, "?") = Places(joined, "?") \cup Shifted(joined, more, "?")
      BY <1>5, <1>17, PlacesConcat
    <3> HIDE DEF url
    <3> QED BY <1>7, <1>21, <2>4, <3>1
  <2>6. SubSeq(url, 1, l) = joined
    <3>1. BeginsWith(joined, more)
      BY <1>5, <1>17, Prefix
    <3> QED BY <3>1 DEF BeginsWith
  <2>7. (l + 1) - 1 = l
    BY <2>1
  <2>8. Count(url, "?") = 1
    BY <2>5, FS_Singleton DEF Count
  <2> HIDE DEF url, l
  <2> QED BY <2>5, <2>6, <2>7, <2>8
<1>22. /\ Count(more, "=") = own /\ Count(more, VersionIs) = versions
       /\ Count(more, "&") = own + versions - (IF Places(base, "?") = {} THEN 1 ELSE 0)
  <2>1. Count(text, "=") = own /\ Count(text, VersionIs) = versions /\ Count(text, "&") = own + versions
    BY <1>13 DEF Separates
  <2>2. Count(more, "=") = own /\ Count(more, VersionIs) = versions
    BY <1>16, <2>1 DEF AddsTo
  <2>3. ASSUME Places(base, "?") # {}
        PROVE  Count(more, "&") = own + versions - 0
    <3>1. Count(more, "&") = Count(text, "&")
      BY <1>7, <1>16, <2>3 DEF AddsTo
    <3>2. own \in Nat /\ versions \in Nat
      BY <1>9, <1>12
    <3> QED BY ONLY <2>1, <3>1, <3>2
  <2>4. ASSUME Places(base, "?") = {}
        PROVE  Count(more, "&") = own + versions - 1
    <3>1. Count(more, "&") = Count(text, "&") - 1
      BY <1>7, <1>16, <2>4 DEF AddsTo
    <3>2. own \in Nat /\ versions \in Nat
      BY <1>9, <1>12
    <3> QED BY ONLY <2>1, <3>1, <3>2
  <2> QED BY ONLY <2>2, <2>3, <2>4
<1>23. ASSUME NEW c \in {"=", "&", VersionIs}
       PROVE  Count(url, c) = Count(base, c) + Count(more, c) /\ Count(base, c) \in Nat
  <2>1. Count(base, c) \in Nat
    BY <1>2, PlacesFinite
  <2> QED BY <1>7, <1>17, <2>1 DEF Summed
<1> DEFINE d == IF Places(base, "?") = {} THEN 1 ELSE 0
<1>24. Count(base, "&") + (own + versions - d) = Count(base, "&") + own + versions - d
  <2>1. Count(base, "&") \in Nat /\ d \in Nat
    BY <1>23
  <2> HIDE DEF d
  <2> QED BY <1>9, <1>12, <2>1
<1>25. /\ Count(url, "=") = Count(base, "=") + own
       /\ Count(url, VersionIs) = Count(base, VersionIs) + versions
       /\ Count(url, "&") = Count(base, "&") + own + versions - d
  <2> HIDE DEF url
  <2> QED BY <1>22, <1>23, <1>24
<1> HIDE DEF url
<1>26. versions = IF NamesVersion(base) THEN 0 ELSE VersionsOf(query, own)
  BY <1>7 DEF versions
<1>27. Exact(base, path, query, url)
  <2>1. IF Places(base, "?") # {} THEN Places(url, "?") = Places(base, "?")
        ELSE /\ Count(url, "?") = 1
             /\ \A i \in Places(url, "?") : Without(SubSeq(url, 1, i - 1), "/") = Without(joined, "/")
    BY <1>20, <1>21
  <2> QED BY ONLY <1>6, <1>18, <1>19, <1>25, <1>26, <2>1 DEF Exact, own, d
<1> QED BY ONLY <1>15, <1>27

-----------------------------------------------------------------------------
(* The URL that was called is that of the connection, the path and pairs.  *)
Calling ==
  /\ pc \in {"reading", "call", "done"} => admin.url \in Bases
  /\ called # None =>
       /\ pc = "done" /\ called.path \in CallPaths /\ called.query \in Queries
       /\ called.url = ActionsUrl(admin.url, called.path, called.query)

LEMMA CallingStep == Calling /\ [Next]_vars => Calling'
<1> SUFFICES ASSUME Calling, [Next]_vars PROVE Calling'
  OBVIOUS
<1>1. ASSUME NEW base \in Bases, NEW payload \in Payloads, GetAdminConnection(base, payload)
      PROVE  Calling'
  BY <1>1 DEF GetAdminConnection, Calling
<1>2. CASE New \/ FetchInstallationToken \/ GetRegistrationToken
  BY <1>2 DEF New, FetchInstallationToken, GetRegistrationToken, Fail, Calling
<1>3. CASE ReadExpiry
  <2>1. admin.url \in Bases /\ called = None /\ called' = called
    BY <1>3 DEF ReadExpiry, Calling
  <2>2. admin' = [admin EXCEPT !.bytes = <<>>]
    BY <1>3 DEF ReadExpiry
  <2>3. admin'.url = admin.url
    BY <2>2
  <2> QED BY <2>1, <2>3 DEF Calling
<1>4. CASE SetEnvironment \/ UNCHANGED vars
  BY <1>4 DEF SetEnvironment, vars, Calling
<1>5. ASSUME NEW path \in CallPaths, NEW query \in Queries, Call(path, query)
      PROVE  Calling'
  BY <1>5 DEF Call, Calling
<1> QED BY <1>1, <1>2, <1>3, <1>4, <1>5 DEF Next

(* actions_url, join_url_path and urlencoding_lite: whatever the URL of    *)
(* the service, which may have a query and name the version, and whatever  *)
(* the path and the query's pairs, a call's URL has their segments, joined *)
(* by one slash, and the separators of its pairs, no more and no fewer.    *)
THEOREM CallUrls == Spec => []CallUrlExact
<1>1. Init => Calling
  BY DEF Init, Calling
<1>2. Calling => CallUrlExact
  <2> SUFFICES ASSUME Calling, called # None PROVE CallUrlExact
    BY DEF CallUrlExact
  <2>1. Exact(admin.url, called.path, called.query, called.url)
    BY UrlExact DEF Calling
  <2> QED BY ONLY <2>1 DEF Exact, Slashes, OwnOf, VersionsOf, Count, CallUrlExact
<1>3. Spec => []Calling
  BY <1>1, CallingStep, PTL DEF Spec
<1> QED BY <1>2, <1>3, PTL
=============================================================================
