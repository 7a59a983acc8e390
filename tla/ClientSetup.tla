------------------------------ MODULE ClientSetup ------------------------------
(***************************************************************************)
(* A client from its configuration to the URL of its first API call        *)
(* (src/client.rs): what Client::new accepts, the requests of a token      *)
(* exchange (src/config.rs, src/auth.rs), the expiry that is read from the *)
(* token, and the URL of a call.  Which answers end the exchange, and when *)
(* it is repeated, is in AdminToken.                                       *)
(***************************************************************************)
EXTENDS GitHubConfig, Encodings, SequencesExt

CONSTANTS
  Urls,      \* configured URLs
  Payloads,  \* the bytes of a token's payload
  Bases,     \* URLs of the Actions service, as tokens
  CallPaths, \* paths of API calls
  Queries    \* their query pairs

(* A URL is cut into tokens before and after every "/", "?", "&" and "=";  *)
(* the text "api-version=" is one token.                                   *)
VersionIs == "api-version="
Reserved == {"?", "&", "=", VersionIs}

Places(s, c) == {i \in DOMAIN s : s[i] = c}
Doubled(s) == {i \in Places(s, "/") : i + 1 \in Places(s, "/")}

ASSUME ClientSetupAssumption ==
  /\ \A url \in Urls : url.path \in Seq(STRING)
  /\ Payloads \subseteq Seq(0..255)
  /\ Bases \subseteq Seq(STRING)
  /\ CallPaths \subseteq Seq(STRING \ Reserved)
  /\ \A path \in CallPaths : path # <<>> /\ Doubled(path) = {}
  /\ Queries \subseteq Seq(STRING \X Seq(STRING))

Creds == [kind : {"App"}, id : {0, 1}, filled : BOOLEAN] \cup [kind : {"Token"}, filled : BOOLEAN]

VARIABLES
  input,     \* the configured URL
  creds,     \* the credentials, "filled" when none of their strings is empty
  forceGhes, \* whether GITHUB_ACTIONS_FORCE_GHES is set
  pc,        \* "new", "installation", "registration", "admin", "reading",
             \* "call", "done", "failed"
  config,    \* the configuration, once the client is made
  admin,     \* the connection: url, and the payload of its token
  asked,     \* history: the URLs of GitHub's API the credentials went to
  called     \* the API call: its path and query, and its URL

vars == <<input, creds, forceGhes, pc, config, admin, asked, called>>

Init ==
  /\ input \in Urls /\ creds \in Creds /\ forceGhes \in BOOLEAN
  /\ pc = "new" /\ config = None /\ admin = None
  /\ asked = {} /\ called = None

Fail == pc' = "failed" /\ UNCHANGED <<config, admin, asked, called>>

(* ActionsAuth::validate and GitHubAppAuth::validate                       *)
Complete(c) == c.filled /\ (c.kind = "App" => c.id # 0)

(* Client::new: the URL, the credentials, the transport.                   *)
New ==
  /\ pc = "new"
  /\ \/ /\ ParseConfig(input, forceGhes) # None /\ Complete(creds)
        /\ config' = ParseConfig(input, forceGhes)
        /\ pc' = IF creds.kind = "App" THEN "installation" ELSE "registration"
        /\ UNCHANGED <<admin, asked, called>>
     \/ Fail
  /\ UNCHANGED <<input, creds, forceGhes>>

(* Another part of the program sets or removes the variable.               *)
SetEnvironment ==
  /\ pc \notin {"done", "failed"}
  /\ forceGhes' = ~forceGhes
  /\ UNCHANGED <<input, creds, pc, config, admin, asked, called>>

-----------------------------------------------------------------------------
Ask(path) == asked' = asked \cup {ApiUrl(config, forceGhes, path)}

(* fetch_installation_token: create_jwt_for_github_app cannot sign, or the *)
(* request or its answer fails, or the token comes.                        *)
FetchInstallationToken ==
  /\ pc = "installation"
  /\ \/ Fail
     \/ /\ Ask(<<"app", "installations", "id", "access_tokens">>)
        /\ pc' \in {"registration", "failed"}
        /\ UNCHANGED <<config, admin, called>>
  /\ UNCHANGED <<input, creds, forceGhes>>

GetRegistrationToken ==
  /\ pc = "registration"
  /\ Ask(TokenPath(config))
  /\ pc' \in {"admin", "failed"}
  /\ UNCHANGED <<input, creds, forceGhes, config, admin, called>>

GetAdminConnection(base, payload) ==
  /\ pc = "admin"
  /\ Ask(<<"actions", "runner-registration">>)
  /\ \/ pc' = "failed" /\ UNCHANGED admin
     \/ pc' = "reading" /\ admin' = [url |-> base, bytes |-> payload]
  /\ UNCHANGED <<input, creds, forceGhes, config, called>>

(* jwt_expires_at: of the bytes only what is read in them matters, and     *)
(* they may hold no exp.                                                   *)
ReadExpiry ==
  /\ pc = "reading"
  /\ pc' \in {"call", "failed"}
  /\ admin' = [admin EXCEPT !.bytes = <<>>]
  /\ UNCHANGED <<input, creds, forceGhes, config, asked, called>>

-----------------------------------------------------------------------------
(* urlencoding_lite: a character that is not unreserved becomes "%" and    *)
(* its code.                                                               *)
Code == [c \in {"&", "=", "?", "%", "/", VersionIs} |->
  CASE c = "&" -> "%26" [] c = "=" -> "%3D" [] c = "?" -> "%3F" [] c = "%" -> "%25" [] c = "/" -> "%2F"
    [] c = VersionIs -> "api-version%3D"]

UrlPlain(value) == value  \* mutant: nothing is encoded
UrlEncode(value) == [i \in DOMAIN value |-> IF value[i] \in DOMAIN Code THEN Code[value[i]] ELSE value[i]]

(* actions_url: the version of the API is added to the call's own pairs    *)
(* unless they name it, and no pair names it if the joined URL does in its *)
(* query.                                                                  *)
Version == <<"api-version", <<"6.0-preview">>>>
IsVersion(pair) == pair[1] = Version[1]

WithVersion(query) ==
  IF \E i \in DOMAIN query : IsVersion(query[i]) THEN query ELSE Append(query, Version)

NamesVersion(url) == \E i \in Places(url, VersionIs) : \E j \in Places(url, "?") : j < i

(* The pairs, each behind an ampersand.                                    *)
PairText(pair) ==
  <<"&">> \o (IF IsVersion(pair) THEN <<VersionIs>> ELSE UrlEncode(<<pair[1]>>) \o <<"=">>)
    \o UrlEncode(pair[2])

PairsText(pairs, dropped) ==
  FlattenSeq([i \in 1..Len(pairs) |->
    IF dropped /\ IsVersion(pairs[i]) THEN <<>> ELSE PairText(pairs[i])])

(* The first ampersand is left out where a query begins.                   *)
ActionsUrl(base, path, query) ==
  LET joined == JoinUrlPath(base, path)
      text == PairsText(WithVersion(query), NamesVersion(joined))
  IN IF text = <<>> THEN joined
     ELSE IF Places(joined, "?") = {} THEN joined \o <<"?">> \o Tail(text)
     ELSE IF joined[Len(joined)] \in {"?", "&"} THEN joined \o Tail(text)
     ELSE joined \o text

Call(path, query) ==
  /\ pc = "call"
  /\ called' = [path |-> path, query |-> query, url |-> ActionsUrl(admin.url, path, query)]
  /\ pc' = "done"
  /\ UNCHANGED <<input, creds, forceGhes, config, admin, asked>>

Next ==
  \/ New \/ SetEnvironment \/ FetchInstallationToken \/ GetRegistrationToken \/ ReadExpiry
  \/ \E base \in Bases, payload \in Payloads : GetAdminConnection(base, payload)
  \/ \E path \in CallPaths, query \in Queries : Call(path, query)

Spec == Init /\ [][Next]_vars

-----------------------------------------------------------------------------
(* Every variable has its type; tokens are asked for only with complete    *)
(* credentials and a scope, and a connection is there before it is used.   *)
TypeOK ==
  /\ input \in Urls /\ creds \in Creds /\ forceGhes \in BOOLEAN
  /\ pc \in {"new", "installation", "registration", "admin", "reading", "call", "done", "failed"}
  /\ pc \in {"installation", "registration", "admin"} =>
       config.scope \in {"Organization", "Enterprise", "Repository"} /\ Complete(creds)
  /\ pc \in {"reading", "call", "done"} => admin.url \in Bases

(* github_api_url: all tokens of one exchange are asked of, and shown to,  *)
(* one server, also when GITHUB_ACTIONS_FORCE_GHES changes after the       *)
(* client was made: the configured host under /api/v3, or its api. host.   *)
Server(u) == <<u.scheme, u.host, u.port>>
OneServer ==
  \A u \in asked :
    /\ \A v \in asked : Server(u) = Server(v)
    /\ IF config.hosted THEN u.host = ApiHost[input.host] /\ u.path[1] # "api"
       ELSE Server(u) = Server(input) /\ SubSeq(u.path, 1, 2) = <<"api", "v3">>

(* GitHubConfig::parse and registration_token_path: two configured URLs    *)
(* ask for a runner registration token at the same path exactly when they  *)
(* name the same owner, an enterprise, an organization or a repository,    *)
(* however the URL writes its slashes and the word "enterprises".          *)
Owner(url) ==
  IF Len(Parts(url)) = 2 /\ Parts(url)[1] \in {"enterprises", "Enterprises"}
  THEN <<"", Parts(url)[2]>> ELSE Parts(url)

ScopeUnambiguous ==
  pc \in {"installation", "registration"} =>
    \A url \in Urls :
      ParseConfig(url, forceGhes) # None =>
        (TokenPath(ParseConfig(url, forceGhes)) = TokenPath(config) <=> Owner(url) = Owner(input))

(* decode_b64: the bytes of every payload come back from its unpadded      *)
(* base64url text; the arithmetic of eight bits loses none of them.        *)
At(bytes, k) == IF k <= Len(bytes) THEN bytes[k] ELSE 0

Sextet(bytes, j) ==  \* the j-th six bits, four of them from three bytes
  LET i == 3 * ((j - 1) \div 4)
  IN CASE (j - 1) % 4 = 0 -> At(bytes, i + 1) \div 4
       [] (j - 1) % 4 = 1 -> (At(bytes, i + 1) % 4) * 16 + At(bytes, i + 2) \div 16
       [] (j - 1) % 4 = 2 -> (At(bytes, i + 2) % 16) * 4 + At(bytes, i + 3) \div 64
       [] (j - 1) % 4 = 3 -> At(bytes, i + 3) % 64

Base64Url(bytes) ==
  [j \in 1..(8 * Len(bytes) + 5) \div 6 |->
    CASE Sextet(bytes, j) = 62 -> Dash
      [] Sextet(bytes, j) = 63 -> Underscore
      [] OTHER -> Sextet(bytes, j)]

DecodeExact ==
  pc = "reading" => DecodeB64(Normalize(Base64Url(admin.bytes))) = admin.bytes

(* actions_url, join_url_path and urlencoding_lite: the URL of a call has  *)
(* the segments of the connection's URL and of the path, joined by a       *)
(* single slash, and one more pair for each the call has, whatever they    *)
(* are made of; the version is one of them unless the connection's URL     *)
(* names it.  The path comes before the query, if that URL has none; if it *)
(* has one, the question mark stays where it is, and the path behind it.   *)
CallUrlExact ==
  called # None =>
    LET url == called.url
        base == admin.url
        count(s, c) == Cardinality(Places(s, c))
        segments(s) == Without(s, "/")
        path == segments(base) \o segments(called.path)
        own == Cardinality({i \in DOMAIN called.query : ~IsVersion(called.query[i])})
        versions == IF NamesVersion(base) THEN 0
                    ELSE IF own = Len(called.query) THEN 1 ELSE Len(called.query) - own
    IN /\ SubSeq(segments(url), 1, Len(path)) = path
       /\ \A i \in Doubled(url) : i \in Doubled(base) /\ \E j \in i..Len(base) : base[j] # "/"
       /\ IF Places(base, "?") # {} THEN Places(url, "?") = Places(base, "?")
          ELSE /\ count(url, "?") = 1
               /\ \A i \in Places(url, "?") : segments(SubSeq(url, 1, i - 1)) = path
       /\ count(url, "=") = count(base, "=") + own
       /\ count(url, VersionIs) = count(base, VersionIs) + versions
       /\ count(url, "&") =
            count(base, "&") + own + versions - (IF Places(base, "?") = {} THEN 1 ELSE 0)
=============================================================================
