----------------------------- MODULE GitHubConfig -----------------------------
(***************************************************************************)
(* src/config.rs: what a GitHub URL configures, and the URLs of GitHub's   *)
(* API made from it.  A path is the sequence of its segments; "" is what   *)
(* stands between two slashes in a row.                                    *)
(***************************************************************************)
EXTENDS Naturals, Sequences

CONSTANT None

(* "*.ghe.com" stands for a host under ghe.com, "ghes" for any other.      *)
HostedHosts == {"github.com", "www.github.com", "github.localhost", "*.ghe.com"}
Hosts == HostedHosts \cup {"ghes"}

(* format!("api.{host}"), but for the host GitHub answers at as www.       *)
ApiHost == [h \in HostedHosts |->
  CASE h \in {"github.com", "www.github.com"} -> "api.github.com"
    [] h = "github.localhost" -> "api.github.localhost"
    [] h = "*.ghe.com" -> "api.*.ghe.com"]

(* is_hosted_github_url: GITHUB_ACTIONS_FORCE_GHES overrules the host.     *)
IsHosted(url, forceGhes) == ~forceGhes /\ url.host \in HostedHosts

(* What remains of s without sep: split, then filter, as one loop.         *)
Without(s, sep) ==
  LET kept[n \in 0..Len(s)] ==
        IF n = 0 THEN <<>>
        ELSE IF s[n] = sep THEN kept[n - 1] ELSE Append(kept[n - 1], s[n])
  IN kept[Len(s)]

(* GitHubConfig::parse; "enterprises" is recognised in either case.        *)
Parts(url) == Without(url.path, "")

ScopeAnyCase(parts) ==  \* mutant: "Enterprises" is read as an organization
  IF parts[1] = "enterprises" THEN "Enterprise" ELSE "Repository"
ScopeOfTwo(parts) ==
  IF parts[1] \in {"enterprises", "Enterprises"} THEN "Enterprise" ELSE "Repository"

ParseConfig(url, forceGhes) ==
  IF Len(Parts(url)) \notin {1, 2} THEN None
  ELSE [url   |-> url,
        scope |-> IF Len(Parts(url)) = 1 THEN "Organization" ELSE ScopeOfTwo(Parts(url)),
        names |-> Parts(url),
        hosted |-> IsHosted(url, forceGhes)]

(* github_api_url: the host of hosted GitHub keeps its scheme and port     *)
(* under www only.                                                         *)
ApiUrlReread(config, forceGhes, path) ==  \* mutant: the environment is asked again
  IF IsHosted(config.url, forceGhes)
  THEN [scheme |-> "https", host |-> ApiHost[config.url.host], port |-> None, path |-> path]
  ELSE [scheme |-> config.url.scheme, host |-> config.url.host,
        port |-> config.url.port, path |-> <<"api", "v3">> \o path]

ApiUrl(config, forceGhes, path) ==
  IF config.hosted /\ config.url.host # "www.github.com"
  THEN [scheme |-> "https", host |-> ApiHost[config.url.host], port |-> None, path |-> path]
  ELSE [scheme |-> config.url.scheme,
        host |-> IF config.hosted THEN ApiHost[config.url.host] ELSE config.url.host,
        port |-> config.url.port,
        path |-> IF config.hosted THEN path ELSE <<"api", "v3">> \o path]

(* registration_token_path                                                 *)
TokenPath(config) ==
  LET names == config.names
      owner == CASE config.scope = "Organization" -> <<"orgs", names[1]>>
                 [] config.scope = "Enterprise" -> <<"enterprises", names[2]>>
                 [] config.scope = "Repository" -> <<"repos", names[1], names[2]>>
  IN owner \o <<"actions", "runners", "registration-token">>

-----------------------------------------------------------------------------
(* join_url_path, on strings cut into tokens at every "/".                 *)
TrimEnd(s) ==
  LET kept == {i \in DOMAIN s : \E j \in i..Len(s) : s[j] # "/"}
  IN SubSeq(s, 1, CHOOSE n \in 0..Len(s) : kept = 1..n)

JoinUrlPath(base, path) ==
  IF base = <<>> THEN IF path = <<>> \/ path[1] = "/" THEN path ELSE <<"/">> \o path
  ELSE IF path = <<>> THEN TrimEnd(base)
  ELSE TrimEnd(base) \o (IF path[1] = "/" THEN path ELSE <<"/">> \o path)
=============================================================================
