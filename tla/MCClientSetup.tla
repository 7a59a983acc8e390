----------------------------- MODULE MCClientSetup -----------------------------
(***************************************************************************)
(* ClientSetup with URLs of every kind of host and of every scope, three   *)
(* of no scope among them, and payloads of up to three bytes.              *)
(***************************************************************************)
EXTENDS ClientSetup

Paths == {<<>>, <<"a">>, <<"a", "", "b">>, <<"a", "b">>, <<"enterprises", "a">>,
          <<"Enterprises", "a">>, <<"a", "enterprises">>, <<"enterprises">>,
          <<"a", "b", "a">>}

MCUrls ==
  {[scheme |-> s[1], host |-> h, port |-> s[2], path |-> p] :
     s \in {<<"https", None>>, <<"http", 8443>>}, h \in Hosts, p \in Paths}

MCPayloads == SeqOf({63, 170, 255}, 3) \ {<<>>}

MCBases == {<<"tenant", "/">>, <<"host", "/", "/", "tenant", "/", "/">>,
            <<"tenant", "?", "t", "=", "1">>, <<"tenant", "/", "?", VersionIs, "7", "&", "t", "=">>}
MCCallPaths == {<<"_apis", "/", "agents">>, <<"/", "_apis", "/", "groups", "/">>}

(* No call names the version itself; actions_url is ready for one that     *)
(* does.                                                                   *)
MCQueries ==
  {<<>>, << <<"name", <<"a", "&", "b", "=", "?">> >> >>, << <<"name", <<"%", "/">> >> >>,
   << <<"runnerGroupId", <<"1">> >>, <<"name", <<"a", "&">> >> >>,
   << <<"api-version", <<"5">> >>, <<"name", <<VersionIs>> >> >>}
=============================================================================
