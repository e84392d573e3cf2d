---------------------------- MODULE MCApplication ----------------------------
(***************************************************************************)
(* An instance of Application: the routes of build_app in main.rs and one   *)
(* with a parameter, two index files, a file with two links to it, a link   *)
(* out of the document root, and a file under the path of a route.          *)
(***************************************************************************)
EXTENDS Application

API(name) == <<"/", "api", "/">> \o name
MCRoutes == <<[method |-> "GET", pattern |-> API(<<"health">>), handler |-> "health"],
              [method |-> "QUERY", pattern |-> API(<<"search">>), handler |-> "search"],
              [method |-> "POST", pattern |-> API(<<":", "any">>), handler |-> "health"]>>

Name == <<"a", ".txt">>
Srv == <<"srv">>
MCRoot == <<Srv>>
MCIndexFiles == <<<<"index", ".html">>, <<"index", ".htm">>>>
MCMimeOverrides == (".htm" :> "image/png")
MCLinks == (<<Srv, <<"in">>>> :> <<Srv, <<"hop">>>>) @@ (<<Srv, <<"hop">>>> :> <<Srv, Name>>)
             @@ (<<Srv, <<"out">>>> :> <<<<"etc">>>>) @@ (<<Srv, <<"loop">>>> :> <<Srv, <<"loop">>>>)
MCFiles == {<<Srv, MCIndexFiles[1]>>, <<Srv, MCIndexFiles[2]>>, <<Srv, Name>>,
            <<<<"etc">>, Name>>, <<Srv, <<"api">>, <<"search">>>>}

\* The index files have one length: what tells their versions apart is the mtime.
MCLengths == [f \in MCFiles |-> IF f = <<Srv, Name>> THEN {0, 3}
                                ELSE IF Len(f) = 2 /\ f[1] = Srv THEN {3} ELSE {}]

Req(method, target, headers) ==
    [method |-> method, target |-> target, headers |-> headers, copied |-> {}]
Plain(methods, targets) == {Req(m, t, <<>>) : m \in methods, t \in targets}
File == <<"/">> \o Name
Dir == <<"/">>
Out == <<"/", "out", "/">> \o Name

Part(first, last) == [single |-> TRUE, first |-> first, last |-> last]
Ranges == {Part(0, 0), Part(1, Empty), Part(1, 0), Part(0, 7), Part(1, Garbled),
           Part(Garbled, 1), Part(Empty, 0), Part(Empty, 2), Part(Empty, 7), [single |-> FALSE, first |-> 0, last |-> 0]}

Validated(target, headers, copied) == [Req("GET", target, headers) EXCEPT !.copied = copied]
AnyTag == ("if-none-match" :> [any |-> TRUE, tags |-> {}])
NoTag == ("if-none-match" :> [any |-> FALSE, tags |-> {}])

MCRequests ==
    Plain({"OPTIONS"}, {Asterisk})
    \cup Plain({"GET", "HEAD", "POST", "OPTIONS"}, {File, Dir})
    \cup Plain({"GET", "QUERY", "OPTIONS"}, {API(<<"search">>)})
    \cup Plain({"GET", "OPTIONS"}, {Out})
    \cup Plain({"HEAD", "OPTIONS", "POST"}, {API(<<"health", "/">>)})
    \cup Plain({"GET"}, {<<"/", "in">>, <<"/", "loop">>, <<"/", "%2e", "/", "a", ".txt">>,
                         <<"/", "%2e", "%2e", "/", "etc", "/", "a", ".txt">>,
                         <<"/", "a", "%ff">>, <<"/", "a", "%5c">>})
    \cup Plain({"GET"}, {<<"http", "://", "h">> \o File \o <<"?", "q">>, <<"http", "://", "h">>,
                         File \o <<"?", "http", "://", "h", "/">>})
    \cup {Req("QUERY", API(<<"search">>), ("content-type" :> t)) : t \in {"form", "other"}}
    \cup {Validated(t, <<>>, {n}) : t \in {File, Dir}, n \in {"if-none-match", "if-modified-since"}}
    \cup {Validated(File, NoTag, {"if-modified-since"}), Validated(File, AnyTag, {})}
    \cup {Req("GET", File, ("range" :> r)) : r \in Ranges}
    \cup {Req("GET", File, ("accept-encoding" :> e)) : e \in {{"gzip"}, {"br"}}}
    \cup {Req("GET", File, ("accept-encoding" :> {"gzip"}) @@ ("range" :> Part(0, 1)))}
=============================================================================
