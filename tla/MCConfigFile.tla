---------------------------- MODULE MCConfigFile ----------------------------
(***************************************************************************)
(* Documents for ConfigFile, each written down as a text and as the value   *)
(* it stands for.                                                           *)
(***************************************************************************)
EXTENDS ConfigFile, TLC

\* A value with its text.
Doc(text, json) == [text |-> text, json |-> json]
Plain(s) == Doc(<<"\"", s, "\"">>, String(<<s>>))
Blank == Doc(<<"\"", "\"">>, String(<<>>))
Num(s) == Doc(<<s>>, Number(Numerals[s]))
Yes == Doc(<<"true">>, Bool(TRUE))
No == Doc(<<"false">>, Bool(FALSE))
Nil == Doc(<<"null">>, Null)

\* An object of one or two members; blank space goes anywhere between.
Key(k) == <<"\"", k, "\"", " ", ":">>
One(k, v) == Doc(<<"{">> \o Key(k) \o v.text \o <<"}">>, Object(<<<<<<k>>, v.json>>>>))
Two(k, v, l, w) ==
    Doc(<<" ", "{", " ">> \o Key(k) \o <<" ">> \o v.text \o <<" ", ",">> \o Key(l) \o w.text \o <<" ", "}">>,
        Object(<<<<<<k>>, v.json>>, <<<<l>>, w.json>>>>))
ListOf(v, w) == Doc(<<"[">> \o v.text \o <<",">> \o w.text \o <<"]">>, Array(<<v.json, w.json>>))
NoList == Doc(<<"[", " ", "]">>, Array(<<>>))

\* Every escape, a surrogate pair, and a character that is written as \u.
Odd == Doc(<<"\"", "x", "\\", "\"", "\\", "\\", "\\", "n", "\\", "b", "\\", "u", "0001",
             "\\", "u", "d83d", "\\", "u", "de00", "/", "\\", "u", "0041", "\"">>,
           String(<<"x", "\"", "\\", "\n", "BS", "SOH", "SMILE", "/", "A">>))

User == One("username", Plain("root"))
With(section, v) == Two("admin", User, section, v)

Good ==
    {With("server", One("port", Num(n))) : n \in {"2", "2.0"}}
    \cup {With("server", One("worker_threads", Num(n))) : n \in {"1", "17", "62", "63", "64"}}
    \cup {With("server", Two("bind", Plain("127.0.0.1"), "bind", Blank)),
          With("server", One("bind", Plain("::"))),
          With("static", Two("root", Odd, "index_files", ListOf(Odd, Plain("b")))),
          With("static", One("index_files", NoList)),
          With("security", One("rate_limit", Two("enabled", No, "ban_secs", Num("1e1")))),
          With("security", One("rate_limit", No)),
          With("security", One("enable_security_headers", Yes)),
          With("tls", Two("key_path", Odd, "cert_path", Plain("c"))),
          With("tls", Yes),
          With("mime_overrides", Two("a", Odd, "a", Plain("b"))),
          With("logging", One("level", Plain("info"))),
          One("compression", Two("gzip", No, "min_bytes", Num("0")))}

\* Refused for a type, a range or validate.
Wrong ==
    {With("server", One("port", v)) : v \in {Num("0"), Num("16"), Num("1.5"), Num("-1"), Plain("2"), Nil}}
    \cup {With("server", One("worker_threads", Num("70"))), With("server", One("bind", Blank)),
          With("static", One("index_files", ListOf(Plain("a"), Yes))),
          With("tls", Two("enabled", Yes, "cert_path", Plain("c"))),
          With("mime_overrides", One("a", No)), With("logging", One("level", Plain("loud"))),
          NoList}

\* Not JSON: unfinished, a comma too many, data behind it, nested too deep,
\* half a surrogate pair, a raw control character, no number, no literal.
Object1(text) == <<"{">> \o Key("x") \o text \o <<"}">>
Broken ==
    {<<>>, <<"{">>, <<"{">> \o Key("x") \o <<"1", ",", "}">>, <<"{", "}", "}">>,
     Object1(<<"[", "[", "[", "1", "]", "]", "]">>),
     Object1(<<"\"", "\\", "u", "d83d", "\"">>), Object1(<<"\"", "\\", "u", "de00", "\"">>),
     Object1(<<"\"", "\n", "\"">>), Object1(<<"\"", "\\", "x", "\"">>), Object1(<<"1.">>),
     Object1(<<"nul">>)}

Documents1 == {[text |-> d.text, json |-> {d.json}] : d \in Good \cup Wrong}
MCDocuments == Documents1 \cup {[text |-> t, json |-> {}] : t \in Broken}

\* The numerals of all integers of u64 and one more, a fraction, a negative
\* number, an integer with a point, and an exponent.
MCNumerals ==
    [s \in {ToString(n) : n \in 0..127} |-> 2 * CHOOSE n \in 0..127 : ToString(n) = s]
      @@ ("1.5" :> 3) @@ ("-1" :> -2) @@ ("2.0" :> 4) @@ ("1e1" :> 20)
MCDecimal == [n \in 0..63 |-> ToString(n)]
MCRuns ==
    {member[1] : member \in UNION {Range(Layout[section]) : section \in DOMAIN Layout}}
    \cup {"0.0.0.0", "./public", "index.html", "index.htm", "info", "loud", "root", "127.0.0.1",
          "::", "hash", "x", "a", "c", "1.", "nul"}
MCNewHash == <<"hash">>
MCNoAddress == {<<"::">>}
=============================================================================
