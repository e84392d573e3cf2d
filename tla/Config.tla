------------------------------- MODULE Config -------------------------------
(***************************************************************************)
(* The configuration of core/src/config.rs: its schema with the defaults,   *)
(* from_json_str with validate, and to_json_string.  A configuration is a   *)
(* function from the paths of the schema to values: BOOLEANs, numbers,      *)
(* strings (sequences of the characters of Json), sequences of strings, and *)
(* for mime_overrides a sequence of pairs of strings.                       *)
(*                                                                          *)
(* What the code reads field by field, stopping at the first that is wrong, *)
(* is read here at once: the outcome, a configuration or an error, is the   *)
(* same.  usize is u64.                                                     *)
(***************************************************************************)
EXTENDS Json, SequencesExt

CONSTANTS
    U16Max,         \* u16::MAX
    Decimal,        \* the numerals that numbers are written with
    Preset          \* in place of every default number but 0

ASSUME ConfigAssumption == U16Max \in 1..U64Max /\ Preset \in 1..U16Max

\* The defaults are far below the mantissa, so that no rounding touches them.
ASSUME PresetAssumption == \A n \in {0, Preset} : F64(2 * n) = 2 * n /\ 2 * n <= F64(2 * U64Max)

\* A number is written as a numeral that stands for it.
ASSUME DecimalAssumption ==
    /\ Decimal \in [0..U64Max -> DOMAIN Numerals]
    /\ \A n \in 0..U64Max : Numerals[Decimal[n]] = 2 * n

On == [kind |-> "bool", default |-> TRUE]
Off == [kind |-> "bool", default |-> FALSE]
Count(n) == [kind |-> "u64", default |-> n]
Text(chars) == [kind |-> "string", default |-> chars]
List(strings) == [kind |-> "strings", default |-> strings]
Section == [kind |-> "section"]

\* The members of every section, in the order they are written.
Layout ==
    [section \in {<<>>, <<"server">>, <<"static">>, <<"compression">>, <<"security">>,
                 <<"security", "rate_limit">>, <<"tls">>, <<"admin">>, <<"logging">>} |->
       CASE section = <<>> ->
              <<<<"server", Section>>, <<"static", Section>>, <<"compression", Section>>,
                <<"security", Section>>, <<"tls", Section>>, <<"admin", Section>>,
                <<"logging", Section>>, <<"mime_overrides", [kind |-> "map", default |-> <<>>]>>>>
         [] section = <<"server">> ->
              <<<<"bind", Text(<<"0.0.0.0">>)>>, <<"port", [kind |-> "u16", default |-> Preset]>>,
                <<"worker_threads", Count(0)>>, <<"max_connections", Count(Preset)>>,
                <<"keep_alive_secs", Count(Preset)>>, <<"read_timeout_secs", Count(Preset)>>,
                <<"request_max_bytes", Count(Preset)>>>>
         [] section = <<"static">> ->
              <<<<"root", Text(<<"./public">>)>>,
                <<"index_files", List(<<<<"index.html">>, <<"index.htm">>>>)>>,
                <<"follow_symlinks", Off>>, <<"directory_listing", Off>>>>
         [] section = <<"compression">> ->
              <<<<"gzip", On>>, <<"min_bytes", Count(Preset)>>>>
         [] section = <<"security">> ->
              <<<<"enable_security_headers", Off>>, <<"rate_limit", Section>>,
                <<"blocked_patterns", List(<<>>)>>>>
         [] section = <<"security", "rate_limit">> ->
              <<<<"enabled", On>>, <<"requests", Count(Preset)>>,
                <<"window_secs", Count(Preset)>>, <<"ban_secs", Count(Preset)>>>>
         [] section = <<"tls">> ->
              <<<<"enabled", Off>>, <<"cert_path", Text(<<>>)>>, <<"key_path", Text(<<>>)>>>>
         [] section = <<"admin">> ->
              <<<<"username", Text(<<>>)>>, <<"password_sha256", Text(<<>>)>>>>
         [] section = <<"logging">> ->
              <<<<"level", Text(<<"info">>)>>, <<"access_log", On>>>>]

\* A configuration nests as deep as the members of security.rate_limit.
ASSUME DepthAssumption == MAX_DEPTH >= 3

\* The names and the defaults are symbols of a text.
ASSUME LayoutAssumption ==
    /\ \A section \in DOMAIN Layout : \A i \in DOMAIN Layout[section] : Layout[section][i][1] \in Runs
    /\ {"0.0.0.0", "./public", "index.html", "index.htm", "info"} \subseteq Runs

\* The field at every path that is no section's.
Schema ==
    LET under(section) == {<<Append(section, member[1]), member[2]>> : member \in Range(Layout[section])}
        fields == {entry \in UNION {under(section) : section \in DOMAIN Layout} : entry[2].kind # "section"}
    IN  [path \in {entry[1] : entry \in fields} |-> (CHOOSE entry \in fields : entry[1] = path)[2]]

Default == [path \in DOMAIN Schema |-> Schema[path].default]

-----------------------------------------------------------------------------
(* Reading. *)

\* read_bool, read_string, read_u64, read_usize, read_u16, read_string_array
\* and read_string_map, once the value is there.
ReadAs(kind, json) ==
    CASE kind \in {"bool", "string"} -> IF json.kind = kind THEN {json.value} ELSE {}
      [] kind = "u64" -> as_u64(json)
      [] kind = "u16" -> {n \in as_u64(json) : n <= U16Max}
      [] kind = "strings" ->
            IF json.kind = "array" /\ \A i \in DOMAIN json.value : json.value[i].kind = "string"
            THEN {[i \in DOMAIN json.value |-> json.value[i].value]} ELSE {}
      [] kind = "map" ->
            IF json.kind = "object" /\ \A i \in DOMAIN json.value : json.value[i][2].kind = "string"
            THEN {[i \in DOMAIN json.value |-> <<json.value[i][1], json.value[i][2].value>>]} ELSE {}

\* The value at a path, if there is one.  A section that is not an object
\* has no members, and is passed over.
At(root, path) ==
    LET down[n \in 0..Len(path)] ==
          IF n = 0 THEN {root} ELSE UNION {Get(json, <<path[n]>>) : json \in down[n - 1]}
    IN  down[Len(path)]

LOG_LEVELS == {"error", "warn", "info", "debug", "trace"}

validate(config) ==
    /\ config[<<"server", "port">>] # 0
    /\ config[<<"server", "bind">>] # <<>>
    /\ config[<<"static", "root">>] # <<>>
    /\ config[<<"tls", "enabled">>] =>
          config[<<"tls", "cert_path">>] # <<>> /\ config[<<"tls", "key_path">>] # <<>>
    /\ config[<<"logging", "level">>] \in {<<level>> : level \in LOG_LEVELS}

\* The field at a path: its default if it is not there, nothing if it is wrong.
Field(root, path) ==
    IF At(root, path) = {} THEN {Default[path]}
    ELSE UNION {ReadAs(Schema[path].kind, json) : json \in At(root, path)}

\* All fields, if none is wrong.
Fields(root) ==
    LET read == [path \in DOMAIN Schema |-> Field(root, path)]
    IN  IF root.kind = "object" /\ \A path \in DOMAIN read : read[path] # {}
        THEN {[path \in DOMAIN read |-> CHOOSE value \in read[path] : TRUE]} ELSE {}

\* Faulty variant: the result is not validated.
from_json_unvalidated(root) == Fields(root)

from_json(root) == {config \in Fields(root) : validate(config)}

from_json_str(text) == UNION {from_json(root) : root \in parse(text)}

-----------------------------------------------------------------------------
(* Writing. *)

\* Faulty variant: only quotes and backslashes are escaped.
EscapedMarks(char) == IF char \in {Quote, "\\"} THEN <<"\\", char>> ELSE <<char>>

EscapedChar(char) ==
    LET letter == [c \in {Quote, "\\", "\n", "\r", "\t"} |->
                     CHOOSE e \in DOMAIN Escapes : Escapes[e] = c]
        hex == CHOOSE h \in DOMAIN Hex4 : Hex4[h] \in DOMAIN Chars /\ Chars[Hex4[h]] = char
    IN  IF char \in DOMAIN letter THEN <<"\\", letter[char]>>
        ELSE IF char \in Controls THEN <<"\\", "u", hex>>
        ELSE <<char>>

escape_json(s) == FlattenSeq([i \in DOMAIN s |-> EscapedChar(s[i])])

Quoted(s) == <<Quote>> \o escape_json(s) \o <<Quote>>

Listed(texts, open, close) ==
    <<open>> \o FlattenSeq([i \in DOMAIN texts |->
                              IF i = 1 THEN texts[i] ELSE <<Comma, Space>> \o texts[i]]) \o <<close>>

ValueText(kind, value) ==
    CASE kind = "bool"           -> <<IF value THEN "true" ELSE "false">>
      [] kind \in {"u64", "u16"} -> <<Decimal[value]>>
      [] kind = "string"         -> Quoted(value)
      [] kind = "strings"        -> Listed([i \in DOMAIN value |-> Quoted(value[i])], "[", "]")
      [] kind = "map"            ->
            Listed([i \in DOMAIN value |-> Quoted(value[i][1]) \o <<":", Space>> \o Quoted(value[i][2])],
                   OpenBrace, CloseBrace)

\* The object with the members of a section, of which inner has the texts of
\* those that are sections again.
SectionText(config, section, inner) ==
    LET members == Layout[section]
        member(key) ==
          LET path == Append(section, key)
          IN  IF path \in DOMAIN inner THEN inner[path] ELSE ValueText(Schema[path].kind, config[path])
    IN  Listed([i \in DOMAIN members |-> Quoted(<<members[i][1]>>) \o <<":", Space>> \o member(members[i][1])],
               OpenBrace, CloseBrace)

to_json_string(config) ==
    LET limits == [path \in {<<"security", "rate_limit">>} |-> SectionText(config, path, <<>>)]
        sections == [path \in {section \in DOMAIN Layout : Len(section) = 1} |->
                       SectionText(config, path, limits)]
    IN  SectionText(config, <<>>, sections)
=============================================================================
