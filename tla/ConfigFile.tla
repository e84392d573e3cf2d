----------------------------- MODULE ConfigFile -----------------------------
(***************************************************************************)
(* The life of a configuration: a document is put in the file by hand, read *)
(* by load_config when the server starts (std-server/src/main.rs), replaced *)
(* as a whole or in its password from the admin panel                       *)
(* (std-server/src/webui/admin.rs), written back, and read again by the     *)
(* next start.  Requests come one at a time and writes succeed here; module *)
(* WebAdmin is about the other cases.                                       *)
(***************************************************************************)
EXTENDS Config

CONSTANTS
    Documents,      \* [text, json]: a text, and the JSON value it stands for, with its
                    \* numbers exact, or none
    Explicit,       \* the path of the file is an argument of the command
    NoAddress,      \* the values of server.bind that do not parse as an address
    NewHash         \* the hash of the password that the panel can set

ASSUME DocumentAssumption ==
    /\ \A document \in Documents : document.text \in Seq(Symbol)
    /\ NewHash \in Seq(Symbol)

VARIABLES
    file,       \* [there, text]: the configuration file
    up,         \* the server runs
    config,     \* AdminState.config
    boot,       \* the configuration the reactors were started with
    fatal,      \* the last start, or the server it started, ended in an error
    \* history
    own,        \* the file is as the server wrote it
    origin,     \* the document the file goes back to
    asked,      \* the document the configuration goes back to
    repassed,   \* its password was changed since
    listed      \* the fields announced since the start as requiring a restart

process == <<up, config, boot, fatal>>
vars == <<file, process, own, origin, asked, repassed, listed>>

NoFile == [there |-> FALSE, text |-> <<>>]
FileOf(text) == [there |-> TRUE, text |-> text]

\* No file stands for the document without members.
NoDocument == [text |-> <<>>, json |-> {Object(<<>>)}]

\* FsConfig::load and its alternatives in load_config.
load_config ==
    IF file.there THEN from_json_str(file.text)
    ELSE IF Explicit THEN {}
    ELSE {Default}

\* Faulty variant: the number of workers is left out.
restart_fields_unthreaded(old, new) ==
    {path \in {<<"server", "bind">>, <<"server", "port">>} : old[path] # new[path]}
      \cup {path \in DOMAIN Schema : path[1] = "tls" /\ old[path] # new[path]}

restart_required_fields(old, new) ==
    {path \in {<<"server", "bind">>, <<"server", "port">>, <<"server", "worker_threads">>} :
        old[path] # new[path]}
      \cup {path \in DOMAIN Schema : path[1] = "tls" /\ old[path] # new[path]}

\* Without a user name there is no panel, and no request is authenticated.
PanelOpen ==
    /\ up
    /\ boot[<<"admin", "username">>] # <<>>
    /\ config[<<"admin", "username">>] # <<>>

Init ==
    /\ file = NoFile
    /\ up = FALSE
    /\ config = Default /\ boot = Default
    /\ fatal = FALSE
    /\ own = FALSE
    /\ origin = NoDocument /\ asked = NoDocument
    /\ repassed = FALSE
    /\ listed = {}

\* By hand, while the server is down; it would not notice before the next start.
Edit(document) ==
    /\ ~up
    /\ file' = FileOf(document.text)
    /\ own' = FALSE
    /\ origin' = document
    /\ UNCHANGED <<process, asked, repassed, listed>>

Delete ==
    /\ ~up
    /\ file.there
    /\ file' = NoFile
    /\ own' = FALSE
    /\ origin' = NoDocument
    /\ UNCHANGED <<process, asked, repassed, listed>>

Usable == {loaded \in load_config : loaded[<<"server", "bind">>] \notin NoAddress}

\* main: a configuration that cannot be read, or whose address is none, is fatal.
\* So is what the configuration does not tell: a certificate that does not load,
\* a signal handler that is not installed, an address that is taken.
Start ==
    /\ ~up
    /\ \/ \E loaded \in Usable :
           /\ config' = loaded /\ boot' = loaded
           /\ up' = TRUE /\ fatal' = FALSE
           /\ asked' = origin
           /\ repassed' = (own /\ repassed)
       \/ /\ fatal' = TRUE
          /\ UNCHANGED <<up, config, boot, asked, repassed>>
    /\ listed' = {}
    /\ UNCHANGED <<file, own, origin>>

\* The end of both admin requests: persist, then swap.
Replace(new) ==
    /\ file' = FileOf(to_json_string(new))
    /\ own' = TRUE
    /\ config' = new
    /\ UNCHANGED <<up, boot, fatal>>

\* A document that is refused leaves everything as it was.
put_config(document) ==
    /\ PanelOpen
    /\ \E new \in from_json_str(document.text) :
        /\ Replace(new)
        /\ listed' = listed \cup restart_required_fields(config, new)
    /\ origin' = document /\ asked' = document
    /\ repassed' = FALSE

\* As above: without a new password, or with the wrong current one, nothing
\* changes.
change_password ==
    /\ PanelOpen
    /\ Replace([config EXCEPT ![<<"admin", "password_sha256">>] = NewHash])
    /\ origin' = asked
    /\ repassed' = TRUE
    /\ UNCHANGED <<asked, listed>>

\* A signal, a kill, or an error that serve returns.  What was in memory is gone.
Stop ==
    /\ up
    /\ up' = FALSE
    /\ fatal' \in BOOLEAN
    /\ config' = Default /\ boot' = Default
    /\ asked' = NoDocument
    /\ listed' = {}
    /\ UNCHANGED <<file, own, origin, repassed>>

Next ==
    \/ \E document \in Documents : Edit(document) \/ put_config(document)
    \/ Delete \/ Start \/ change_password \/ Stop

Spec == Init /\ [][Next]_vars

-----------------------------------------------------------------------------
(* Properties. *)

\* The server only ever runs with a configuration that validate accepts, and
\* a start that failed leaves it down.
TypeOK ==
    /\ up \in BOOLEAN /\ fatal \in BOOLEAN /\ own \in BOOLEAN /\ repassed \in BOOLEAN
    /\ DOMAIN config = DOMAIN Schema /\ DOMAIN boot = DOMAIN Schema
    /\ up => validate(config) /\ validate(boot) /\ ~fatal
    /\ config[<<"server", "port">>] \in 0..U16Max
    /\ listed \subseteq DOMAIN Schema

\* What the server writes it reads back: a restart from a file that nobody
\* touched since gives the configuration that was in force, whatever quotes,
\* control characters and large numbers are in it.
RestartKeepsConfig ==
    up /\ own => from_json_str(file.text) = {config}

\* What a value read for a field says of the number, text or flag written:
\* numbers are the ones written as far as a mantissa reaches, and the nearest
\* beyond.
Reflects(kind, json, value) ==
    CASE kind = "bool"    -> json.kind = "bool" /\ json.value = value
      [] kind = "string"  -> json.kind = "string" /\ json.value = value
      [] kind = "strings" -> json.kind = "array" /\ Len(json.value) = Len(value)
                               /\ \A i \in DOMAIN value : json.value[i].value = value[i]
      [] kind = "map"     -> json.kind = "object" /\ Len(json.value) = Len(value)
                               /\ \A i \in DOMAIN value :
                                    /\ json.value[i][1] = value[i][1]
                                    /\ json.value[i][2].value = value[i][2]
      [] OTHER            -> LET off == IF 2 * value > json.value THEN 2 * value - json.value
                                        ELSE json.value - 2 * value
                             IN  /\ json.kind = "number"
                                 /\ IF json.value <= 2 ^ MantissaBits THEN off = 0
                                    ELSE off * 2 ^ MantissaBits <= json.value

\* Whether a field with that value is as the JSON value says, or its default if
\* that does not mention it.
Follows(root, path, value) ==
    IF At(root, path) = {} THEN value = Default[path]
    ELSE \A json \in At(root, path) : Reflects(Schema[path].kind, json, value)

\* A value where the path needs an object, of which it has no members.
UnderNoObject(root, path) ==
    \E n \in 1..(Len(path) - 1) : \E json \in At(root, SubSeq(path, 1, n)) : json.kind # "object"

\* A number above u64::MAX.
TooLarge(root, path) ==
    /\ Schema[path].kind = "u64"
    /\ \E json \in At(root, path) : json.kind = "number" /\ json.value > 2 * U64Max

\* The fields for which a document should have been refused, but is not: see
\* WrongTypesRefused and OutOfRangeRefused.
Disputed(root, path) == UnderNoObject(root, path) \/ TooLarge(root, path)

\* A document is refused or obeyed: while the server runs, every field that
\* the document it goes back to mentions has the value given there, and every
\* other its default.  Set aside are the fields that are Disputed: the code
\* takes a section that is no object for one without members, and the number
\* next to u64::MAX for u64::MAX, and accepts the document.
AcceptedIsAsWritten ==
    up => \E root \in asked.json : \A path \in DOMAIN Schema :
            IF repassed /\ path = <<"admin", "password_sha256">> THEN config[path] = NewHash
            ELSE Disputed(root, path) \/ Follows(root, path, config[path])

\* The same of each document alone, at the moment it is read.
DocumentsRead ==
    \A document \in Documents : \A c \in from_json_str(document.text) :
        \E root \in document.json : \A path \in DOMAIN Schema :
            Disputed(root, path) \/ Follows(root, path, c[path])

\* A document with a value of a wrong type is refused (config.rs 5-6: "wrong
\* types ... fail loudly").  This does not hold, and no run checks it: a section
\* that is no object is passed over.
WrongTypesRefused ==
    up => \A root \in asked.json : \A path \in DOMAIN Schema : ~UnderNoObject(root, path)

\* A document with a number outside of u64 is refused (config.rs 5-6:
\* "out-of-range values fail loudly"; json.rs 60-61: "within u64 range").
\* This does not hold, and no run checks it: the number next to u64::MAX is taken
\* for u64::MAX.
OutOfRangeRefused ==
    up => \A root \in asked.json : \A path \in DOMAIN Schema : ~TooLarge(root, path)

\* The settings that sockets, threads and TLS were set up with: where they
\* differ from the configuration shown, the panel has said that a restart is
\* required.  (ReactorOptions are left out: see OptionsAnnounced.)
RestartIsAnnounced ==
    up => \A path \in DOMAIN Schema :
            /\ \/ path[1] = "tls"
               \/ path \in {<<"server", "bind">>, <<"server", "port">>, <<"server", "worker_threads">>}
            /\ config[path] # boot[path]
            => path \in listed

\* The settings that main hands to the reactors once, when they start.
ReactorOptions ==
    {<<"server", "keep_alive_secs">>, <<"server", "max_connections">>,
     <<"server", "request_max_bytes">>, <<"security", "enable_security_headers">>}

\* What the running reactors cannot change without a restart is announced
\* (admin.rs 107).  This does not hold, and no run checks it: ReactorOptions
\* never are.
OptionsAnnounced ==
    up => \A path \in ReactorOptions : config[path] # boot[path] => path \in listed
=============================================================================
