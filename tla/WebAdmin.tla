------------------------------ MODULE WebAdmin ------------------------------
(***************************************************************************)
(* The admin panel of std-server/src/webui/admin.rs: several reactor        *)
(* threads handle admin requests at once, each of which may rewrite the     *)
(* configuration file and swap the running configuration.                   *)
(*                                                                          *)
(* A configuration is [site, pass]: everything the App is built from, and   *)
(* the admin password (its hash).  A running App is known by the site       *)
(* settings it was built from.  The lock of AdminState is never held across *)
(* a step and never nested, so each critical section is one action.         *)
(*                                                                          *)
(* std::fs::write truncates the file and then writes it: two writes that    *)
(* overlap may leave a mixture, and a crash between the two an empty file.  *)
(***************************************************************************)
EXTENDS Integers, FiniteSets

CONSTANTS
    Worker,         \* reactor threads
    Site,           \* settings that pass Config::validate
    BadSite,        \* settings that do not
    Password,       \* admin passwords
    BadPassword,    \* in place of a new password: it is empty, or the body that
                    \* should name it is not UTF-8 or not JSON
    First,          \* the configuration the server was installed with
    MaxRequests     \* bound on the admin requests (model checking)

Config == [site : Site, pass : Password]

ASSUME AdminAssumption ==
    /\ Site \cap BadSite = {} /\ Password \cap BadPassword = {}
    /\ First \in Config
    /\ MaxRequests \in Nat
    /\ IsFiniteSet(Worker)

\* What is in the file, besides a configuration.
Empty == [damage |-> "truncated"]     \* truncated, not yet written
Mixed == [damage |-> "mixed"]         \* one configuration over the end of a longer one

VARIABLES
    up,             \* the server is running
    config,         \* AdminState.config
    app,            \* the settings AdminState.app was built from
    file,           \* the configuration file
    pc,             \* per worker: "idle", "verify", "open", "write" or "swap"
    request,        \* per worker: the admin request it handles
    new,            \* per worker: new_config
    answer,         \* per worker: the status of the last answer, 0 for none
    served,         \* admin requests begun
    \* history
    written,        \* configurations that were completely written to the file
    before,         \* per worker: config, app and file when its request began
    overlap,        \* two admin requests have been under way at once
    latest          \* the worker that answered last

state == <<up, config, app, file>>
local == <<pc, request, new, answer>>
history == <<written, before, overlap>>
vars == <<state, local, served, history, latest>>

Requests ==
    [kind : {"put"}, cred : Password, site : Site \cup BadSite, pass : Password]
        \cup [kind : {"password"}, cred : Password, current : Password, pass : Password \cup BadPassword]

NoRequest == [kind |-> "none"]

Running == [config |-> config, app |-> app, file |-> file]

Init ==
    /\ up = TRUE
    /\ config = First /\ app = First.site /\ file = First
    /\ pc = [w \in Worker |-> "idle"]
    /\ request = [w \in Worker |-> NoRequest]
    /\ new = [w \in Worker |-> First]
    /\ answer = [w \in Worker |-> 0]
    /\ served = 0
    /\ written = {First}
    /\ before = [w \in Worker |-> Running]
    /\ overlap = FALSE
    /\ latest \in Worker

At(w, place) == up /\ pc[w] = place

Goto(w, place) == pc' = [pc EXCEPT ![w] = place]

Reply(w, status) ==
    /\ answer' = [answer EXCEPT ![w] = status]
    /\ latest' = w
    /\ Goto(w, "idle")

-----------------------------------------------------------------------------
\* handle: the credentials are those of the running configuration, or the
\* request is refused; the lock is released before the request is handled.
Begin(w, r) ==
    /\ At(w, "idle") /\ served < MaxRequests
    /\ served' = served + 1
    /\ request' = [request EXCEPT ![w] = r]
    /\ before' = [before EXCEPT ![w] = Running]
    /\ overlap' = (overlap \/ \E v \in Worker : pc[v] # "idle")
    /\ IF r.cred = config.pass
       THEN /\ Goto(w, "verify")
            /\ answer' = [answer EXCEPT ![w] = 0]
            /\ UNCHANGED latest
       ELSE Reply(w, 401)
    /\ UNCHANGED <<state, new, written>>

Opening(w, c) ==
    /\ new' = [new EXCEPT ![w] = c]
    /\ Goto(w, "open")
    /\ UNCHANGED <<answer, latest>>

\* Faulty variant: nothing is validated.
ValidateNothing(w) ==
    LET r == request[w]
    IN  /\ At(w, "verify") /\ r.kind = "put"
        /\ Opening(w, [site |-> r.site, pass |-> r.pass])
        /\ UNCHANGED <<state, request, served, history>>

\* put_config: the body is parsed and validated.
Validate(w) ==
    LET r == request[w]
    IN  /\ At(w, "verify") /\ r.kind = "put"
        /\ IF r.site \in Site
           THEN Opening(w, [site |-> r.site, pass |-> r.pass])
           ELSE Reply(w, 400) /\ UNCHANGED new
        /\ UNCHANGED <<state, request, served, history>>

\* Faulty variant: the current password is not asked for.
VerifyNothing(w) ==
    LET r == request[w]
    IN  /\ At(w, "verify") /\ r.kind = "password"
        /\ IF r.pass \in Password
           THEN Opening(w, [site |-> config.site, pass |-> r.pass])
           ELSE Reply(w, 400) /\ UNCHANGED new
        /\ UNCHANGED <<state, request, served, history>>

\* change_password: without a new password the request is refused unseen; then
\* the current password is verified against the running configuration, and a
\* copy of it takes the new one.
Verify(w) ==
    LET r == request[w]
    IN  /\ At(w, "verify") /\ r.kind = "password"
        /\ \/ r.pass \notin Password /\ Reply(w, 400) /\ UNCHANGED new
           \/ r.pass \in Password /\ r.current # config.pass /\ Reply(w, 401) /\ UNCHANGED new
           \/ /\ r.pass \in Password /\ r.current = config.pass
              /\ Opening(w, [site |-> config.site, pass |-> r.pass])
        /\ UNCHANGED <<state, request, served, history>>

\* Faulty variant: the new configuration is swapped in before it is persisted.
TruncateAfterSwap(w) ==
    /\ At(w, "open")
    /\ file' = Empty
    /\ config' = new[w]
    /\ Goto(w, "write")
    /\ UNCHANGED <<up, app, request, new, answer, served, history, latest>>

\* fs::write: the file is opened and truncated.
Truncate(w) ==
    /\ At(w, "open")
    /\ file' = Empty
    /\ Goto(w, "write")
    /\ UNCHANGED <<up, config, app, request, new, answer, served, history, latest>>

\* fs::write: the content is written, over that of a write that overlaps.
Write(w) ==
    /\ At(w, "write")
    /\ file' \in IF file = Empty THEN {new[w]} ELSE {new[w], Mixed}
    /\ written' = written \cup {new[w]}
    /\ Goto(w, "swap")
    /\ UNCHANGED <<up, config, app, request, new, answer, served, before, overlap, latest>>

\* Faulty variant: the failure of a write is not looked at.
WriteFailsUnseen(w) ==
    /\ up /\ pc[w] \in {"open", "write"}
    /\ Goto(w, "swap")
    /\ UNCHANGED <<state, request, new, answer, served, history, latest>>

\* fs::write fails, to open the file or to write it; a write that fails half way
\* may have damaged what an overlapping one left.
WriteFails(w) ==
    /\ up /\ pc[w] \in {"open", "write"}
    /\ file' \in IF pc[w] = "write" /\ file # Empty THEN {file, Mixed} ELSE {file}
    /\ Reply(w, 500)
    /\ UNCHANGED <<up, config, app, request, new, served, history>>

\* put_config: the App is built and swapped in with its configuration.
SwapBoth(w) ==
    /\ At(w, "swap") /\ request[w].kind = "put"
    /\ config' = new[w]
    /\ app' = new[w].site
    /\ Reply(w, 200)
    /\ UNCHANGED <<up, file, request, new, served, history>>

\* change_password: the configuration is replaced and the App stays.
SwapConfig(w) ==
    /\ At(w, "swap") /\ request[w].kind = "password"
    /\ config' = new[w]
    /\ Reply(w, 200)
    /\ UNCHANGED <<up, app, file, request, new, served, history>>

Step(w) ==
    \/ Validate(w) \/ Verify(w) \/ Truncate(w) \/ Write(w) \/ WriteFails(w)
    \/ SwapBoth(w) \/ SwapConfig(w)

-----------------------------------------------------------------------------
\* The server is killed at any point.
Crash ==
    /\ up
    /\ up' = FALSE
    /\ pc' = [w \in Worker |-> "idle"]
    /\ answer' = [w \in Worker |-> 0]
    /\ request' = [w \in Worker |-> NoRequest]
    /\ UNCHANGED <<config, app, file, new, served, history, latest>>

\* main: a file that does not parse ends the start, and the server stays down.
Restart ==
    /\ ~ up
    /\ file \in Config
    /\ up' = TRUE
    /\ config' = file /\ app' = file.site
    /\ overlap' = FALSE
    /\ UNCHANGED <<file, local, served, written, before, latest>>

Next ==
    \/ \E w \in Worker : (\E r \in Requests : Begin(w, r)) \/ Step(w)
    \/ Crash
    \/ Restart

Spec == Init /\ [][Next]_vars

-----------------------------------------------------------------------------
TypeOK ==
    /\ up \in BOOLEAN /\ overlap \in BOOLEAN
    /\ config \in Config /\ app \in Site
    /\ file \in Config \cup {Empty, Mixed}
    /\ pc \in [Worker -> {"idle", "verify", "open", "write", "swap"}]
    /\ request \in [Worker -> Requests \cup {NoRequest}]
    /\ new \in [Worker -> Config]
    /\ answer \in [Worker -> {0, 200, 400, 401, 500}]
    /\ served \in 0 .. MaxRequests
    /\ written \subseteq Config
    /\ before \in [Worker -> [config : Config, app : Site, file : Config \cup {Empty, Mixed}]]
    /\ latest \in Worker

\* A configuration runs only once all of it has been written to the file, so a
\* crash never takes back settings that were in force unless another writer is
\* at the file (admin.rs 99: "Persist to disk before swapping").
PersistBeforeSwap == [][up' /\ config' # config => config' \in written]_vars

\* The request of w was the last one, and it overlapped with no other.
Settled(w) ==
    /\ up /\ ~ overlap /\ latest = w
    /\ \A v \in Worker : pc[v] = "idle"

\* An accepted change is in force and in the file, and the App is the one built
\* from it; a password change leaves every other setting as it was, and takes
\* the current password.
AcceptedIsApplied ==
    \A w \in Worker : Settled(w) /\ answer[w] = 200 =>
        /\ config = new[w] /\ file = new[w] /\ app = new[w].site
        /\ new[w].pass = request[w].pass
        /\ request[w].kind = "password" =>
              /\ new[w].site = before[w].config.site
              /\ request[w].current = before[w].config.pass

\* A refused change, or one whose write failed, changes nothing that runs
\* (admin.rs 99-100: "so a write failure leaves the running config untouched").
RefusedIsHarmless ==
    \A w \in Worker : Settled(w) /\ answer[w] \in {400, 401, 500} =>
        /\ config = before[w].config /\ app = before[w].app
        /\ answer[w] # 500 => file = before[w].file

\* The running configuration and the App built from it never disagree
\* (admin.rs 32-33).
ConfigAndAppAgree == up => app = config.site
=============================================================================
