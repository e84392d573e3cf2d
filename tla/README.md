# A TLA+ model of ferro

ferro is an HTTP/1.1 server: a `no_std` core with all protocol logic, a std
profile (an mio event loop per core), and an embedded profile (smoltcp). This
directory holds TLA+ modules for the parts whose correctness depends on order,
interleaving, limits or failure, the TLC configurations that check them, and
proofs that TLAPS checks. Paths below are relative to the repository's `crates/`.

## 1. Inventory

| Component | State | Operations | Met by |
|---|---|---|---|
| Rate limiter, `core/src/security.rs` | `entries` (peer to window, count, ban), `last_evict` | `check`, `tick`, `evict_expired` | every reactor thread, behind the mutex of `App` |
| Request parser, `core/src/http/request.rs` | none (a function of the buffer) | `parse_with`, `expect_action`, `decode_chunked` | `Connection::step` |
| Connection, `core/src/conn.rs` | `buf`, `continue_sent` | `feed`, `step` | both transports |
| Reactor, `std-server/src/transport_mio.rs` | `conns` (out, interest, close flag, last activity), the poll, the shutdown flag | accept, read, step, write, interest, sweep, drain | clients, the kernel, signals |
| `serve`, same file | reactor threads | start, join | the process |
| Admin panel, `std-server/src/webui/admin.rs` | `AdminState` (config and App) under a RwLock, the config file | `put_config`, `change_password`, authentication | several reactors at once |
| Application, `std-server/src/app.rs` | the limiter | dispatch order, 405/OPTIONS, gzip | `Connection` through `Service` |
| Router, `core/src/router.rs` | the routes, set at start | matching, methods of a path | the application |
| Static files, `core/src/handler/static_files.rs`, `std-server/src/fs_assets.rs` | the disk | decode, sanitize, `load` (stat, then read), `exists` | the application; programs that change files |
| Conditional requests and dates, `core/src/http/conditional.rs`, `date.rs` | none | `evaluate`, date arithmetic | the application |
| Configuration, `core/src/config.rs`, `json.rs` | the file | parse, validate, serialise | start-up, the admin panel, the operator |
| Embedded transport, `embedded/src/lib.rs` | `ConnState` (connection, out, close) per socket | `pump_connection`, `serve_smoltcp` | the network through smoltcp |
| TLS, gzip, SHA-256, statistics, MIME, firmware | small | wrappers and tables | the above |

**How they interact.** A transport owns a `Connection` per client. It feeds
received bytes, then calls `step` until it says NeedMore or asks to close. A
complete request goes to the `Service`: the `App`, or the `WebAdmin` around it.
The service is shared by all reactors, so the limiter's mutex and the RwLock of
the admin state are the only places where reactors meet; the shutdown flag is
the only other shared variable. The admin panel swaps the `App` (and with it the
limiter) while requests are under way.

**What is hard.** Edge-triggered readiness between any two steps of a handler;
slow, silent and vanishing clients; the idle sweep and the drain deadline racing
with work; signals that interrupt a poll; accepts that fail; requests in any
segmentation; limits met exactly; timestamps taken before a lock; eviction from
a full map; overlapping admin requests, failing writes and crashes around one
file; a socket reused for one client after another.

**What makes each part correct.**

- Limiter: bounded memory; a ban is kept to its end, in spite of eviction and
  clock skew; Retry-After is sufficient; a bounded number of grants; eviction
  is not observable.
- Connection and parser: one final response per request, in order, independent
  of the segmentation; 100 Continue once and in its place; nothing that could be
  answered is left in the buffer.
- Reactor: never asleep with work to do; the connection cap; no response unit
  lost or repeated; every prompt client is served; silent ones are reaped; a
  signalled reactor drains and stops.
- Admin panel: accepted changes are in force, on disk and in the App; refused
  ones are harmless; nothing runs that was not persisted first.
- Embedded pump: responses complete and in order through a small send buffer,
  nothing carried over to the next client, the socket freed in the end.
- Application and static files: a 304 is true of the version the client holds,
  though stat and read are two steps; a part is the part asked for; an Allow field
  agrees with later answers; nothing outside the document root is served.
- Dates: formatting and parsing are inverse, and the calendar is the Gregorian.
- Configuration: a text is refused or obeyed; what the server writes it reads
  back; what needs a restart is announced.

The hazards, each at its line and with the properties that cover it, are listed
in `PROJECT.json`.

## 2. Modules

| Module | Role |
|---|---|
| `QuotaTable` | what the limiter promises: per-peer quotas, no eviction |
| `RateLimiter`, `RateLimiterHistory`, `MCRateLimiter`, `RateLimiterProofs` | the limiter; the log of its answers; its runs; its proofs |
| `RequestParser` | the parser as a function of the bytes that have arrived |
| `Connection`, `MCConnection`, `ConnectionProofs` | the connection and the transport's loop, over `RequestParser`; proofs of both |
| `Reactor`, `MCReactor`, `ReactorProofs` | one reactor over edge-triggered sockets |
| `WebAdmin`, `MCWebAdmin`, `WebAdminProofs` | the admin panel, its file, crashes |
| `Pump`, `MCPump`, `PumpProofs` | the embedded transport over one smoltcp socket |
| `HttpDate` | civil dates, IMF-fixdate |
| `HttpResponse` | building and serializing responses |
| `Conditional` | preconditions and ranges |
| `Paths`, `Router` | request targets and paths; the route table |
| `StaticFiles` | path resolution, media types, validators, links |
| `Application`, `MCApplication`, `ApplicationProofs` | the handler over changing files, composed of the above; proofs of it and of the dates |
| `Json`, `Config` | the parser; schema, reading, validation, writing |
| `ConfigFile`, `MCConfigFile`, `ConfigProofs` | the configuration over edits, starts, reloads and stops; proofs of it and of the round trip of a written configuration |
| `NaturalFacts` | least elements, induction and running sums of naturals, for the proofs |

`Connection` EXTENDS `RequestParser`; `Application` EXTENDS `Router` and
`StaticFiles`, and this `Conditional`, `HttpDate` and `HttpResponse`; `ConfigFile`
EXTENDS `Config`, and this `Json`; `RateLimiter` refines `QuotaTable` through
an INSTANCE with a refinement mapping. `Reactor` and `Pump` abstract a request to
one unit because `Connection` shows that the segmentation does not matter to the
answers. Operators commented "Faulty variant" are the mutants of `PROJECT.json`:
plausible bugs, each of which some property catches. They are no part of the
specifications.

### RateLimiter

The map is a total function on `Peer`; `NoEntry` is an absent key, which no
stored entry can equal because `tick` counts before the entry is inserted.
`CheckTracked` and `CheckNew` are the two paths of `check`; `TickedEntry` and
`Decision` are the entry and the answer `tick` produces; `Room` and `Evicted` are
`evict_expired` with its throttle. A check is atomic (mutex), but carries a
timestamp the reactor read before the lock, so it may lag behind the clock by
`MaxSkew`. That a limiter which is not enabled allows everything is left out:
`build_app` makes none then. Sums on `u64` wrap at `WordSize`. `Advance` is the wall clock.
`RateLimiterHistory` adds a log of the answers, over which the promises to a
client are stated: what a Retry-After means for its next request, and how many
requests a span of time can be granted. `MCRateLimiter` only bounds the checks.

`QuotaTable` forgets a peer at the very second it stops mattering. Its only
trace of the map is `Overflow`: a peer nobody remembers may pass uncounted while
`MaxEntries` live peers are remembered. The mapping reads an entry that is
already stale as forgotten.

### RequestParser and Connection

A request on the wire is a record of lengths and of the facts the parser finds
in it (the first check of the head that fails, version, Connection, Expect,
framing, chunks, trailers). `Parse(r, avail)` is `parse_with` when `avail` bytes
of the buffer start at `r`: partial, complete with the bytes consumed, or an
error. `Wire(r)` is what the client sends, independent of the parser. In
`Connection` the client sends a sequence of such requests; `got` bytes were fed
and `base` drained, so a wrong `consumed` puts the buffer out of step with the
requests, which the parser then finds to be garbage. `Feed` appends any number
of bytes; `StepContinue`, `StepRefuse`, `StepNeedMore`, `StepComplete` and
`StepError` are the arms of `step`. Between feeding and NeedMore nothing else is
fed, as in `handle_ready`.

Three things the code decides by segmentation are set aside in `AnswersAsSent`,
by name: heads within three bytes of the limit (`request.rs:174` counts part of
the terminator), over-long lines of a chunked body (limited only while
unterminated), and unsupported expectations (see findings).

### Reactor

`sock`, `rx`, `tx`, `fin`, `armed` are the kernel's side. `armed` is the set of
pending edges: a socket enters it when something its interest covers happens, or
when it is registered or reregistered while ready, and `Poll` takes it out. The
handler of one event is three actions (`HandleRead`/`HandleNoRead`/`HandleEof`;
`WriteOut`/`WriteFails`; `Flushed`/`Pending`), since the client moves between
them. `AcceptAll` is one action: its loop touches only the listener and the map,
and a client that connects meanwhile arms the listener again. `Sweep` follows
each batch. `StartDrain`, `DrainHead` and `Stop` are the second loop of
`run_reactor`. A request is one unit, a response `RespLen` units, and the send
queue holds `SendBuf` of them. Time is relative: an `age` per connection, capped
one past the timeout, and the `grace` left.

`SignalOnReactor` says whether the signal may be delivered to the reactor's own
thread, and `AcceptErrors` whether accept may fail for lack of descriptors; the
passing run has both FALSE and the violation runs set one each. `Tick` happens
only while the reactor sleeps with nothing armed and no prompt client has unread
data: handling a batch and a prompt read take far less than a tick of a second.

### WebAdmin

A configuration is a pair of site settings and admin password. A worker goes
through `Begin` (authentication against the live configuration), `Validate` or
`Verify` (which refuse a body without valid settings or without a new password), `Truncate` and `Write` (the two halves of `std::fs::write`) and
`SwapBoth` or `SwapConfig`. The RwLock is never held across these and never
nested. `WriteFails` may strike at either half. `Crash` may come at any point;
`Restart` needs a file that parses. Overlapping writes may leave a mixture.

### Pump

`Rearm` and `Serve` are the two paths of `pump_connection`; `Serve` is one call:
receive, step up to a closing response, send what fits, close when all of it is
out. The network acts between calls: `Connect`, `Send`, `Receive`, `Fin`,
`Acknowledge`, `Reset`, over the TCP states the pump can tell apart. The error
arm of `serve_smoltcp` is unreachable from these calls (listen only on a closed
socket, recv and send only when possible).

### Application and the modules under it

A request is handled in the steps at which the file system is looked at:
`Deny` or `Allow` (the limiter, whose decision is left open here), `dispatch`
(`OPTIONS *`, the router, or on to files), `Stat` and `Read` for each candidate
(`FsAssets::load`, split between `metadata` and `read`), `Miss`, `Discover` and
`Probe` (405, OPTIONS and 404). Between any two of them `Write` and `Unlink`
change a file and `Tick` lets a second pass. `follow_symlinks` is chosen at the
start. A byte of a body is a triple of file, version and position, so a property
can tell what a body was made of; a compressed body is a constructor around the
plain one, which is how `PartsAreParts` can see through it.

The client keeps one answer: either a copy with its validators, or an Allow field.
Its next requests are made of it. This is what lets properties relate an answer
to an earlier one. `answer` carries the circumstances of the answer just given
(which versions were on disk while it was made, whether a file changed) until the
next step.

`Paths` has targets and paths as sequences of symbols: slashes, dots, percent
escapes, runs of other characters. `RequestPath` is `Request::path`, with absolute
forms and queries. `candidate_paths`, `Resolves` and `Canonical` are the resolution
from there to a file, links and loops of links included.
Header fields are functions on the names present, values are already split into
what the code parses them to: entity tags as weakness, length and mtime; ranges as
two sides that may be empty or garbled; dates as `HttpDate` has them.

Not in the model: files that are written in place while they are read, links and
directories that change, files without an mtime (compiled-in assets), and captured
route parameters, which no handler reads.

### Json, Config and ConfigFile

A text is a sequence of symbols (marks, blank space, literals, numerals; inside of
strings runs of characters, escape letters, the four digits of `\u`).
`parse` descends like `json.rs`: `Values` says for each number of levels left and
each position what `parse_value` reads there, and `Loop` is the loop of
`parse_object`, `parse_array` and `parse_string`, one item behind the other. Both are
recursive functions, not RECURSIVE operators, so that they can be proved about.
A `Result` is a set here: what was
read, or nothing on an error, so that `?` is a union over it. Numbers are held in halves and rounded
to a mantissa of `MantissaBits`, `u64` ends at `U64Max`; the run has 5 bits and 63, which
keeps the proportions that matter: the largest integer is not representable, its
successor is, and there are gaps below. `Schema` is the whole configuration, every
field with type and default (one `Preset` for every default number but 0).
`from_json` reads all fields at once where the code stops at the first error: the
outcome is the same. `Layout` has the members of every section in the order in which
`to_json_string` writes them; `Schema` is the fields in it.

`ConfigFile` is the life of the file: `Edit` and `Delete` by hand while the server
is down, `Start` (`load_config`, then the address), `put_config`, `change_password`,
`Stop`. A start may fail with any configuration (a certificate, a signal handler, an
address that is taken), and must without a usable one. Each document comes with the value it stands for, written down
independently of the parser; history variables remember which document the
configuration goes back to. Overlapping requests, failing writes and crashes are
`WebAdmin`'s subject.

## 3. Runs

| Run | Shows | Instance |
|---|---|---|
| `limiter_skew` | bounded map, bans kept and matched with counts, Retry-After sufficient | 2 peers, 1 entry, window 3 s, ban 2 s, skew 1 s, 5 checks |
| `limiter_order` | at most two windows' grants in a span; implements `QuotaTable` | 3 peers, 2 entries, no skew, 5 checks |
| `connection` | answers as sent, interim response in place, nothing left behind, all answered | streams of up to 3 requests of 14 shapes, limits of 3 to 5 bytes, every segmentation |
| `reactor` | see the inventory; 9 properties, 3 of them liveness | 2 clients, 1 connection allowed, 2 requests each, responses of 2 units into a queue of 2, timeout and grace of 1 tick |
| `admin` | accepted is applied, refused is harmless, persist before swap | 2 workers, 2 good and 1 bad site, 2 good and 1 bad password, 3 requests |
| `pump` | responses in order, owed is pending, closing frees, requests answered | 2 clients, 4 requests each, the third closes, send buffer of 1 |
| `application` | 304 honest, parts are parts, Allow agrees, stays in root | 47 requests (15 targets, validators, 10 ranges, encodings), 5 files, 4 links (one out of the root, one loop, one chain), 2 index files, 3 routes, 2 writes, 2 seconds; 1.7 million states, about a minute |
| `config` | accepted is as written, a restart keeps it, restarts are announced | 43 documents: 19 good, 13 wrong, 11 broken; any order of edits, starts, reloads, password changes, stops; about a minute, most of it parsing |
| `reactor_signal`, `reactor_accept`, `admin_agree`, `pump_gone` | one disagreement with a comment or document each (section 5) | as above |

Why the bounds are enough. The limiter's interesting cases need a full map, an
eviction, a ban that outlasts or is outlasted by the window, and a newcomer:
the map is smaller than the set of peers, and five checks in six seconds cover
window, ban and return. Every limit of the parser is a few bytes, so each is met,
missed by one and exceeded by some shape, and every cut of a stream is taken.
A reactor with one place and two clients has the cap, a full backlog, a
slow reader and a closer at once; two responses do not fit the send queue, so
output stays pending. Two workers and three requests are enough for any two
admin requests to overlap and one to follow. In the pump two responses queue
behind a full buffer, a request follows the closing one, and a second client
follows the first. In `application` two writes and two seconds are what a stale
validator needs: the client's copy, a rewrite between stat and read or later in
the same or the next second, and a revalidation; the index files have one length,
so only the mtime tells versions apart, while the other file may also be empty.
In `config` each numeral lies on, just below or just above a limit, and each
document has one feature of the grammar or the schema.

What the properties of `application` set aside, each by name, because the code
does answer otherwise there (dropping any of them makes the run fail):
a file written twice in one second (`hurried`), a directory whose index file
is another than the copy's (`copy.file`), a path that is both route and file
(`Shadowed`), a file that changed during a request answered 405 (`quiet`), a
Range field whose end is garbled behind a start past the file (`EndUnread`, which
gets a 416: `UnparsableIsIgnored` in section 5). In `config`, `AcceptedIsAsWritten` sets the fields aside that
are `Disputed`: those of a section that is no object (`UnderNoObject`) and
a number above `u64::MAX` (`TooLarge`); `RestartIsAnnounced` leaves out
`ReactorOptions`. All of these are disagreements with comments, in section 5.

`EveryRequestServed` excuses a connection that was given up as idle, because a
request that arrives while the sweep runs is lost with it. A request whose edge was lost would
end there too: that none is lost is `NoLostWakeup`, and that the sweep cuts no
client which is owed something is `NothingLost`. `AcceptedIsApplied` and
`RefusedIsHarmless` are about admin requests that overlap no other.

Passing runs with `CHECK_DEADLOCK FALSE` may really stop: the limiter's clock and
number of checks are bounded, a connection ends when it has closed or all was
sent, a reactor returns, a server may stay down after a damaged file. The pump
never stops and is checked for deadlock.

### Fairness

- `Connection`: weak fairness of `Step` (the transport's loop runs) and of
  `FeedFreely`: a client sends what it has, except that one waiting for
  100 Continue may withhold its body for ever.
- `Reactor`: weak fairness of the thread's own steps, of a tick that ends the
  poll (`Some(tick)` is passed to every poll), and of reading by the clients in
  `Prompt`. The other clients need never read, and none needs to send, hang up
  or connect. Signals are never forced.
- `Pump`: weak fairness of the pump (`serve_smoltcp` is an endless busy loop), of
  delivery and acknowledgement, and of the client's close after the server's.
  A client need not send, close first or reset.
- `RateLimiter`, `WebAdmin`, `Application`, `ConfigFile`: safety only. They make no
  promise of progress beyond the termination of straight-line code.

## 4. Proofs

All are for every value of the constants that meets the modules' assumptions.
Each proof module names its inductive invariant, which TLC also checked on the
instance of the component's run before it was proved.

| Theorem | States | Argument |
|---|---|---|
| `TypeCorrect` | the limiter's `TypeOK` | inductive as it stands |
| `MapBounded` | `Bounded` | one step adds a peer only when `Full` does not hold; eviction and `tick` add none |
| `BanMatches` | `BanMatchesCount`, under `NoWrap` | inductive with `TypeOK`, the clock's bounds and `GoodEntry` of every entry. The clock is needed because a ban set at time 0 for 0 seconds would read as no ban |
| `BanKept`, `RetryTheorem` | `BanIsKept`, `RetryAfterSuffices`, under `NoWrap`, any skew | `HistoryInv`, below |
| `BurstTheorem` | `BurstBounded`, under `NoWrap` and `MaxSkew = 0` | `BurstInv`, below |
| `Refinement` | `ImplementsQuotaTable`, under `InOrder` | `BanMatches`' invariant, plus no timestamp in the future; each action maps to one of `QuotaTable` or a stutter |
| `ParseOutcome` | what `parse_with` says of any number of bytes of any request | by cases of framing; for chunked bodies by induction over chunks and trailers |
| `ConnectionTypeCorrect`, `AnswersTheorem`, `InterimTheorem`, `NothingLeftTheorem` | `TypeOK`, `AnswersAsSent`, `InterimInPlace`, `NothingLeftBehind` | `ConnInv`, below |
| `ReactorTypeCorrect`, `InterestTheorem`, `LossTheorem` | `TypeOK`, `InterestMatches`, `NothingLost` of the reactor | `LoopInv`, below |
| `WakeupTheorem` | `NoLostWakeup`, if accept does not fail | `LoopInv` and `ListenerWoken` |
| `CapTheorem` | `CapRespected` | only `AcceptAll` adds connections, and it compares before each |
| `DrainTheorem` | `ShutdownDrains`, if no signal reaches the reactor's thread | `CutInv`: only `Stop` cuts, and with connections left it needs `grace = 0` |
| `PumpTypeCorrect`, `InOrder`, `Owing` | `TypeOK`, `ResponsesInOrder`, `OwedIsPending` | `OrderInv`, below |
| `AdminTypeCorrect` | `TypeOK` of the panel | inductive; `Validate` is what keeps bad settings out |
| `PersistedFirst` | `PersistBeforeSwap` | `WrittenInv`: a worker about to swap has its configuration in `written`, and so has a file that parses |
| `AcceptedApplied`, `RefusedHarmless` | `AcceptedIsApplied`, `RefusedIsHarmless` | `SoloInv`, below |
| `DaysRoundTrip` | `civil_from_days` and `days_from_civil` are inverse | bounds of year, month and day within an era |
| `DateRoundTrip` | `parse_http_date(http_date(t)) = t` | `DaysRoundTrip` and the division of a day |
| `CalendarDays` | `civil_from_days` counts the days of the Gregorian calendar | day by day: within a month, at its end, at a year's, at an era's |
| `RootKept` | `StaysInRoot` | `RootInv`: a job about to read has looked its file up in the root, and what it has left to try are candidates of its path |
| `ApplicationTypeCorrect`, `HonestTheorem` | `TypeOK` and `NotModifiedIsHonest` of the handler | `HonestInv`, below |
| `PartsTheorem` | `PartsAreParts` | `RangeInHand` on top of `RootInv` and `HonestInv`; then `RangesAsAsked`, and what evaluation, compression and sending leave of a file's bytes |
| `AllowTheorem` | `AllowAgrees` | `AllowInv`, below, on top of `RootInv` and `HonestInv` |
| `WrittenIsRead` | `from_json_str(to_json_string(c)) = {c}` for every configuration that validates | through the JSON value between, below |
| `ConfigTyped`, `ConfigRestarts`, `ConfigAnnounces` | `TypeOK`, `RestartKeepsConfig`, `RestartIsAnnounced` of `ConfigFile` | `Inv`, below, on top of `WrittenIsRead` |
| `ConfigObeys` | `AcceptedIsAsWritten`, if it holds of each document at the moment it is read (`DocumentsRead`, with the same fields set aside) | `OriginInv`, below, on top of `Inv` |
| `RangesAsAsked` | ranges resolve to the positions asked for, for every length; ignored are exactly those that are not `Valid`, but for `EndUnread` | by cases of `parse_single_range` |

The invariants and why the properties need them:

- `HistoryInv` (limiter). The properties speak of two answers in the log, the step
  sees only the entries. `BanLeft` joins the two: after the last refusal of a
  peer, and until some check carried a time past its end, the peer's entry is in
  the map with a ban to exactly that moment. Eviction keeps it because the ban
  lies ahead of the evicting check's time.
- `BurstInv` (limiter). For each peer the log splits at the start of its current window:
  the grants since then are its count (`InWindow`), earlier ones lie in windows that
  opened at least `Span` seconds before; a peer without an entry has no grant
  that recent (`Forgotten`). So a span meets two windows at most, each with at
  most `Requests` grants.
- `ConnInv` (connection). `InStep`: what was drained are whole requests of the stream, one
  for each final answer, so the parser always starts at a request; this needs
  `ParseOutcome`, by which a complete request is consumed exactly. `Waiting`:
  between the loops nothing answerable is in the buffer, and a withheld
  100 Continue has been sent.
- `LoopInv` (reactor). `Counts` (every response unit is received, queued or held),
  `Batched` (a batch has one event at most for each open connection and the
  listener, and none for the connection being handled),
  `InterestMatches`, `Woken` (a connection that could be read or written is armed, in the
  batch or in its handler, at each step and not only in the poll), `Settled`
  (a prompt reader that grows old is owed nothing, and why a connection was
  closed agrees with what it owed). `NoLostWakeup` at the poll
  is what is left of `Woken` when the batch is empty. `ListenerWoken` is the
  same for the backlog, and is what a failing accept breaks.
- `OrderInv` (pump). Received, queued and pending responses are three consecutive runs of
  the client's request numbers, the buffered requests continue them, and on a
  socket that is not connected nothing is left of the client before.
- `SoloInv` (panel). While the latest request overlapped no other, what its worker
  saw at the start is still in force until it writes, and each stage of its way
  fixes file, configuration and App in terms of that and of its new value.
- `HonestInv` (handler). A 304 compares dates and tags, the property speaks of versions.
  `CopyOfFile` ties the two: the client's copy carries the tag and the date of one
  mtime, and a file that is not newer than that still has the copy's version, unless it was
  written twice in a second. `StatOfFile` carries this over the gap between
  `metadata` and `read`: the mtime looked up is not newer than the file, and if it
  is not newer than the copy, the copy's version has been on disk since the
  request began, although it may be gone when the bytes are read. `JobOfCopy`: the request's
  validators are still those of the copy, because the client waits for its answer.
  That the date sent back is read as the mtime it was made of is `DateRoundTrip`.
- `AllowInv` (handler). An Allow field is computed at one stage and tested by requests
  that end at others. `PromiseKept`: while no file changes, the field a client
  holds is what discovery lists now, and if no route has the path, a file is served
  there. `RoutesTried` and `FilesTried` are what a request in hand has found out at
  the stages behind it: no route answers, and the candidates before those left are
  missing. So a 404 or 405 at the end contradicts no promise.
- `Inv` (configuration). `RestartKeepsConfig` speaks of a running server, but its configuration
  comes from the file a server before it wrote. `AsWritten` bridges the time it is
  down: a file that is as the server wrote it is what `to_json_string` makes of some
  configuration that validates, the one in force if the server runs. The next start then
  loads exactly that one, by `WrittenIsRead`. A configuration in force has all fields
  of the schema, with values of their kind (`IsConfiguration`), and validates;
  `change_password` keeps both because no check looks at the password.
- `OriginInv` (configuration). The document named in the history gives, when it is read,
  the configuration in force, but for the password; while the server is down, the same
  holds of what the file was written from, and a file touched by hand is that document.
  `DocumentsRead` then carries from the moment of reading to any later one. The run
  reads each of its documents, at a start or from the panel, and checks
  `AcceptedIsAsWritten` right behind, which is `DocumentsRead` for that document.

`WrittenIsRead` goes through the JSON value between. `Denotes(x, v, left)`: wherever the text `x`
occurs in a text, `parse_value` with `left` levels left reads `v` there and stops
behind `x`. It is shown of an escaped string character by character
(`QuotedRead`), of a list item by item (`ListedRead`), of an object from its members, and so for the
sections from the innermost to the whole (`TreeDenotes`). The value of the
whole text has at each path of the schema what was written there (`AtMember`), and
what `ReadAs` makes of it is the field (`ValueReadBack`). Numbers are those of
`Counts`, which a text can give: a `u64` that its nearest `f64` casts back to, the
largest one among them. Others never get into a configuration (`FromJsonType`).

Assumptions. `NoWrap` says that the clock plus a ban stays below 2^64, which holds
for any sane configuration; without it the sums wrap as in a release build.
`InOrder` is `NoWrap` with no skew and a window of at least a second (a window of
0 makes every entry stale at once, which the table's windows cannot express):
with skew the refinement and the bound on bursts are false (an older timestamp
may revive a window), which is why `limiter_skew` checks neither.
`DrainTheorem`'s assumption is exactly what the finding `reactor_signal` denies
for a reactor on the main thread, and `WakeupTheorem`'s what `reactor_accept`
denies. The connection's streams are sequences of requests that are
`WellFormed` (`StreamsAssumption`): a chunked body is a list of chunks of which the
last and only the last has size 0. This fixes where one request ends and the
next begins on the wire, not what the parser accepts; `MaxChunkLine` is at least 1.
`RequestsAssumption` says that a client of the handler makes up no entity tag and no
date: it sends those of its copy, `*`, or a list without a valid tag. For an invented validator no
server could promise what `NotModifiedIsHonest` says. `PartsTheorem` needs of it only that
a Range field splits into two sides that are numbers, empty or garbled, which is
all `parse_single_range` distinguishes. `BoundsAssumption` types the bounds.
The texts of `Documents` and the hash are sequences over `Symbol`
(`DocumentAssumption`), whatever they are. The other assumptions of `Json` and `Config`
say that the tables fit together, where the code has functions: numerals are
parsed to numbers (`NumeralAssumption`), a number is written as a numeral that stands for it
(`DecimalAssumption`), the names and defaults can be written (`LayoutAssumption`), the
default numbers are not rounded (`PresetAssumption`), and at least the three
levels of a configuration are allowed (`DepthAssumption`; the code allows 64).

`NaturalFacts`. The library's induction theorems have an operator parameter that the
provers cannot instantiate, so the same principle is stated for a set: a set
with 0 that is closed under successor holds every natural. The recursive
functions of the parser (`ChunkPos`, `BodyLen`, `TrailerPos`), the start of a
request in its stream, and the counts of final answers are reasoned about through it.

Only model-checked: all liveness (TLAPS has neither fairness nor ENABLED), and
`DocumentsRead`: that `parse` and `from_json` give what a person sees in a text is
checked document by document, against the value written down next to it. A theorem about every
text would need a grammar of JSON to compare with, and induction over it; `WrittenIsRead` is
that comparison for the texts the server writes itself. What `Canonical` makes of a path with
links is only used through the check of its result.

## 5. Findings

1. `reactor_signal`: a signal handled on the polling thread makes `poll` return
   Interrupted, and the `?` at `transport_mio.rs:243` ends the reactor without a
   drain. A single worker runs on the main thread.
2. `reactor_accept`: an accept error other than WouldBlock and Interrupted leaves
   clients in the backlog with the edge consumed (`transport_mio.rs:348`).
3. `admin_agree`: `change_password` swaps in a configuration built from a stale copy
   and keeps the App, so the two disagree after an overlapping reload.
4. `pump_gone`: a client that closes first leaves the socket in CLOSE-WAIT for good.

Each is quoted in `PROJECT.json` with the comment it contradicts.

Six more disagreements with a comment or a test have their properties in the modules
but no run of their own. The passing runs set them aside by name; adding one of these
properties to the INVARIANTS of the run's configuration shows the counterexample:

- `UnsupportedExpectationRefused` (`connection`): an unsupported `Expect` is
  refused with 417 only while the body is incomplete (`conn.rs:128-150`); with the
  body at hand it is ignored. The test at `conn.rs:407`: "An expectation the server
  cannot meet is refused with 417, not silently ignored".
- `NothingAfterClose` (`pump`): requests pipelined after a closing one are
  dispatched by the next pump (`embedded/src/lib.rs:149`). Lines 155-156: "ignore any
  pipelined bytes that follow it".
- `UnparsableIsIgnored` (`application`): `bytes=9-x` past the end of a file is
  answered with 416, because the end is not parsed any more (`conditional.rs:125`).
  Lines 66-68: "the full response when ... the range is unparsable"; lines 100-102:
  "Returns `None` for an unparsable spec ... (the caller then serves the full body)".
- `WrongTypesRefused` (`config`): a section that is no object, such as `"tls": true`
  or `"rate_limit": false`, is passed over (`config.rs:193`). `config.rs:5-6`: "wrong
  types, and out-of-range values fail loudly"; `README.md:25`: "malformed config fails loudly".
- `OutOfRangeRefused` (`config`): 2^64 is accepted for a `u64` and taken for `u64::MAX`
  (`json.rs:69`). `json.rs:60-61`: "no fractional part and within `u64` range"; and `config.rs:5-6`.
- `OptionsAnnounced` (`config`): four settings that the reactors get once, at their
  start (`main.rs:109-115`), are not announced as requiring a restart (`admin.rs:219`).
  `admin.rs:107`: "Fields that the running reactors cannot change without a restart".

Deviations that contradict no comment, met while modelling and described by the
properties: an address such as `::` passes validation and makes the next
start fail; a strong ETag is shared by the two encodings
and may be by two versions of one second; a copy of one index file can be
validated against another by date; a file under a `QUERY` route is served on GET but
not listed in Allow.

## 6. Not modelled

The byte-level syntax of heads (each request has at most one abstract fault), the
wording of responses and errors, UTF-8, hashing, the gzip container and
statistics: data without control. TLS: rustls is external, though the order of encryption, close_notify
and writing is worth a model. The split over several reactors in `serve`. Failing
epoll registrations. The embedded `StaticRouter`, whose dispatch is a part of
`Application`'s over files that never change. Firmware start-up, CI, Docker and the
benchmark.

## 7. Plan

Done, in this order: limiter and its refinement, parser and connection, reactor,
admin panel, pump; first proofs of limiter, reactor and panel; dates, responses,
conditional requests, router, static files and the application over changing
files; JSON, configuration and the life of its file; proofs of dates, ranges and
the document root; the safety properties of limiter, parser, connection, reactor,
panel and pump as theorems; the handler's types, its 304s, its parts
and its Allow fields; the JSON parser and the configuration without RECURSIVE
operators, its round trip and the life of its file proved.

Next, in this order:

1. `Serve`: several reactors, the division of the cap, one of them failing; the TLS
   close order as an extension of the reactor's handler.
2. `Reload`: the limiter under the panel, to state what a reload does to bans.
