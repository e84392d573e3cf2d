---------------------------- MODULE RateLimiter ----------------------------
(***************************************************************************)
(* The per-peer rate limiter of core/src/security.rs, as App::handle of     *)
(* std-server/src/app.rs calls it: one limiter behind a mutex, many reactor *)
(* threads.  A check is atomic (it runs under the mutex), but the timestamp *)
(* it carries was read by the reactor before it took the lock, so the times *)
(* of successive checks need not increase: a check may be up to MaxSkew     *)
(* seconds behind the latest clock.                                         *)
(*                                                                          *)
(* The map from peer to Entry is a total function; NoEntry stands for an    *)
(* absent key.  A stored entry never equals it, because tick counts the     *)
(* request before the entry is inserted.                                    *)
(***************************************************************************)
EXTENDS Integers, FiniteSets

CONSTANTS
    Peer,           \* peer addresses that send requests
    MaxEntries,     \* MAX_ENTRIES, the bound on tracked peers
    Requests,       \* security.rate_limit.requests
    WindowSecs,     \* security.rate_limit.window_secs
    BanSecs,        \* security.rate_limit.ban_secs
    WordSize,       \* 2^64: the sums on u64 wrap at it in a release build
    MaxSkew,        \* how far a timestamp may lag behind the clock
    StartTime,      \* Unix seconds when the limiter is created
    MaxTime         \* bound on the clock (model checking)

\* The configuration reader accepts any u64, zero included (config.rs
\* read_security); only the clock of the host is known to be past the epoch.
ASSUME ConfigAssumption ==
    /\ Requests \in Nat /\ WindowSecs \in Nat /\ BanSecs \in Nat
    /\ MaxEntries \in Nat /\ MaxSkew \in Nat
    /\ StartTime \in Nat \ {0} /\ MaxTime \in Nat
    /\ WordSize \in Nat \ {0}

ASSUME PeerAssumption == IsFiniteSet(Peer)

VARIABLES
    clock,          \* the wall clock, in Unix seconds
    entries,        \* RateLimiter.entries
    last_evict,     \* RateLimiter.last_evict
    reply           \* what the last check returned

vars == <<clock, entries, last_evict, reply>>

Time == Nat
Entry == [window_start : Time, count : Nat, banned_until : Time]

NoEntry == [window_start |-> 0, count |-> 0, banned_until |-> 0]

Tracked(e) == {p \in Peer : e[p] # NoEntry}

\* u64::saturating_sub
Elapsed(now, since) == IF now > since THEN now - since ELSE 0

-----------------------------------------------------------------------------
\* The outcome of RateLimiter::tick: the entry it leaves and what it decides.

\* Faulty variant: the window is not stamped with the time it starts.
FreshWindowUnstamped(now) == [window_start |-> 0, count |-> 0, banned_until |-> 0]

FreshWindow(now) == [window_start |-> now, count |-> 0, banned_until |-> 0]

\* Faulty variant: a ban that expired does not open a new window.
WindowOverNoBan(e, now) == Elapsed(now, e.window_start) >= WindowSecs

WindowOver(e, now) == e.banned_until # 0 \/ Elapsed(now, e.window_start) >= WindowSecs

\* Faulty variant: the new window keeps the old ban mark.
OpenWindowKeepsBan(e, now) ==
    IF WindowOver(e, now)
    THEN [window_start |-> now, count |-> 0, banned_until |-> e.banned_until]
    ELSE e

\* The window the request falls in: the one under way, or a new one.
OpenWindow(e, now) == IF WindowOver(e, now) THEN FreshWindow(now) ELSE e

CountedEntry(e, now) ==
    LET w == OpenWindow(e, now)
        n == w.count + 1
    IN  [window_start |-> w.window_start,
         count        |-> n,
         banned_until |-> IF n > Requests THEN (now + BanSecs) % WordSize
                                          ELSE w.banned_until]

\* Faulty variant: the ban mark is taken for a ban still running.
BannedByMark(e, now) == e.banned_until # 0

Banned(e, now) == now < e.banned_until

TickedEntry(e, now) == IF Banned(e, now) THEN e ELSE CountedEntry(e, now)

Allow(p, now) == [peer |-> p, at |-> now, allow |-> TRUE, retry |-> 0]
Deny(p, now, retry) == [peer |-> p, at |-> now, allow |-> FALSE, retry |-> retry]

Refused(e, now) == Banned(e, now) \/ CountedEntry(e, now).count > Requests

RetryAfter(e, now) == IF Banned(e, now) THEN e.banned_until - now ELSE BanSecs

Decision(p, e, now) ==
    IF Refused(e, now) THEN Deny(p, now, RetryAfter(e, now)) ELSE Allow(p, now)

-----------------------------------------------------------------------------
\* evict_expired, throttled to once per second.

\* Faulty variant: eviction looks at the window only.
StaleWindow(e, now) == Elapsed(now, e.window_start) >= WindowSecs

Stale(e, now) == now >= e.banned_until /\ Elapsed(now, e.window_start) >= WindowSecs

\* Faulty variant: the throttle skips a second too many.
EvictDueLate(now) == now > last_evict + 1

EvictDue(now) == now > last_evict

Evicted(now) ==
    IF EvictDue(now)
    THEN [p \in Peer |-> IF Stale(entries[p], now) THEN NoEntry ELSE entries[p]]
    ELSE entries

\* Faulty variant: off by one.
FullLate(e) == Cardinality(Tracked(e)) > MaxEntries

Full(e) == Cardinality(Tracked(e)) >= MaxEntries

-----------------------------------------------------------------------------
Init ==
    /\ clock = StartTime
    /\ entries = [p \in Peer |-> NoEntry]
    /\ last_evict = 0
    /\ reply = [peer |-> "none"]

\* The wall clock moves on.
Advance ==
    /\ clock < MaxTime
    /\ clock' = clock + 1
    /\ UNCHANGED <<entries, last_evict, reply>>

\* check of a peer the map holds.
CheckTracked(p, now) ==
    /\ entries[p] # NoEntry
    /\ entries' = [entries EXCEPT ![p] = TickedEntry(@, now)]
    /\ reply' = Decision(p, entries[p], now)
    /\ UNCHANGED last_evict

\* The map with room made for a newcomer, if it was needed.
Room(now) == IF Full(entries) THEN Evicted(now) ELSE entries

\* check of a newcomer: it is tracked if there is room, after an eviction if
\* the map was full, and otherwise it passes uncounted.
CheckNew(p, now) ==
    /\ entries[p] = NoEntry
    /\ last_evict' = IF Full(entries) /\ EvictDue(now) THEN now ELSE last_evict
    /\ IF Full(Room(now))
       THEN /\ entries' = Room(now)
            /\ reply' = Allow(p, now)
       ELSE /\ entries' = [Room(now) EXCEPT ![p] = TickedEntry(FreshWindow(now), now)]
            /\ reply' = Decision(p, FreshWindow(now), now)

\* A limiter that is not enabled would allow everything (security.rs 49-51), but
\* build_app makes none then (main.rs 66-70).
Check(p, now) ==
    /\ CheckTracked(p, now) \/ CheckNew(p, now)
    /\ UNCHANGED clock

\* The timestamps a check under the lock may carry.
Stamps == {t \in (clock - MaxSkew) .. clock : t >= 1}

Next == Advance \/ \E p \in Peer : \E now \in Stamps : Check(p, now)

Spec == Init /\ [][Next]_vars

-----------------------------------------------------------------------------
\* Type invariant of the limiter and the answer it gives.
TypeOK ==
    /\ clock \in Time /\ clock >= StartTime
    /\ entries \in [Peer -> Entry]
    /\ last_evict \in Time
    /\ reply \in [peer : {"none"}]
                \cup [peer : Peer, at : Time, allow : BOOLEAN, retry : Nat]

\* The map never holds more than MAX_ENTRIES peers, whatever the order of
\* insertions and throttled evictions (security.rs MAX_ENTRIES: "capping
\* memory under a many-distinct-IP flood").
Bounded == Cardinality(Tracked(entries)) <= MaxEntries

\* An entry is banned exactly when its count went past the limit, and the
\* count goes past it by one only: banned_until, which doubles as the "was
\* banned" flag of tick, and count never disagree.
BanMatchesCount ==
    \A p \in Tracked(entries) :
        /\ entries[p].count \in 1 .. Requests + 1
        /\ entries[p].banned_until # 0 <=> entries[p].count = Requests + 1

-----------------------------------------------------------------------------
\* The limiter as the quota table it implements: an entry that no longer
\* matters at the current second counts as forgotten.
QuotaOf(e, t) ==
    IF e # NoEntry /\ ~ Stale(e, t)
    THEN [start |-> e.window_start, used |-> e.count, until |-> e.banned_until]
    ELSE [start |-> 0, used |-> 0, until |-> 0]

QT == INSTANCE QuotaTable WITH quota <- [p \in Peer |-> QuotaOf(entries[p], clock)]

\* With timestamps taken in order (MaxSkew = 0), the bounded map with its
\* throttled eviction answers every check as the quota table does: eviction
\* never lifts a ban, never grants a second quota inside a window, and a
\* stranger passes uncounted only when MAX_ENTRIES live peers are tracked.
ImplementsQuotaTable == QT!Spec
=============================================================================
