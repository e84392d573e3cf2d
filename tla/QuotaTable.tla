----------------------------- MODULE QuotaTable -----------------------------
(***************************************************************************)
(* What the per-peer rate limiter promises, without its bounded map.  Every *)
(* peer has a quota; a peer whose window has elapsed and whose ban is over  *)
(* is forgotten at that very second, and there is no eviction to wait for.  *)
(* The only trace of the bounded map is that a peer nobody remembers may be *)
(* let through uncounted while MaxEntries other peers are remembered.       *)
(***************************************************************************)
EXTENDS Integers, FiniteSets

CONSTANTS
    Peer,           \* peer addresses
    MaxEntries,     \* how many peers can be remembered
    Requests,       \* requests granted per window
    WindowSecs,     \* length of a window
    BanSecs,        \* length of a ban
    StartTime,      \* the clock when the limiter is created
    MaxTime         \* bound on the clock (model checking)

VARIABLES
    clock,          \* Unix seconds
    quota,          \* Peer -> [start, used, until]
    reply           \* the last answer given

vars == <<clock, quota, reply>>

\* A peer nobody remembers.
Idle == [start |-> 0, used |-> 0, until |-> 0]

\* Something about the peer still matters at time t: its ban or its window.
Live(q, t) == t < q.until \/ t - q.start < WindowSecs

Forget(q, t) == IF q # Idle /\ Live(q, t) THEN q ELSE Idle

Init ==
    /\ clock = StartTime
    /\ quota = [p \in Peer |-> Idle]
    /\ reply = [peer |-> "none"]

Advance ==
    /\ clock < MaxTime
    /\ clock' = clock + 1
    /\ quota' = [p \in Peer |-> Forget(quota[p], clock')]
    /\ UNCHANGED reply

Answer(p, allow, retry) ==
    reply' = [peer |-> p, at |-> clock, allow |-> allow, retry |-> retry]

\* A banned peer is refused, and told how long its ban still lasts.
Refuse(p) ==
    /\ clock < quota[p].until
    /\ Answer(p, FALSE, quota[p].until - clock)
    /\ UNCHANGED <<clock, quota>>

\* The peer is in a window: the one it started, or a new one when it is not
\* remembered or comes back from a ban.
Window(p) ==
    IF quota[p] = Idle \/ quota[p].until # 0
    THEN [start |-> clock, used |-> 0, until |-> 0]
    ELSE quota[p]

\* The window w with one more request in it.
Used(w, until) == [start |-> w.start, used |-> w.used + 1, until |-> until]

Grant(p) ==
    /\ clock >= quota[p].until
    /\ Window(p).used < Requests
    /\ quota' = [quota EXCEPT ![p] = Used(Window(p), 0)]
    /\ Answer(p, TRUE, 0)
    /\ UNCHANGED clock

Ban(p) ==
    /\ clock >= quota[p].until
    /\ Window(p).used >= Requests
    /\ quota' = [quota EXCEPT ![p] = Used(Window(p), clock + BanSecs)]
    /\ Answer(p, FALSE, BanSecs)
    /\ UNCHANGED clock

\* The table is full of peers that matter: a stranger passes uncounted.
Overflow(p) ==
    /\ quota[p] = Idle
    /\ Cardinality({q \in Peer : quota[q] # Idle}) >= MaxEntries
    /\ Answer(p, TRUE, 0)
    /\ UNCHANGED <<clock, quota>>

Next ==
    \/ Advance
    \/ \E p \in Peer : Refuse(p) \/ Grant(p) \/ Ban(p) \/ Overflow(p)

Spec == Init /\ [][Next]_vars
=============================================================================
