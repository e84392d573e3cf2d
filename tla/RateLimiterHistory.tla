------------------------- MODULE RateLimiterHistory -------------------------
(***************************************************************************)
(* RateLimiter with a history of the answers given, so that the promises    *)
(* the server makes to a client are stated over the sequence of its         *)
(* requests rather than over one check.                                     *)
(***************************************************************************)
EXTENDS RateLimiter, Sequences

VARIABLE log            \* the answers given, oldest first

LoggedInit == Init /\ log = <<>>

LoggedAdvance == Advance /\ UNCHANGED log

LoggedCheck(p, now) ==
    /\ Check(p, now)
    /\ log' = Append(log, [peer    |-> p,
                           at      |-> now,
                           allow   |-> reply'.allow,
                           retry   |-> reply'.retry,
                           counted |-> entries'[p] # NoEntry])

LoggedNext == LoggedAdvance \/ \E p \in Peer : \E now \in Stamps : LoggedCheck(p, now)

LoggedSpec == LoggedInit /\ [][LoggedNext]_<<vars, log>>

-----------------------------------------------------------------------------
\* The peer refused at position i of the log asks again, for the first time,
\* at position j.
NextOfRefused(i, j) ==
    /\ i < j
    /\ log[i].peer = log[j].peer
    /\ ~ log[i].allow
    /\ \A k \in i + 1 .. j - 1 : log[k].peer # log[i].peer

BanEnd(i) == log[i].at + log[i].retry

\* A refused client that comes back before the Retry-After it was given is
\* refused again and sent to the same moment.  The window map may have been
\* full, evicted and refilled by other peers meanwhile: while no check has
\* carried a time past the end of the ban, nothing lifts it.
BanIsKept ==
    \A i, j \in DOMAIN log :
        NextOfRefused(i, j) /\ (\A k \in i .. j : log[k].at < BanEnd(i))
            => ~ log[j].allow /\ BanEnd(j) = BanEnd(i)

\* A client that waited out the Retry-After of its refusal is let through
\* (tick, security.rs 80-82: a ban that outlives nothing must not re-ban at
\* once because the count is still high).
RetryAfterSuffices ==
    Requests > 0 =>
        \A i, j \in DOMAIN log :
            NextOfRefused(i, j) /\ log[j].at >= BanEnd(i) => log[j].allow

\* The answer a grants p a request, and it was counted.
Granted(a, p) == a.peer = p /\ a.allow /\ a.counted

\* The positions of the log with the grants to p that carried a time of the
\* span that starts at from.
GrantsIn(p, from, span) ==
    {i \in DOMAIN log : Granted(log[i], p) /\ log[i].at >= from /\ log[i].at < from + span}

Span == IF WindowSecs < BanSecs THEN WindowSecs ELSE BanSecs

\* A counted peer is granted at most two windows' worth of requests in any
\* span of WindowSecs or BanSecs seconds, whichever is less, however it
\* spreads them and whatever is evicted around it.  Timestamps in order
\* (MaxSkew = 0).
BurstBounded ==
    \A i \in DOMAIN log :
        Cardinality(GrantsIn(log[i].peer, log[i].at, Span)) <= 2 * Requests
=============================================================================
