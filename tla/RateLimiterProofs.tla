------------------------- MODULE RateLimiterProofs -------------------------
(***************************************************************************)
(* Theorems about RateLimiter, for every configuration and every set of     *)
(* peers.                                                                   *)
(***************************************************************************)
EXTENDS RateLimiterHistory, FiniteSetTheorems, SequenceTheorems, TLAPS

\* What tick leaves is an entry that has counted a request, so it is never
\* taken for an absent one.
LEMMA TickedEntryType ==
    ASSUME NEW e \in Entry, NEW now \in Time
    PROVE  /\ TickedEntry(e, now) \in Entry
           /\ (e # NoEntry \/ (now > 0 /\ e = FreshWindow(now))) => TickedEntry(e, now) # NoEntry
<1> DEFINE w == OpenWindow(e, now)
           n == w.count + 1
           ban == (now + BanSecs) % WordSize
<1>1. w \in Entry
  BY DEF OpenWindow, Entry, FreshWindow, Time
<1>2. ban \in Nat
  BY ConfigAssumption DEF Time
<1>3. CountedEntry(e, now) =
        [window_start |-> w.window_start, count |-> n,
         banned_until |-> IF n > Requests THEN ban ELSE w.banned_until]
  BY DEF CountedEntry
<1> HIDE DEF w, ban
<1>4. CountedEntry(e, now) \in Entry /\ CountedEntry(e, now).count >= 1
  BY <1>1, <1>2, <1>3 DEF Entry, Time
<1>5. CountedEntry(e, now) # NoEntry
  BY <1>4 DEF NoEntry
<1>6. ~ (Banned(e, now) /\ e = FreshWindow(now))
  BY DEF Banned, FreshWindow, Time
<1> QED BY <1>4, <1>5, <1>6 DEF TickedEntry

\* A check answers the peer that asked, with a Retry-After that is not negative.
LEMMA DecisionType ==
    ASSUME NEW p \in Peer, NEW e \in Entry, NEW now \in Time
    PROVE  Decision(p, e, now) \in
              [peer : Peer, at : Time, allow : BOOLEAN, retry : Nat]
<1>1. RetryAfter(e, now) \in Nat
  BY ConfigAssumption DEF RetryAfter, Banned, Entry, Time
<1> QED BY <1>1 DEF Decision, Deny, Allow

-----------------------------------------------------------------------------
\* Eviction, whether it runs or is throttled, keeps the type of the map and
\* tracks nobody new.
LEMMA RoomType ==
    ASSUME entries \in [Peer -> Entry], NEW now \in Time
    PROVE  /\ Room(now) \in [Peer -> Entry]
           /\ Tracked(Room(now)) \subseteq Tracked(entries)
<1>1. NoEntry \in Entry
  BY DEF NoEntry, Entry, Time
<1>2. CASE Room(now) = entries
  BY <1>2
<1>3. CASE Room(now) = [p \in Peer |-> IF Stale(entries[p], now) THEN NoEntry
                                                                ELSE entries[p]]
  BY <1>1, <1>3 DEF Tracked
<1> QED BY <1>2, <1>3 DEF Room, Evicted

\* The limiter's state and its answers keep their types.
THEOREM TypeCorrect == Spec => []TypeOK
<1>1. Init => TypeOK
  <2> SUFFICES ASSUME Init PROVE TypeOK
    OBVIOUS
  <2>1. entries \in [Peer -> Entry]
    BY DEF Init, NoEntry, Entry, Time
  <2>2. reply \in [peer : {"none"}]
    BY DEF Init
  <2> QED BY <2>1, <2>2, ConfigAssumption DEF Init, TypeOK, Time
<1>2. TypeOK /\ [Next]_vars => TypeOK'
  <2> SUFFICES ASSUME TypeOK, [Next]_vars PROVE TypeOK'
    OBVIOUS
  <2>1. CASE Advance
    BY <2>1, ConfigAssumption DEF Advance, TypeOK, Time
  <2>2. ASSUME NEW p \in Peer, NEW now \in Stamps, Check(p, now)
        PROVE  TypeOK'
    <3>1. now \in Time /\ now >= 1
      BY ConfigAssumption DEF Stamps, TypeOK, Time
    <3>2. /\ entries[p] \in Entry /\ FreshWindow(now) \in Entry
          /\ Room(now) \in [Peer -> Entry]
      BY <3>1, RoomType DEF TypeOK, FreshWindow, Entry, Time
    <3>3. CASE CheckTracked(p, now)
      BY <2>2, <3>1, <3>2, <3>3, TickedEntryType, DecisionType
        DEF Check, CheckTracked, TypeOK
    <3>4. CASE CheckNew(p, now)
      <4>1. /\ clock' \in Time /\ clock' >= StartTime /\ last_evict' \in Time
        BY <2>2, <3>1, <3>4 DEF Check, CheckNew, TypeOK
      <4>2. entries' \in [Peer -> Entry]
        BY <3>1, <3>2, <3>4, TickedEntryType DEF CheckNew
      <4>3. reply' \in [peer : Peer, at : Time, allow : BOOLEAN, retry : Nat]
        <5>1. Decision(p, FreshWindow(now), now) \in
                [peer : Peer, at : Time, allow : BOOLEAN, retry : Nat]
          BY <3>1, <3>2, DecisionType
        <5>2. Allow(p, now) \in [peer : Peer, at : Time, allow : BOOLEAN, retry : Nat]
          BY <3>1 DEF Allow
        <5>3. reply' = Allow(p, now) \/ reply' = Decision(p, FreshWindow(now), now)
          BY <3>4 DEF CheckNew
        <5> QED BY <5>1, <5>2, <5>3
      <4> QED BY <4>1, <4>2, <4>3 DEF TypeOK
    <3> QED BY <2>2, <3>3, <3>4 DEF Check
  <2>3. CASE UNCHANGED vars
    BY <2>3 DEF TypeOK, vars
  <2> QED BY <2>1, <2>2, <2>3 DEF Next
<1> QED BY <1>1, <1>2, PTL DEF Spec

-----------------------------------------------------------------------------
\* The map never outgrows MAX_ENTRIES.
THEOREM MapBounded == Spec => []Bounded
<1> USE PeerAssumption
<1>0. \A e : IsFiniteSet(Tracked(e)) /\ Cardinality(Tracked(e)) \in Nat
  <2> TAKE e
  <2>1. Tracked(e) \subseteq Peer
    BY DEF Tracked
  <2> QED BY <2>1, FS_Subset, FS_CardinalityType
<1>1. Init => Bounded
  <2> SUFFICES ASSUME Init PROVE Bounded
    OBVIOUS
  <2>1. Tracked(entries) = {}
    BY DEF Init, Tracked
  <2> QED BY <2>1, FS_EmptySet, ConfigAssumption DEF Bounded
<1>2. Bounded /\ TypeOK /\ [Next]_vars => Bounded'
  <2> SUFFICES ASSUME Bounded, TypeOK, [Next]_vars PROVE Bounded'
    OBVIOUS
  <2>1. CASE UNCHANGED entries
    BY <2>1 DEF Bounded, Tracked
  <2>2. ASSUME NEW p \in Peer, NEW now \in Stamps, Check(p, now)
        PROVE  Bounded'
    <3>1. now \in Time
      BY ConfigAssumption DEF Stamps, TypeOK, Time
    <3>2. /\ Room(now) \in [Peer -> Entry]
          /\ Tracked(Room(now)) \subseteq Tracked(entries)
      BY <3>1, RoomType DEF TypeOK
    <3>3. CASE CheckTracked(p, now)
      <4>1. Tracked(entries') \subseteq Tracked(entries)
        BY <3>3 DEF CheckTracked, Tracked, TypeOK
      <4>2. Cardinality(Tracked(entries')) <= Cardinality(Tracked(entries))
        BY <1>0, <4>1, FS_Subset
      <4> QED BY <1>0, <4>2, ConfigAssumption DEF Bounded, Tracked
    <3>4. CASE CheckNew(p, now) /\ Full(Room(now))
      <4>1. Cardinality(Tracked(Room(now))) <= Cardinality(Tracked(entries))
        BY <1>0, <3>2, FS_Subset
      <4>2. entries' = Room(now)
        BY <3>4 DEF CheckNew
      <4> QED BY <1>0, <4>1, <4>2, ConfigAssumption DEF Bounded, Tracked
    <3>5. CASE CheckNew(p, now) /\ ~ Full(Room(now))
      <4>1. Cardinality(Tracked(Room(now))) + 1 <= MaxEntries
        BY <1>0, <3>5, ConfigAssumption DEF Full
      <4>2. entries' = [Room(now) EXCEPT ![p] = TickedEntry(FreshWindow(now), now)]
        BY <3>5 DEF CheckNew
      <4>3. Tracked(entries') \subseteq Tracked(Room(now)) \cup {p}
        BY <3>2, <4>2 DEF Tracked
      <4>4. /\ IsFiniteSet(Tracked(Room(now)) \cup {p})
            /\ Cardinality(Tracked(Room(now)) \cup {p}) <= MaxEntries
        <5>1. IsFiniteSet(Tracked(Room(now))) /\ Cardinality(Tracked(Room(now))) \in Nat
          BY <1>0
        <5>2. /\ IsFiniteSet(Tracked(Room(now)) \cup {p})
              /\ \/ Cardinality(Tracked(Room(now)) \cup {p}) = Cardinality(Tracked(Room(now)))
                 \/ Cardinality(Tracked(Room(now)) \cup {p}) = Cardinality(Tracked(Room(now))) + 1
          BY <5>1, FS_AddElement
        <5> QED BY <4>1, <5>1, <5>2, ConfigAssumption
      <4>5. Cardinality(Tracked(entries')) <= Cardinality(Tracked(Room(now)) \cup {p})
        BY <4>3, <4>4, FS_Subset
      <4>6. Cardinality(Tracked(Room(now)) \cup {p}) \in Nat
        BY <4>4, FS_CardinalityType
      <4> QED BY <1>0, <4>4, <4>5, <4>6, ConfigAssumption DEF Bounded, Tracked
    <3> QED BY <2>2, <3>3, <3>4, <3>5 DEF Check
  <2> QED BY <2>1, <2>2 DEF Next, Advance, vars
<1> QED BY <1>1, <1>2, TypeCorrect, PTL DEF Spec

-----------------------------------------------------------------------------
\* The results below need the sum now + ban_secs to stay below 2^64.
NoWrap == StartTime <= MaxTime /\ MaxTime + BanSecs < WordSize

GoodEntry(e) ==
    /\ e.count \in 1 .. Requests + 1
    /\ e.banned_until # 0 <=> e.count = Requests + 1

\* The inductive form of BanMatchesCount: the clock's bound is what keeps the
\* end of a ban from wrapping round to 0.
BanInv ==
    /\ TypeOK
    /\ clock <= MaxTime
    /\ \A p \in Peer : entries[p] # NoEntry => GoodEntry(entries[p])

\* tick turns a good entry, or a window just opened, into a good entry.
LEMMA TickKeepsGood ==
    ASSUME NoWrap, NEW e \in Entry, NEW now \in Time, now >= 1, now <= MaxTime,
           GoodEntry(e) \/ e = FreshWindow(now)
    PROVE  GoodEntry(TickedEntry(e, now))
<1>1. CASE Banned(e, now)
  BY <1>1 DEF Banned, FreshWindow, TickedEntry, Time
<1>2. CASE ~ Banned(e, now)
  <2> DEFINE w == OpenWindow(e, now)
  <2>1. (now + BanSecs) % WordSize = now + BanSecs
    BY ConfigAssumption DEF NoWrap, Time
  <2>2. w.count \in 0 .. Requests /\ w.banned_until = 0
    BY ConfigAssumption DEF OpenWindow, WindowOver, FreshWindow, GoodEntry, Entry, Time
  <2>3. TickedEntry(e, now) =
          [window_start |-> w.window_start, count |-> w.count + 1,
           banned_until |-> IF w.count + 1 > Requests THEN now + BanSecs
                                                      ELSE w.banned_until]
    BY <1>2, <2>1 DEF TickedEntry, CountedEntry
  <2> HIDE DEF w
  <2>4. /\ TickedEntry(e, now).count = w.count + 1
        /\ TickedEntry(e, now).banned_until =
             IF w.count + 1 > Requests THEN now + BanSecs ELSE 0
    BY <2>2, <2>3
  <2> QED BY <2>2, <2>4, ConfigAssumption DEF GoodEntry, Time
<1> QED BY <1>1, <1>2

\* What a check does to the map, whichever of its branches it takes: the peer
\* is counted, or left alone, and any other peer is kept or evicted as stale.
LEMMA CheckEffect ==
    ASSUME TypeOK, NEW p \in Peer, NEW now \in Stamps, Check(p, now)
    PROVE  \A q \in Peer :
              \/ entries'[q] = entries[q]
              \/ entries'[q] = NoEntry
              \/ /\ q = p /\ entries[p] # NoEntry
                 /\ entries'[q] = TickedEntry(entries[p], now)
              \/ /\ q = p /\ entries[p] = NoEntry
                 /\ entries'[q] = TickedEntry(FreshWindow(now), now)
<1>1. CASE CheckTracked(p, now)
  BY <1>1 DEF CheckTracked, TypeOK
<1>2. CASE CheckNew(p, now)
  <2>1. /\ Room(now) \in [Peer -> Entry]
        /\ \A q \in Peer : Room(now)[q] \in {entries[q], NoEntry}
    <3>1. now \in Time
      BY ConfigAssumption DEF Stamps, TypeOK, Time
    <3>2. Room(now) \in [Peer -> Entry]
      BY <3>1, RoomType DEF TypeOK
    <3> QED BY <3>2 DEF Room, Evicted
  <2> QED BY <1>2, <2>1 DEF CheckNew
<1> QED BY <1>1, <1>2 DEF Check

\* Every step keeps the bans and the counts in agreement.
LEMMA BanInvStep == ASSUME NoWrap PROVE BanInv /\ TypeOK' /\ [Next]_vars => BanInv'
<1> SUFFICES ASSUME BanInv, TypeOK', [Next]_vars PROVE BanInv'
  OBVIOUS
<1>1. CASE Advance
  BY <1>1, ConfigAssumption DEF Advance, BanInv, TypeOK, Time
<1>2. ASSUME NEW p \in Peer, NEW now \in Stamps, Check(p, now)
      PROVE  BanInv'
  <2>1. now \in Time /\ now >= 1 /\ now <= MaxTime
    BY ConfigAssumption DEF Stamps, BanInv, TypeOK, Time
  <2>2. FreshWindow(now) \in Entry /\ entries[p] \in Entry
    BY <2>1 DEF FreshWindow, Entry, Time, BanInv, TypeOK
  <2>3. entries[p] # NoEntry => GoodEntry(TickedEntry(entries[p], now))
    BY <2>1, <2>2, TickKeepsGood DEF BanInv
  <2>4. GoodEntry(TickedEntry(FreshWindow(now), now))
    BY <2>1, <2>2, TickKeepsGood
  <2>5. \A q \in Peer : entries'[q] # NoEntry => GoodEntry(entries'[q])
    BY <1>2, <2>3, <2>4, CheckEffect DEF BanInv
  <2> QED BY <1>2, <2>5 DEF BanInv, Check
<1>3. CASE UNCHANGED vars
  BY <1>3 DEF BanInv, vars
<1> QED BY <1>1, <1>2, <1>3 DEF Next

LEMMA BanInvariant == ASSUME NoWrap PROVE Spec => []BanInv
<1>1. Init => BanInv
  <2> SUFFICES ASSUME Init PROVE BanInv
    OBVIOUS
  <2>1. TypeOK
    <3>1. entries \in [Peer -> Entry]
      BY DEF Init, NoEntry, Entry, Time
    <3>2. reply \in [peer : {"none"}]
      BY DEF Init
    <3> QED BY <3>1, <3>2, ConfigAssumption DEF Init, TypeOK, Time
  <2> QED BY <2>1, ConfigAssumption DEF Init, BanInv, NoWrap
<1>2. BanInv /\ TypeOK' /\ [Next]_vars => BanInv'
  BY BanInvStep
<1> QED BY <1>1, <1>2, TypeCorrect, PTL DEF Spec

\* A ban and the count that caused it never disagree.
THEOREM BanMatches == ASSUME NoWrap PROVE Spec => []BanMatchesCount
<1>1. BanInv => BanMatchesCount
  BY DEF BanInv, BanMatchesCount, GoodEntry, Tracked
<1> QED BY <1>1, BanInvariant, PTL

-----------------------------------------------------------------------------
\* The limiter with timestamps in order implements the quota table.  Beyond
\* BanInv the proof needs to know that no entry is from the future, and that
\* nothing stale is left in the second in which an eviction ran: that is why
\* a throttled eviction loses nothing.
InOrder == MaxSkew = 0 /\ WindowSecs >= 1 /\ NoWrap

OrderInv ==
    /\ BanInv
    /\ clock >= 1
    /\ last_evict <= clock
    /\ \A p \in Peer : entries[p].window_start <= clock
    /\ last_evict = clock =>
          \A p \in Peer : entries[p] # NoEntry => ~ Stale(entries[p], clock)

\* An entry as its quota, and an absent one.
AsQuota(e) == [start |-> e.window_start, used |-> e.count, until |-> e.banned_until]

LEMMA QuotaNotIdle ==
    ASSUME NEW e \in Entry, NEW t \in Time, GoodEntry(e), ~ Stale(e, t)
    PROVE  QuotaOf(e, t) = AsQuota(e) /\ AsQuota(e) # QT!Idle
<1>1. e # NoEntry
  BY ConfigAssumption DEF GoodEntry, NoEntry
<1>2. AsQuota(e).used # QT!Idle.used
  BY ConfigAssumption DEF AsQuota, GoodEntry, QT!Idle
<1> QED BY <1>1, <1>2 DEF QuotaOf, AsQuota

LEMMA QuotaIdle ==
    ASSUME NEW e, NEW t, e = NoEntry \/ Stale(e, t)
    PROVE  QuotaOf(e, t) = QT!Idle
BY DEF QuotaOf, QT!Idle

\* A request just counted at the present second is remembered.
LEMMA TickedNotStale ==
    ASSUME WindowSecs >= 1, NEW e \in Entry, NEW now \in Time, e.window_start <= now
    PROVE  /\ ~ Stale(TickedEntry(e, now), now)
           /\ TickedEntry(e, now).window_start <= now
<1>1. CASE Banned(e, now)
  BY <1>1 DEF TickedEntry, Banned, Stale, Entry, Time
<1>2. CASE ~ Banned(e, now)
  <2>1. TickedEntry(e, now).window_start = OpenWindow(e, now).window_start
    BY <1>2 DEF TickedEntry, CountedEntry
  <2>2. CASE WindowOver(e, now)
    BY <2>1, <2>2, ConfigAssumption DEF OpenWindow, FreshWindow, Stale, Elapsed, Time
  <2>3. CASE ~ WindowOver(e, now)
    BY <2>1, <2>3, ConfigAssumption
      DEF OpenWindow, WindowOver, Stale, Elapsed, Entry, Time
  <2> QED BY <2>2, <2>3
<1> QED BY <1>1, <1>2

\* In the second of an eviction, and after one that is due, only entries that
\* matter are left: with timestamps in order a full map means full of them.
LEMMA FullOfLive ==
    ASSUME InOrder, OrderInv, Full(Room(clock)), NEW q \in Peer
    PROVE  /\ Room(clock)[q] # NoEntry => ~ Stale(Room(clock)[q], clock)
           /\ Room(clock)[q] # NoEntry <=> (entries[q] # NoEntry /\ ~ Stale(entries[q], clock))
<1>1. entries \in [Peer -> Entry] /\ clock \in Nat /\ last_evict \in Nat
  BY DEF OrderInv, BanInv, TypeOK, Time
<1>2. Room(clock) = Evicted(clock)
  BY DEF Room
<1>3. CASE EvictDue(clock)
  BY <1>1, <1>2, <1>3 DEF Evicted
<1>4. CASE ~ EvictDue(clock)
  <2>1. last_evict = clock
    BY <1>1, <1>4 DEF EvictDue, OrderInv
  <2> QED BY <1>1, <1>2, <1>4, <2>1 DEF Evicted, OrderInv
<1> QED BY <1>3, <1>4

\* Eviction, or its absence, is invisible in the quotas.
LEMMA RoomSameQuota ==
    ASSUME OrderInv, NEW q \in Peer
    PROVE  QuotaOf(Room(clock)[q], clock) = QuotaOf(entries[q], clock)
<1>1. entries \in [Peer -> Entry]
  BY DEF OrderInv, BanInv, TypeOK
<1>2. \/ Room(clock)[q] = entries[q]
      \/ Room(clock)[q] = NoEntry /\ Stale(entries[q], clock)
  BY <1>1 DEF Room, Evicted
<1> QED BY <1>2, QuotaIdle

\* OrderInv holds of every reachable state when timestamps are in order.
LEMMA OrderInvariant == ASSUME InOrder PROVE Spec => []OrderInv
<1>1. Init => OrderInv
  <2> SUFFICES ASSUME Init PROVE OrderInv
    OBVIOUS
  <2>1. \A p \in Peer : entries[p] = NoEntry
    BY DEF Init
  <2>2. BanInv
    <3>1. entries \in [Peer -> Entry]
      BY DEF Init, NoEntry, Entry, Time
    <3>2. reply \in [peer : {"none"}]
      BY DEF Init
    <3> QED BY <2>1, <3>1, <3>2, ConfigAssumption
          DEF Init, BanInv, TypeOK, Time, InOrder, NoWrap
  <2> QED BY <2>1, <2>2, ConfigAssumption DEF Init, OrderInv, NoEntry
<1>2. OrderInv /\ BanInv' /\ [Next]_vars => OrderInv'
  <2> SUFFICES ASSUME OrderInv, BanInv', [Next]_vars PROVE OrderInv'
    OBVIOUS
  <2>0. /\ entries \in [Peer -> Entry] /\ entries' \in [Peer -> Entry]
        /\ clock \in Nat /\ clock >= 1 /\ last_evict \in Nat /\ last_evict <= clock
    BY DEF OrderInv, BanInv, TypeOK, Time
  <2>1. CASE Advance
    <3>1. \A p \in Peer : entries[p].window_start \in Nat
      BY <2>0 DEF Entry, Time
    <3> QED BY <2>0, <2>1, <3>1 DEF Advance, OrderInv
  <2>2. ASSUME NEW p \in Peer, NEW now \in Stamps, Check(p, now)
        PROVE  OrderInv'
    <3>1. now = clock
      BY <2>0 DEF Stamps, InOrder
    <3>2. /\ FreshWindow(clock) \in Entry /\ entries[p] \in Entry
          /\ FreshWindow(clock).window_start <= clock /\ entries[p].window_start <= clock
      BY <2>0 DEF FreshWindow, Entry, Time, OrderInv
    <3>3. /\ ~ Stale(TickedEntry(FreshWindow(clock), clock), clock)
          /\ ~ Stale(TickedEntry(entries[p], clock), clock)
          /\ TickedEntry(FreshWindow(clock), clock).window_start <= clock
          /\ TickedEntry(entries[p], clock).window_start <= clock
      BY <2>0, <3>2, TickedNotStale DEF InOrder, Time
    <3>4. clock' = clock
      BY <2>2 DEF Check
    <3>5. \A q \in Peer : entries'[q].window_start <= clock'
      <4>1. NoEntry.window_start <= clock
        BY <2>0 DEF NoEntry
      <4> QED BY <2>2, <3>1, <3>3, <3>4, <4>1, CheckEffect DEF OrderInv, BanInv
    <3>6. CASE last_evict' = last_evict
      <4>1. last_evict' = clock' =>
              \A q \in Peer : entries'[q] # NoEntry => ~ Stale(entries'[q], clock)
        BY <2>2, <3>1, <3>3, <3>4, <3>6, CheckEffect DEF OrderInv, BanInv
      <4> QED BY <2>0, <3>4, <3>5, <3>6, <4>1 DEF OrderInv
    <3>7. CASE last_evict' # last_evict
      <4>1. CheckNew(p, clock) /\ Full(entries) /\ EvictDue(clock) /\ last_evict' = clock
        BY <2>2, <3>1, <3>7 DEF Check, CheckTracked, CheckNew
      <4>2. \A q \in Peer : Room(clock)[q] # NoEntry => ~ Stale(Room(clock)[q], clock)
        BY <2>0, <4>1 DEF Room, Evicted
      <4>3. Room(clock) \in [Peer -> Entry]
        BY <2>0, RoomType DEF Time
      <4>4. \A q \in Peer : entries'[q] # NoEntry => ~ Stale(entries'[q], clock)
        BY <3>3, <4>1, <4>2, <4>3 DEF CheckNew
      <4> QED BY <2>0, <3>4, <3>5, <4>1, <4>4 DEF OrderInv
    <3> QED BY <3>6, <3>7
  <2>3. CASE UNCHANGED vars
    BY <2>3 DEF OrderInv, vars
  <2> QED BY <2>1, <2>2, <2>3 DEF Next
<1>3. Spec => []BanInv
  BY BanInvariant DEF InOrder
<1> QED BY <1>1, <1>2, <1>3, PTL DEF Spec

\* Counting a request of peer p is a step of the quota table, whether p was
\* remembered, forgotten or stale.
LEMMA CountedIsQuotaStep ==
    ASSUME InOrder, OrderInv, NEW p \in Peer, NEW e \in Entry,
           \/ e = entries[p] /\ e # NoEntry
           \/ e = FreshWindow(clock) /\ entries[p] = NoEntry,
           clock' = clock,
           reply' = Decision(p, e, clock),
           entries' \in [Peer -> Entry],
           entries'[p] = TickedEntry(e, clock),
           \A q \in Peer \ {p} :
              QuotaOf(entries'[q], clock) = QuotaOf(entries[q], clock)
    PROVE  QT!Refuse(p) \/ QT!Grant(p) \/ QT!Ban(p)
<1> DEFINE quota == [q \in Peer |-> QuotaOf(entries[q], clock)]
           quota2 == [q \in Peer |-> QuotaOf(entries'[q], clock)]
<1>0. /\ entries \in [Peer -> Entry] /\ clock \in Nat /\ clock >= 1 /\ clock <= MaxTime
      /\ e.window_start \in Nat /\ e.count \in Nat /\ e.banned_until \in Nat
      /\ e.window_start <= clock
      /\ e = entries[p] => GoodEntry(e)
      /\ WindowSecs \in Nat /\ WindowSecs >= 1
      /\ Requests \in Nat /\ BanSecs \in Nat
      /\ (clock + BanSecs) % WordSize = clock + BanSecs
  <2>1. entries \in [Peer -> Entry] /\ clock \in Nat /\ clock >= 1 /\ clock <= MaxTime
    BY DEF OrderInv, BanInv, TypeOK, Time
  <2>2. e.window_start \in Nat /\ e.count \in Nat /\ e.banned_until \in Nat
    BY DEF Entry, Time
  <2>3. e.window_start <= clock /\ (e = entries[p] /\ e # NoEntry => GoodEntry(e))
    BY <2>1 DEF OrderInv, BanInv, FreshWindow
  <2>4. e # NoEntry
    BY <2>1 DEF FreshWindow, NoEntry
  <2>5. (clock + BanSecs) % WordSize = clock + BanSecs
    BY <2>1, ConfigAssumption DEF InOrder, NoWrap
  <2> QED BY <2>1, <2>2, <2>3, <2>4, <2>5, ConfigAssumption DEF InOrder
<1>1. GoodEntry(TickedEntry(e, clock)) /\ TickedEntry(e, clock) \in Entry
  BY <1>0, TickKeepsGood, TickedEntryType DEF InOrder, Time
<1>2. ~ Stale(TickedEntry(e, clock), clock)
  BY <1>0, TickedNotStale DEF Time
<1>3. quota2[p] = AsQuota(TickedEntry(e, clock))
  BY <1>0, <1>1, <1>2, QuotaNotIdle DEF Time
<1>4. quota2 = [quota EXCEPT ![p] = quota2[p]]
  OBVIOUS
<1>5. CASE Banned(e, clock)
  <2>1. e = entries[p] /\ GoodEntry(e) /\ ~ Stale(e, clock)
    BY <1>0, <1>5 DEF Banned, FreshWindow, Stale
  <2>2. quota[p] = AsQuota(e)
    BY <1>0, <2>1, QuotaNotIdle DEF Time
  <2>3. quota2[p] = quota[p] /\ quota2 = quota
    BY <1>3, <1>4, <1>5, <2>2 DEF TickedEntry
  <2>4. /\ clock < quota[p].until
        /\ reply' = [peer |-> p, at |-> clock, allow |-> FALSE,
                     retry |-> quota[p].until - clock]
    <3>1. quota[p].until = e.banned_until
      BY <2>2 DEF AsQuota
    <3>2. reply' = Deny(p, clock, e.banned_until - clock)
      BY <1>5 DEF Decision, Refused, RetryAfter
    <3> QED BY <1>5, <3>1, <3>2 DEF Banned, Deny
  <2> QED BY <2>3, <2>4 DEF QT!Refuse, QT!Answer
<1>6. CASE ~ Banned(e, clock)
  <2> DEFINE w == OpenWindow(e, clock)
             aw == QT!Window(p)
  <2>1. clock >= quota[p].until
    <3>1. CASE quota[p] = QT!Idle
      BY <1>0, <3>1 DEF QT!Idle
    <3>2. CASE quota[p] = AsQuota(e)
      BY <1>0, <1>6, <3>2 DEF AsQuota, Banned
    <3> QED BY <1>0, <3>1, <3>2, QuotaIdle, QuotaNotIdle DEF Time
  <2>2. aw = AsQuota(w)
    <3>1. CASE quota[p] = QT!Idle
      <4>1. WindowOver(e, clock) \/ e = FreshWindow(clock)
        <5>1. CASE e = entries[p] /\ e # NoEntry
          <6>1. Stale(e, clock)
            BY <1>0, <3>1, <5>1, QuotaNotIdle DEF Time
          <6> QED BY <6>1 DEF Stale, WindowOver
        <5> QED BY <5>1
      <4> QED BY <3>1, <4>1
            DEF QT!Window, OpenWindow, FreshWindow, AsQuota
    <3>2. CASE quota[p] # QT!Idle
      <4>1. e = entries[p] /\ ~ Stale(e, clock)
        BY <3>2, QuotaIdle
      <4>2. quota[p] = AsQuota(e)
        BY <1>0, <4>1, QuotaNotIdle DEF Time
      <4>3. ~ (Elapsed(clock, e.window_start) >= WindowSecs)
        BY <1>0, <1>6, <4>1 DEF Stale, Banned
      <4>4. WindowOver(e, clock) <=> quota[p].until # 0
        BY <4>2, <4>3 DEF WindowOver, AsQuota
      <4> QED BY <3>2, <4>2, <4>4
            DEF QT!Window, OpenWindow, FreshWindow, AsQuota
    <3> QED BY <3>1, <3>2
  <2>3. w.count \in 0 .. Requests /\ w.banned_until = 0
    BY <1>0 DEF OpenWindow, WindowOver, FreshWindow, GoodEntry
  <2>4. TickedEntry(e, clock) =
          [window_start |-> w.window_start, count |-> w.count + 1,
           banned_until |-> IF w.count + 1 > Requests THEN clock + BanSecs
                                                      ELSE w.banned_until]
    BY <1>0, <1>6 DEF TickedEntry, CountedEntry
  <2>5. CountedEntry(e, clock).count = w.count + 1
    BY DEF CountedEntry
  <2>6. aw.start = w.window_start /\ aw.used = w.count
    BY <2>2 DEF AsQuota
  <2> HIDE DEF w, aw
  <2>7. CASE w.count + 1 > Requests
    <3>1. quota2[p] = QT!Used(aw, clock + BanSecs)
      BY <1>3, <2>4, <2>6, <2>7 DEF AsQuota, QT!Used
    <3>2. reply' = [peer |-> p, at |-> clock, allow |-> FALSE, retry |-> BanSecs]
      BY <1>6, <2>5, <2>7 DEF Decision, Refused, RetryAfter, Deny
    <3>3. aw.used >= Requests
      BY <1>0, <2>3, <2>6, <2>7
    <3> QED BY <1>4, <2>1, <3>1, <3>2, <3>3 DEF QT!Ban, QT!Answer, aw
  <2>8. CASE ~ (w.count + 1 > Requests)
    <3>1. quota2[p] = QT!Used(aw, 0)
      BY <1>3, <2>3, <2>4, <2>6, <2>8 DEF AsQuota, QT!Used
    <3>2. reply' = [peer |-> p, at |-> clock, allow |-> TRUE, retry |-> 0]
      BY <1>6, <2>5, <2>8 DEF Decision, Refused, Allow
    <3>3. aw.used < Requests
      BY <1>0, <2>3, <2>6, <2>8
    <3> QED BY <1>4, <2>1, <3>1, <3>2, <3>3 DEF QT!Grant, QT!Answer, aw
  <2> QED BY <2>7, <2>8
<1> QED BY <1>5, <1>6

\* A newcomer that finds no room passes as an overflow of the quota table.
LEMMA FullIsQuotaOverflow ==
    ASSUME InOrder, OrderInv, NEW p \in Peer, Full(Room(clock)), CheckNew(p, clock),
           clock' = clock
    PROVE  QT!Overflow(p)
<1> DEFINE quota == [q \in Peer |-> QuotaOf(entries[q], clock)]
<1>1. entries \in [Peer -> Entry] /\ clock \in Time
  BY DEF OrderInv, BanInv, TypeOK
<1>2. /\ entries[p] = NoEntry /\ entries' = Room(clock) /\ reply' = Allow(p, clock)
  BY DEF CheckNew
<1>3. \A q \in Peer : Room(clock)[q] # NoEntry <=> quota[q] # QT!Idle
  <2> TAKE q \in Peer
  <2>1. Room(clock)[q] # NoEntry <=> (entries[q] # NoEntry /\ ~ Stale(entries[q], clock))
    BY FullOfLive
  <2>2. CASE entries[q] # NoEntry /\ ~ Stale(entries[q], clock)
    <3>1. GoodEntry(entries[q])
      BY <2>2 DEF OrderInv, BanInv
    <3> QED BY <1>1, <2>1, <2>2, <3>1, QuotaNotIdle
  <2>3. CASE ~ (entries[q] # NoEntry /\ ~ Stale(entries[q], clock))
    BY <2>1, <2>3, QuotaIdle
  <2> QED BY <2>2, <2>3
<1>4. Tracked(Room(clock)) = {q \in Peer : quota[q] # QT!Idle}
  BY <1>3 DEF Tracked
<1>5. quota[p] = QT!Idle
  BY <1>2, QuotaIdle
<1>6. [q \in Peer |-> QuotaOf(entries'[q], clock')] = quota
  BY <1>2, RoomSameQuota
<1> HIDE DEF quota
<1>7. Cardinality({q \in Peer : quota[q] # QT!Idle}) >= MaxEntries
  BY <1>4 DEF Full
<1>8. reply' = [peer |-> p, at |-> clock, allow |-> TRUE, retry |-> 0]
  BY <1>2 DEF Allow
<1>9. QT!Answer(p, TRUE, 0)
  BY <1>8 DEF QT!Answer
<1>10. UNCHANGED <<clock, quota>>
  BY <1>6 DEF quota
<1> USE DEF quota
<1>11. QT!Cardinality({q \in Peer : quota[q] # QT!Idle}) >= MaxEntries
  BY <1>7 DEF Cardinality, QT!Cardinality
<1> QED BY <1>5, <1>9, <1>10, <1>11, Zenon DEF QT!Overflow

\* The clock moves the quotas exactly as the entries age.
LEMMA AdvanceIsQuotaStep ==
    ASSUME InOrder, OrderInv, Advance
    PROVE  QT!Advance
<1>1. /\ entries \in [Peer -> Entry] /\ clock \in Nat /\ clock' = clock + 1
      /\ entries' = entries /\ clock < MaxTime /\ reply' = reply
      /\ WindowSecs \in Nat /\ WindowSecs >= 1
  BY ConfigAssumption DEF Advance, OrderInv, BanInv, TypeOK, Time, InOrder
<1>2. ASSUME NEW p \in Peer
      PROVE  QuotaOf(entries'[p], clock') =
                QT!Forget(QuotaOf(entries[p], clock), clock')
  <2> DEFINE e == entries[p]
  <2>1. /\ e.window_start \in Nat /\ e.banned_until \in Nat
        /\ e.window_start <= clock
    BY <1>1 DEF Entry, Time, OrderInv
  <2>2. Stale(e, clock) => Stale(e, clock')
    BY <1>1, <2>1 DEF Stale, Elapsed
  <2>3. QT!Live(AsQuota(e), clock') <=> ~ Stale(e, clock')
    BY <1>1, <2>1 DEF Stale, Elapsed, QT!Live, AsQuota
  <2>4. CASE e = NoEntry \/ Stale(e, clock)
    BY <1>1, <2>2, <2>4, QuotaIdle DEF QT!Forget
  <2>5. CASE e # NoEntry /\ ~ Stale(e, clock)
    <3>1. GoodEntry(e) /\ e \in Entry
      BY <1>1, <2>5 DEF OrderInv, BanInv
    <3>2. QuotaOf(e, clock) = AsQuota(e) /\ AsQuota(e) # QT!Idle
      BY <1>1, <2>5, <3>1, QuotaNotIdle DEF Time
    <3>3. CASE Stale(e, clock')
      <4>1. QuotaOf(e, clock') = QT!Idle
        BY <3>3, QuotaIdle
      <4>2. ~ QT!Live(QuotaOf(e, clock), clock')
        BY <2>3, <3>2, <3>3
      <4> QED BY <1>1, <4>1, <4>2 DEF QT!Forget
    <3>4. CASE ~ Stale(e, clock')
      <4>1. QuotaOf(e, clock') = AsQuota(e)
        BY <1>1, <3>1, <3>4, QuotaNotIdle DEF Time
      <4> QED BY <1>1, <2>3, <3>2, <3>4, <4>1 DEF QT!Forget
    <3> QED BY <3>3, <3>4
  <2> QED BY <2>4, <2>5
<1> QED BY <1>1, <1>2 DEF QT!Advance

\* With timestamps in order, the bounded map with its lazy, throttled eviction
\* implements the quota table.
THEOREM Refinement == ASSUME InOrder PROVE Spec => ImplementsQuotaTable
<1>1. Init => QT!Init
  <2> SUFFICES ASSUME Init PROVE QT!Init
    OBVIOUS
  <2>1. \A p \in Peer : QuotaOf(entries[p], clock) = QT!Idle
    BY QuotaIdle DEF Init
  <2> QED BY <2>1 DEF Init, QT!Init
<1>2. OrderInv /\ TypeOK' /\ [Next]_vars => [QT!Next]_(QT!vars)
  <2> SUFFICES ASSUME OrderInv, TypeOK', [Next]_vars
               PROVE  QT!Next \/ UNCHANGED QT!vars
    OBVIOUS
  <2>0. entries \in [Peer -> Entry] /\ entries' \in [Peer -> Entry] /\ clock \in Nat
    BY DEF OrderInv, BanInv, TypeOK, Time
  <2>1. CASE Advance
    BY <2>1, AdvanceIsQuotaStep DEF QT!Next
  <2>2. ASSUME NEW p \in Peer, NEW now \in Stamps, Check(p, now)
        PROVE  QT!Next
    <3>1. now = clock /\ clock' = clock
      BY <2>0, <2>2 DEF Stamps, InOrder, Check
    <3>2. CASE CheckTracked(p, clock)
      <4>1. /\ entries'[p] = TickedEntry(entries[p], clock)
            /\ \A q \in Peer \ {p} : entries'[q] = entries[q]
            /\ entries[p] # NoEntry /\ reply' = Decision(p, entries[p], clock)
        BY <2>0, <3>2 DEF CheckTracked
      <4>2. QT!Refuse(p) \/ QT!Grant(p) \/ QT!Ban(p)
        BY <2>0, <3>1, <4>1, CountedIsQuotaStep
      <4> QED BY <4>2 DEF QT!Next
    <3>3. CASE CheckNew(p, clock) /\ Full(Room(clock))
      BY <3>1, <3>3, FullIsQuotaOverflow DEF QT!Next
    <3>4. CASE CheckNew(p, clock) /\ ~ Full(Room(clock))
      <4>1. /\ entries' = [Room(clock) EXCEPT ![p] = TickedEntry(FreshWindow(clock), clock)]
            /\ entries[p] = NoEntry /\ reply' = Decision(p, FreshWindow(clock), clock)
        BY <3>4 DEF CheckNew
      <4>2. Room(clock) \in [Peer -> Entry]
        BY <2>0, RoomType DEF Time
      <4>3. \A q \in Peer \ {p} :
               QuotaOf(entries'[q], clock) = QuotaOf(entries[q], clock)
        BY <4>1, <4>2, RoomSameQuota
      <4>4. entries'[p] = TickedEntry(FreshWindow(clock), clock)
        BY <4>1, <4>2
      <4>5. FreshWindow(clock) \in Entry
        BY <2>0 DEF FreshWindow, Entry, Time
      <4>6. QT!Refuse(p) \/ QT!Grant(p) \/ QT!Ban(p)
        BY <2>0, <3>1, <4>1, <4>3, <4>4, <4>5, CountedIsQuotaStep
      <4> QED BY <4>6 DEF QT!Next
    <3> QED BY <2>2, <3>1, <3>2, <3>3, <3>4 DEF Check
  <2>3. CASE UNCHANGED vars
    BY <2>3 DEF vars, QT!vars
  <2> QED BY <2>1, <2>2, <2>3 DEF Next
<1>3. Spec => []OrderInv
  BY OrderInvariant
<1> QED BY <1>1, <1>2, <1>3, TypeCorrect, PTL
      DEF Spec, ImplementsQuotaTable, QT!Spec

-----------------------------------------------------------------------------
(* The history: what a check does to the peer that asks, and to the others. *)

\* A refusal leaves a ban that ends when the Retry-After says; a ban that runs
\* is told again; and one that is over, or forgotten, is not renewed at once.
LEMMA AnswerOfTick ==
    ASSUME NoWrap, NEW p \in Peer, NEW e \in Entry, NEW now \in Time, now >= 1, now <= MaxTime,
           GoodEntry(e) \/ e = FreshWindow(now)
    PROVE  LET answer == Decision(p, e, now)
           IN  /\ answer.allow \in BOOLEAN /\ answer.retry \in Nat
               /\ ~ answer.allow => TickedEntry(e, now).banned_until = now + answer.retry
               /\ e.banned_until > now => ~ answer.allow /\ now + answer.retry = e.banned_until
               /\ Requests > 0 /\ e.banned_until <= now /\ (e.banned_until # 0 \/ e.count = 0)
                    => answer.allow
<1> DEFINE answer == Decision(p, e, now)
           n == CountedEntry(e, now).count
<1>1. /\ e.banned_until \in Nat /\ e.count \in Nat /\ e.window_start \in Nat /\ now \in Nat
      /\ BanSecs \in Nat /\ Requests \in Nat
  BY ConfigAssumption DEF Entry, Time
<1>2. CASE Banned(e, now)
  <2>1. answer = Deny(p, now, e.banned_until - now) /\ TickedEntry(e, now) = e
    BY <1>2 DEF Decision, Refused, RetryAfter, TickedEntry
  <2>2. answer.allow = FALSE /\ answer.retry = e.banned_until - now
    BY <2>1 DEF Deny
  <2>3. e.banned_until > now
    BY <1>1, <1>2 DEF Banned
  <2> HIDE DEF answer
  <2>4. answer.retry \in Nat /\ now + answer.retry = e.banned_until /\ ~ (e.banned_until <= now)
    BY <1>1, <2>2, <2>3
  <2> QED BY <2>1, <2>2, <2>4 DEF answer
<1>3. CASE ~ Banned(e, now)
  <2> DEFINE w == OpenWindow(e, now)
  <2>1. ~ (e.banned_until > now)
    BY <1>1, <1>3 DEF Banned
  <2>2. (now + BanSecs) % WordSize = now + BanSecs
    BY <1>1, ConfigAssumption DEF NoWrap
  <2>3. w.count \in Nat /\ (e.banned_until # 0 \/ e.count = 0 => w.count = 0)
    BY <1>1 DEF OpenWindow, WindowOver, FreshWindow
  <2>4. /\ TickedEntry(e, now) = CountedEntry(e, now)
        /\ n = w.count + 1
        /\ w.count + 1 > Requests => CountedEntry(e, now).banned_until = now + BanSecs
    BY <1>3, <2>2 DEF TickedEntry, CountedEntry
  <2>5. answer = IF n > Requests THEN Deny(p, now, BanSecs) ELSE Allow(p, now)
    BY <1>3 DEF Decision, Refused, RetryAfter
  <2> HIDE DEF answer, w, n
  <2>6. CASE n > Requests
    <3>1. answer.allow = FALSE /\ answer.retry = BanSecs
      BY <2>5, <2>6 DEF Deny
    <3>2. ~ (Requests > 0 /\ (e.banned_until # 0 \/ e.count = 0))
      BY <1>1, <2>3, <2>4, <2>6
    <3> QED BY <1>1, <2>1, <2>4, <2>6, <3>1, <3>2 DEF answer
  <2>7. CASE ~ (n > Requests)
    <3>1. answer.allow = TRUE /\ answer.retry = 0
      BY <2>5, <2>7 DEF Allow
    <3>2. answer.allow
      BY <3>1, Zenon
    <3>3. answer.allow \in BOOLEAN
      BY <3>1, Zenon
    <3>4. answer.retry \in Nat
      <4>1. answer.retry = 0
        BY <3>1, Zenon
      <4> QED BY <4>1
    <3> QED BY <2>1, <3>2, <3>3, <3>4, Zenon DEF answer
  <2> QED BY <2>6, <2>7
<1> QED BY <1>2, <1>3

\* What a check does to the peer that asks, and to the others.
LEMMA CheckAnswer ==
    ASSUME NoWrap, BanInv, NEW p \in Peer, NEW now \in Stamps, Check(p, now)
    PROVE  /\ reply'.allow \in BOOLEAN /\ reply'.retry \in Nat
           /\ ~ reply'.allow => entries'[p].banned_until = now + reply'.retry
           /\ entries[p].banned_until > now =>
                 ~ reply'.allow /\ now + reply'.retry = entries[p].banned_until
           /\ Requests > 0 /\ entries[p].banned_until <= now
                /\ (entries[p].banned_until # 0 \/ entries[p] = NoEntry) => reply'.allow
           /\ \A q \in Peer \ {p} :
                 \/ entries'[q] = entries[q]
                 \/ entries'[q] = NoEntry /\ now >= entries[q].banned_until
<1>1. TypeOK /\ entries \in [Peer -> Entry] /\ entries[p] \in Entry
  BY DEF BanInv, TypeOK
<1>2. now \in Time /\ now >= 1 /\ now <= MaxTime
  BY ConfigAssumption DEF Stamps, BanInv, TypeOK, Time
<1>3. FreshWindow(now) \in Entry /\ FreshWindow(now).banned_until = 0 /\ FreshWindow(now).count = 0
  BY <1>2 DEF FreshWindow, Entry, Time
<1>4. NoEntry.banned_until = 0 /\ now > 0
  BY <1>2 DEF NoEntry, Time
<1>5. CASE CheckTracked(p, now)
  <2>1. /\ entries[p] # NoEntry /\ GoodEntry(entries[p])
        /\ reply' = Decision(p, entries[p], now)
        /\ entries'[p] = TickedEntry(entries[p], now)
        /\ \A q \in Peer \ {p} : entries'[q] = entries[q]
    BY <1>1, <1>5 DEF CheckTracked, BanInv
  <2> QED BY <1>1, <1>2, <2>1, AnswerOfTick
<1>6. CASE CheckNew(p, now)
  <2>1. Room(now) \in [Peer -> Entry]
    BY <1>1, <1>2, RoomType
  <2>2. \A q \in Peer : \/ Room(now)[q] = entries[q]
                        \/ Room(now)[q] = NoEntry /\ now >= entries[q].banned_until
    BY <1>1 DEF Room, Evicted, Stale
  <2>3. entries[p] = NoEntry /\ ~ (entries[p].banned_until > now)
    <3>1. entries[p] = NoEntry
      BY <1>6 DEF CheckNew
    <3>2. ~ (0 > now)
      BY <1>2 DEF Time
    <3> QED BY <1>4, <3>1, <3>2
  <2>4. CASE Full(Room(now))
    <3>1. entries' = Room(now) /\ reply' = Allow(p, now)
      BY <1>6, <2>4 DEF CheckNew
    <3>2. reply'.allow = TRUE /\ reply'.retry = 0
      BY <3>1 DEF Allow
    <3>3. reply'.allow /\ reply'.allow \in BOOLEAN
      BY <3>2, Zenon
    <3>4. reply'.retry \in Nat
      BY <3>2
    <3> QED BY <2>2, <2>3, <3>1, <3>3, <3>4, Zenon
  <2>5. CASE ~ Full(Room(now))
    <3>1. /\ entries' = [Room(now) EXCEPT ![p] = TickedEntry(FreshWindow(now), now)]
          /\ reply' = Decision(p, FreshWindow(now), now)
      BY <1>6, <2>5 DEF CheckNew
    <3>2. /\ entries'[p] = TickedEntry(FreshWindow(now), now)
          /\ \A q \in Peer \ {p} : entries'[q] = Room(now)[q]
      BY <2>1, <3>1
    <3>3. /\ reply'.allow \in BOOLEAN /\ reply'.retry \in Nat
          /\ ~ reply'.allow => entries'[p].banned_until = now + reply'.retry
          /\ Requests > 0 => reply'.allow
      <4> DEFINE w == FreshWindow(now)
      <4>1. w \in Entry /\ (GoodEntry(w) \/ w = FreshWindow(now)) /\ w.banned_until <= now /\ w.count = 0
        BY <1>2, <1>3 DEF Time
      <4>2. reply' = Decision(p, w, now) /\ entries'[p] = TickedEntry(w, now)
        BY <3>1, <3>2
      <4> HIDE DEF w
      <4> QED BY <1>2, <4>1, <4>2, AnswerOfTick
    <3> QED BY <2>2, <2>3, <3>2, <3>3, Zenon
  <2> QED BY <2>4, <2>5
<1> QED BY <1>5, <1>6 DEF Check

LogEntry == [peer : Peer, at : Nat \ {0}, allow : BOOLEAN, retry : Nat, counted : BOOLEAN]

\* The latest answer its peer was given.
Latest(i) == \A k \in i + 1 .. Len(log) : log[k].peer # log[i].peer

\* What is left in the map of a refusal: the ban it announced, or nothing once
\* a check has carried a time past its end.
BanLeft ==
    \A i \in DOMAIN log : Latest(i) /\ ~ log[i].allow =>
        /\ entries[log[i].peer] = NoEntry \/ entries[log[i].peer].banned_until = BanEnd(i)
        /\ (\A k \in i .. Len(log) : log[k].at < BanEnd(i))
              => entries[log[i].peer].banned_until = BanEnd(i)

HistoryInv == log \in Seq(LogEntry) /\ BanLeft /\ BanIsKept /\ RetryAfterSuffices

\* What one more answer changes.
LEMMA LoggedFacts ==
    ASSUME NoWrap, BanInv, log \in Seq(LogEntry), NEW p \in Peer, NEW now \in Stamps, LoggedCheck(p, now)
    PROVE  /\ log' \in Seq(LogEntry) /\ Len(log) \in Nat
           /\ DOMAIN log = 1 .. Len(log) /\ DOMAIN log' = 1 .. Len(log) + 1 /\ Len(log') = Len(log) + 1
           /\ \A i \in 1 .. Len(log) : log'[i] = log[i] /\ log[i] \in LogEntry
           /\ log'[Len(log) + 1].peer = p /\ log'[Len(log) + 1].at = now
           /\ log'[Len(log) + 1].allow = reply'.allow /\ log'[Len(log) + 1].retry = reply'.retry
           /\ log'[Len(log) + 1].counted = (entries'[p] # NoEntry)
           /\ now \in Nat
<1> DEFINE a == [peer |-> p, at |-> now, allow |-> reply'.allow, retry |-> reply'.retry,
                 counted |-> entries'[p] # NoEntry]
<1>1. Check(p, now) /\ log' = Append(log, a)
  BY DEF LoggedCheck
<1>2. reply'.allow \in BOOLEAN /\ reply'.retry \in Nat
  BY <1>1, CheckAnswer
<1>3. now \in Nat \ {0}
  BY ConfigAssumption DEF Stamps, BanInv, TypeOK, Time
<1>4. a \in LogEntry
  BY <1>2, <1>3 DEF LogEntry
<1>5. /\ a.peer = p /\ a.at = now /\ a.allow = reply'.allow /\ a.retry = reply'.retry
      /\ a.counted = (entries'[p] # NoEntry)
  OBVIOUS
<1> HIDE DEF a
<1>6. /\ log' \in Seq(LogEntry) /\ Len(log') = Len(log) + 1 /\ log'[Len(log) + 1] = a
      /\ \A i \in 1 .. Len(log) : log'[i] = log[i]
  BY <1>1, <1>4, AppendProperties
<1>7. Len(log) \in Nat /\ DOMAIN log = 1 .. Len(log) /\ DOMAIN log' = 1 .. Len(log')
  BY <1>6, LenProperties
<1>8. \A i \in 1 .. Len(log) : log[i] \in LogEntry
  BY ElementOfSeq
<1> QED BY <1>3, <1>5, <1>6, <1>7, <1>8

\* The new answer, compared with those its peer was given before.
LEMMA HistoryCheck ==
    ASSUME NoWrap, BanInv, HistoryInv, NEW p \in Peer, NEW now \in Stamps, LoggedCheck(p, now)
    PROVE  HistoryInv'
<1>1. log \in Seq(LogEntry) /\ BanLeft /\ BanIsKept /\ RetryAfterSuffices
  BY DEF HistoryInv
<1>2. PICK n \in Nat :
        /\ n = Len(log) /\ Len(log') = n + 1 /\ log' \in Seq(LogEntry)
        /\ DOMAIN log = 1 .. n /\ DOMAIN log' = 1 .. n + 1
        /\ \A i \in 1 .. n : log'[i] = log[i] /\ log[i] \in LogEntry
        /\ log'[n + 1].peer = p /\ log'[n + 1].at = now
        /\ log'[n + 1].allow = reply'.allow /\ log'[n + 1].retry = reply'.retry
        /\ now \in Nat
  BY <1>1, LoggedFacts
<1>3. Check(p, now)
  BY DEF LoggedCheck
<1>4. /\ reply'.allow \in BOOLEAN /\ reply'.retry \in Nat
      /\ ~ reply'.allow => entries'[p].banned_until = now + reply'.retry
      /\ entries[p].banned_until > now =>
            ~ reply'.allow /\ now + reply'.retry = entries[p].banned_until
      /\ Requests > 0 /\ entries[p].banned_until <= now
           /\ (entries[p].banned_until # 0 \/ entries[p] = NoEntry) => reply'.allow
      /\ \A q \in Peer \ {p} :
            \/ entries'[q] = entries[q]
            \/ entries'[q] = NoEntry /\ now >= entries[q].banned_until
  BY <1>3, CheckAnswer
<1>5. \A i \in 1 .. n + 1 : i \in 1 .. n \/ i = n + 1
  OBVIOUS
<1>6. \A i \in 1 .. n : BanEnd(i)' = BanEnd(i) /\ BanEnd(i) \in Nat \ {0} /\ log[i].peer \in Peer
  <2> TAKE i \in 1 .. n
  <2>1. log'[i] = log[i] /\ log[i] \in LogEntry
    BY <1>2
  <2> QED BY <2>1 DEF BanEnd, LogEntry
<1>7. BanEnd(n + 1)' = now + reply'.retry
  BY <1>2 DEF BanEnd
<1>8. ASSUME NEW i \in 1 .. n, log[i].peer = p, ~ log[i].allow,
             \A k \in i + 1 .. n : log[k].peer # p
      PROVE  /\ entries[p] = NoEntry \/ entries[p].banned_until = BanEnd(i)
             /\ (\A k \in i .. n : log[k].at < BanEnd(i)) => entries[p].banned_until = BanEnd(i)
  <2>1. i \in DOMAIN log /\ Latest(i)
    BY <1>2, <1>8 DEF Latest
  <2> QED BY <1>1, <1>2, <1>8, <2>1 DEF BanLeft
<1>9. BanLeft'
  <2> SUFFICES ASSUME NEW i \in DOMAIN log', Latest(i)', ~ log'[i].allow
               PROVE  /\ entries'[log'[i].peer] = NoEntry \/ entries'[log'[i].peer].banned_until = BanEnd(i)'
                      /\ (\A k \in i .. Len(log') : log'[k].at < BanEnd(i)')
                            => entries'[log'[i].peer].banned_until = BanEnd(i)'
    BY DEF BanLeft
  <2>1. CASE i = n + 1
    BY <1>2, <1>4, <1>7, <2>1
  <2>2. CASE i \in 1 .. n
    <3> DEFINE q == log[i].peer
    <3>1. \A k \in i + 1 .. n + 1 : log'[k].peer # q
      BY <1>2, <2>2 DEF Latest
    <3>2. n + 1 \in i + 1 .. n + 1 /\ \A k \in i + 1 .. n : k \in 1 .. n /\ k \in i + 1 .. n + 1
      BY <2>2
    <3>3. q \in Peer \ {p} /\ \A k \in i + 1 .. n : log[k].peer # q
      BY <1>2, <1>6, <2>2, <3>1, <3>2
    <3>4. i \in DOMAIN log /\ Latest(i) /\ ~ log[i].allow
      BY <1>2, <2>2, <3>3 DEF Latest
    <3>5. /\ entries[q] = NoEntry \/ entries[q].banned_until = BanEnd(i)
          /\ (\A k \in i .. n : log[k].at < BanEnd(i)) => entries[q].banned_until = BanEnd(i)
      BY <1>1, <1>2, <3>4 DEF BanLeft
    <3>6. \/ entries'[q] = entries[q]
          \/ entries'[q] = NoEntry /\ now >= entries[q].banned_until
      BY <1>4, <3>3
    <3>7. log'[i].peer = q /\ BanEnd(i)' = BanEnd(i)
      BY <1>2, <1>6, <2>2
    <3> HIDE DEF q
    <3>8. entries'[q] = NoEntry \/ entries'[q].banned_until = BanEnd(i)
      BY <3>5, <3>6
    <3>9. ASSUME \A k \in i .. n + 1 : log'[k].at < BanEnd(i)
          PROVE  entries'[q].banned_until = BanEnd(i)
      <4>1. now < BanEnd(i)
        <5>1. n + 1 \in i .. n + 1
          BY <2>2
        <5> QED BY <1>2, <3>9, <5>1
      <4>2. \A k \in i .. n : log[k].at < BanEnd(i)
        <5>1. \A k \in i .. n : k \in i .. n + 1 /\ k \in 1 .. n
          BY <2>2
        <5> QED BY <1>2, <3>9, <5>1
      <4>3. entries[q].banned_until = BanEnd(i)
        BY <3>5, <4>2
      <4>4. ~ (now >= entries[q].banned_until)
        BY <1>2, <1>6, <2>2, <4>1, <4>3
      <4> QED BY <3>6, <4>3, <4>4
    <3> QED BY <1>2, <3>7, <3>8, <3>9
  <2> QED BY <1>2, <1>5, <2>1, <2>2
<1>10. ASSUME NEW i \in 1 .. n + 1, NEW j \in 1 .. n + 1, NextOfRefused(i, j)'
       PROVE  /\ i \in 1 .. n /\ BanEnd(i)' = BanEnd(i) /\ BanEnd(i) \in Nat \ {0}
              /\ j \in 1 .. n => NextOfRefused(i, j)
              /\ j = n + 1 => /\ entries[p] = NoEntry \/ entries[p].banned_until = BanEnd(i)
                              /\ (\A k \in i .. n : log[k].at < BanEnd(i)) => entries[p].banned_until = BanEnd(i)
  <2>1. /\ i < j /\ log'[i].peer = log'[j].peer /\ ~ log'[i].allow
        /\ \A k \in i + 1 .. j - 1 : log'[k].peer # log'[i].peer
    BY <1>10 DEF NextOfRefused
  <2>2. i \in 1 .. n /\ log'[i] = log[i]
    <3>1. i \in 1 .. n
      BY <2>1
    <3> QED BY <1>2, <3>1
  <2>3. \A k \in i + 1 .. j - 1 : k \in 1 .. n /\ log[k].peer # log[i].peer
    <3>1. \A k \in i + 1 .. j - 1 : k \in 1 .. n
      BY <2>2
    <3> QED BY <1>2, <2>1, <2>2, <3>1
  <2>4. j \in 1 .. n => NextOfRefused(i, j)
    BY <1>2, <2>1, <2>2, <2>3 DEF NextOfRefused
  <2>5. ASSUME j = n + 1
        PROVE  /\ entries[p] = NoEntry \/ entries[p].banned_until = BanEnd(i)
               /\ (\A k \in i .. n : log[k].at < BanEnd(i)) => entries[p].banned_until = BanEnd(i)
    <3>1. log[i].peer = p /\ ~ log[i].allow
      BY <1>2, <2>1, <2>2, <2>5
    <3>2. \A k \in i + 1 .. n : log[k].peer # p
      <4>1. j - 1 = n
        BY <2>5
      <4> QED BY <2>3, <3>1, <4>1
    <3> QED BY <1>8, <2>2, <3>1, <3>2
  <2> QED BY <1>6, <2>2, <2>4, <2>5
<1>11. BanIsKept'
  <2> SUFFICES ASSUME NEW i \in DOMAIN log', NEW j \in DOMAIN log', NextOfRefused(i, j)',
                      \A k \in i .. j : log'[k].at < BanEnd(i)'
               PROVE  ~ log'[j].allow /\ BanEnd(j)' = BanEnd(i)'
    BY DEF BanIsKept
  <2>1. i \in 1 .. n /\ BanEnd(i)' = BanEnd(i) /\ BanEnd(i) \in Nat \ {0}
    BY <1>2, <1>10
  <2>2. \A k \in i .. j : k \in 1 .. n => log[k].at < BanEnd(i)
    BY <1>2, <2>1
  <2>3. CASE j \in 1 .. n
    <3>1. NextOfRefused(i, j)
      BY <1>2, <1>10, <2>3
    <3>2. \A k \in i .. j : log[k].at < BanEnd(i)
      BY <2>1, <2>2, <2>3
    <3>3. ~ log[j].allow /\ BanEnd(j) = BanEnd(i)
      BY <1>1, <1>2, <2>1, <2>3, <3>1, <3>2 DEF BanIsKept
    <3> QED BY <1>2, <1>6, <2>1, <2>3, <3>3
  <2>4. CASE j = n + 1
    <3>1. \A k \in i .. n : log[k].at < BanEnd(i)
      BY <2>1, <2>2, <2>4
    <3>2. entries[p].banned_until = BanEnd(i)
      BY <1>2, <1>10, <2>4, <3>1
    <3>3. now < BanEnd(i)
      <4>1. n + 1 \in i .. j
        BY <2>1, <2>4
      <4> QED BY <1>2, <2>1, <4>1
    <3>4. entries[p].banned_until > now
      BY <1>2, <2>1, <3>2, <3>3
    <3>5. ~ reply'.allow /\ now + reply'.retry = BanEnd(i)
      BY <1>4, <3>2, <3>4
    <3> QED BY <1>2, <1>7, <2>1, <2>4, <3>5
  <2> QED BY <1>2, <1>5, <2>3, <2>4
<1>12. RetryAfterSuffices'
  <2> SUFFICES ASSUME Requests > 0, NEW i \in DOMAIN log', NEW j \in DOMAIN log', NextOfRefused(i, j)',
                      log'[j].at >= BanEnd(i)'
               PROVE  log'[j].allow
    BY DEF RetryAfterSuffices
  <2>1. i \in 1 .. n /\ BanEnd(i)' = BanEnd(i) /\ BanEnd(i) \in Nat \ {0}
    BY <1>2, <1>10
  <2>2. CASE j \in 1 .. n
    <3>1. NextOfRefused(i, j) /\ log[j].at >= BanEnd(i)
      BY <1>2, <1>10, <2>1, <2>2
    <3>2. log[j].allow
      BY <1>1, <1>2, <2>1, <2>2, <3>1 DEF RetryAfterSuffices
    <3> QED BY <1>2, <2>2, <3>2
  <2>3. CASE j = n + 1
    <3>1. now >= BanEnd(i)
      BY <1>2, <2>1, <2>3
    <3>2. entries[p] = NoEntry \/ entries[p].banned_until = BanEnd(i)
      BY <1>2, <1>10, <2>3
    <3>3. entries[p].banned_until <= now /\ (entries[p].banned_until # 0 \/ entries[p] = NoEntry)
      <4>1. NoEntry.banned_until = 0 /\ 0 <= now
        BY <1>2 DEF NoEntry
      <4> QED BY <1>2, <2>1, <3>1, <3>2, <4>1
    <3>4. reply'.allow
      BY <1>4, <3>3
    <3> QED BY <1>2, <2>3, <3>4
  <2> QED BY <1>2, <1>5, <2>2, <2>3
<1> QED BY <1>2, <1>9, <1>11, <1>12 DEF HistoryInv

LEMMA LoggedIsSpec == LoggedSpec => Spec
<1>1. LoggedInit => Init
  BY DEF LoggedInit
<1>2. [LoggedNext]_<<vars, log>> => [Next]_vars
  BY DEF LoggedNext, LoggedAdvance, LoggedCheck, Next
<1> QED BY <1>1, <1>2, PTL DEF LoggedSpec, Spec

LEMMA HistoryInvariant == ASSUME NoWrap PROVE LoggedSpec => []HistoryInv
<1>1. LoggedInit => HistoryInv
  <2> SUFFICES ASSUME LoggedInit PROVE HistoryInv
    OBVIOUS
  <2>1. log = <<>> /\ DOMAIN log = {}
    BY DEF LoggedInit
  <2>2. log \in Seq(LogEntry)
    BY <2>1, EmptySeq
  <2> QED BY <2>1, <2>2 DEF HistoryInv, BanLeft, BanIsKept, RetryAfterSuffices
<1>2. BanInv /\ HistoryInv /\ [LoggedNext]_<<vars, log>> => HistoryInv'
  <2> SUFFICES ASSUME BanInv, HistoryInv, [LoggedNext]_<<vars, log>> PROVE HistoryInv'
    OBVIOUS
  <2>1. ASSUME NEW p \in Peer, NEW now \in Stamps, LoggedCheck(p, now) PROVE HistoryInv'
    BY <2>1, HistoryCheck
  <2>2. CASE UNCHANGED <<log, entries>>
    BY <2>2 DEF HistoryInv, BanLeft, BanIsKept, RetryAfterSuffices, Latest, BanEnd, NextOfRefused
  <2> QED BY <2>1, <2>2 DEF LoggedNext, LoggedAdvance, Advance, vars
<1>3. LoggedSpec => []BanInv
  BY LoggedIsSpec, BanInvariant, PTL
<1> QED BY <1>1, <1>2, <1>3, PTL DEF LoggedSpec

\* check never lifts a ban before the Retry-After it announced is over: not by
\* evict_expired, not by a check whose timestamp lags, not for any sequence of
\* peers that fill the map.
THEOREM BanKept == ASSUME NoWrap PROVE LoggedSpec => []BanIsKept
<1>1. HistoryInv => BanIsKept
  BY DEF HistoryInv
<1> QED BY <1>1, HistoryInvariant, PTL

\* check lets a client through that waited out its Retry-After: tick opens a
\* new window when it finds a ban that is over.
THEOREM RetryTheorem == ASSUME NoWrap PROVE LoggedSpec => []RetryAfterSuffices
<1>1. HistoryInv => RetryAfterSuffices
  BY DEF HistoryInv
<1> QED BY <1>1, HistoryInvariant, PTL

-----------------------------------------------------------------------------
(* The bound on bursts, for timestamps in order.  A window that follows      *)
(* another opens at least Span seconds after it, so a span meets two at most. *)

\* The answer x is a grant to p at a time from a on and before b.
GrantedIn(x, p, a, b) == Granted(x, p) /\ x.at >= a /\ x.at < b

\* Such grants in the log l.
Grants(l, p, a, b) ==
    {i \in DOMAIN l : GrantedIn(l[i], p, a, b)}

\* When the window of an entry can be followed by another at the earliest.
Ends(e) == IF e.banned_until # 0 THEN e.banned_until ELSE e.window_start + WindowSecs

\* Peer p, whose window is over by the time t: the next one may open now.
Forgotten(l, p, t) ==
    /\ \A i \in DOMAIN l : Granted(l[i], p) => l[i].at < t
    /\ \A a \in Nat : a + Span > t => Cardinality(Grants(l, p, a, t)) <= Requests

\* Peer p in the window of its entry e, which counts the grants in it.
InWindow(l, p, e) ==
    /\ Ends(e) >= e.window_start + Span
    /\ \A i \in DOMAIN l : Granted(l[i], p) => l[i].at < Ends(e)
    /\ \A b \in Nat : /\ Cardinality(Grants(l, p, e.window_start, b)) <= e.count
                      /\ Cardinality(Grants(l, p, e.window_start, b)) <= Requests
    /\ \A a \in Nat : a + Span > e.window_start =>
                         Cardinality(Grants(l, p, a, e.window_start)) <= Requests

BurstInv ==
    /\ log \in Seq(LogEntry)
    /\ \A i \in DOMAIN log : log[i].at <= clock
    /\ \A p \in Peer : /\ entries[p] = NoEntry => Forgotten(log, p, clock)
                       /\ entries[p] # NoEntry => InWindow(log, p, entries[p])
    /\ \A p \in Peer : \A a \in Nat : Cardinality(Grants(log, p, a, a + Span)) <= 2 * Requests

LEMMA GrantsFinite ==
    ASSUME NEW l \in Seq(LogEntry), NEW p, NEW a \in Nat, NEW b \in Nat
    PROVE  IsFiniteSet(Grants(l, p, a, b)) /\ Cardinality(Grants(l, p, a, b)) \in Nat
<1>1. Len(l) \in Nat /\ DOMAIN l = 1 .. Len(l)
  BY LenProperties
<1>2. IsFiniteSet(1 .. Len(l))
  BY <1>1, FS_Interval
<1>3. Grants(l, p, a, b) \subseteq 1 .. Len(l)
  BY <1>1 DEF Grants
<1> QED BY <1>2, <1>3, FS_Subset, FS_CardinalityType

LEMMA GrantsMonotone ==
    ASSUME NEW l \in Seq(LogEntry), NEW p, NEW a \in Nat, NEW b \in Nat,
           NEW c \in Nat, NEW d \in Nat, c <= a, b <= d
    PROVE  Cardinality(Grants(l, p, a, b)) <= Cardinality(Grants(l, p, c, d))
<1>1. \A i \in DOMAIN l : l[i].at \in Nat
  <2>1. \A i \in DOMAIN l : l[i] \in LogEntry
    BY ElementOfSeq, LenProperties
  <2> QED BY <2>1 DEF LogEntry
<1>2. Grants(l, p, a, b) \subseteq Grants(l, p, c, d)
  BY <1>1 DEF Grants, GrantedIn
<1> QED BY <1>2, GrantsFinite, FS_Subset

LEMMA GrantsSplit ==
    ASSUME NEW l \in Seq(LogEntry), NEW p, NEW a \in Nat, NEW b \in Nat, NEW c \in Nat
    PROVE  Cardinality(Grants(l, p, a, c)) <= Cardinality(Grants(l, p, a, b)) + Cardinality(Grants(l, p, b, c))
<1> DEFINE A == Grants(l, p, a, b)
           B == Grants(l, p, b, c)
<1>1. \A i \in DOMAIN l : l[i].at \in Nat
  <2>1. \A i \in DOMAIN l : l[i] \in LogEntry
    BY ElementOfSeq, LenProperties
  <2> QED BY <2>1 DEF LogEntry
<1>2. Grants(l, p, a, c) \subseteq A \cup B
  BY <1>1 DEF Grants, GrantedIn
<1>3. IsFiniteSet(A) /\ IsFiniteSet(B) /\ Cardinality(A) \in Nat /\ Cardinality(B) \in Nat
  BY GrantsFinite
<1> HIDE DEF A, B
<1>4. IsFiniteSet(A \cup B) /\ Cardinality(A \cup B) <= Cardinality(A) + Cardinality(B)
  <2>1. Cardinality(A \cup B) = Cardinality(A) + Cardinality(B) - Cardinality(A \cap B)
    BY <1>3, FS_Union
  <2>2. Cardinality(A \cap B) \in Nat
    BY <1>3, FS_Intersection, FS_CardinalityType
  <2>3. IsFiniteSet(A \cup B)
    BY <1>3, FS_Union
  <2> QED BY <1>3, <2>1, <2>2, <2>3
<1>5. Cardinality(Grants(l, p, a, c)) <= Cardinality(A \cup B) /\ Cardinality(A \cup B) \in Nat
  BY <1>2, <1>4, FS_Subset, FS_CardinalityType
<1>6. Cardinality(Grants(l, p, a, c)) \in Nat
  BY GrantsFinite
<1>7. Cardinality(Grants(l, p, a, c)) <= Cardinality(A) + Cardinality(B)
  BY ONLY <1>3, <1>4, <1>5, <1>6
<1> QED BY <1>7 DEF A, B

\* One more answer in the log: x.
GrantsChange(l, x, p, a, b) ==
    /\ Append(l, x) \in Seq(LogEntry)
    /\ \A i \in DOMAIN Append(l, x) : (i \in DOMAIN l /\ Append(l, x)[i] = l[i]) \/ Append(l, x)[i] = x
    /\ ~ GrantedIn(x, p, a, b)
          => Cardinality(Grants(Append(l, x), p, a, b)) = Cardinality(Grants(l, p, a, b))
    /\ Cardinality(Grants(Append(l, x), p, a, b)) <= Cardinality(Grants(l, p, a, b)) + 1

LEMMA GrantsStep ==
    ASSUME NEW l \in Seq(LogEntry), NEW x \in LogEntry, NEW p, NEW a \in Nat, NEW b \in Nat
    PROVE  GrantsChange(l, x, p, a, b)
<1> DEFINE n == Len(l)
           m == Append(l, x)
           G == Grants(l, p, a, b)
<1>1. /\ m \in Seq(LogEntry) /\ Len(m) = n + 1 /\ m[n + 1] = x
      /\ \A i \in 1 .. n : m[i] = l[i]
  BY AppendProperties
<1>2. n \in Nat /\ DOMAIN l = 1 .. n /\ DOMAIN m = 1 .. n + 1
  BY <1>1, LenProperties
<1> HIDE DEF n, m
<1>3. \A i \in DOMAIN m : (i \in DOMAIN l /\ m[i] = l[i]) \/ (m[i] = x /\ i = n + 1)
  BY <1>1, <1>2
<1>4. \A i \in DOMAIN l : i \in DOMAIN m /\ m[i] = l[i]
  BY <1>1, <1>2
<1>5. ~ GrantedIn(x, p, a, b) => Grants(m, p, a, b) = G
  BY <1>3, <1>4 DEF Grants
<1>6. Grants(m, p, a, b) \subseteq G \cup {n + 1}
  BY <1>3 DEF Grants
<1>7. IsFiniteSet(G) /\ Cardinality(G) \in Nat
  BY GrantsFinite
<1> HIDE DEF G
<1>8. /\ IsFiniteSet(G \cup {n + 1})
      /\ \/ Cardinality(G \cup {n + 1}) = Cardinality(G)
         \/ Cardinality(G \cup {n + 1}) = Cardinality(G) + 1
  BY <1>7, FS_AddElement
<1>9. Cardinality(Grants(m, p, a, b)) <= Cardinality(G \cup {n + 1})
  BY <1>6, <1>8, FS_Subset
<1>10. Cardinality(Grants(m, p, a, b)) \in Nat
  BY <1>1, GrantsFinite
<1>11. Cardinality(Grants(m, p, a, b)) <= Cardinality(G) + 1
  BY <1>7, <1>8, <1>9, <1>10
<1> QED BY <1>1, <1>3, <1>5, <1>11 DEF G, m, GrantsChange

LEMMA GrantsAppend ==
    ASSUME NEW l \in Seq(LogEntry), NEW x \in LogEntry, NEW p, NEW a \in Nat, NEW b \in Nat
    PROVE  /\ Append(l, x) \in Seq(LogEntry)
           /\ \A i \in DOMAIN Append(l, x) : (i \in DOMAIN l /\ Append(l, x)[i] = l[i]) \/ Append(l, x)[i] = x
           /\ ~ GrantedIn(x, p, a, b)
                 => Cardinality(Grants(Append(l, x), p, a, b)) = Cardinality(Grants(l, p, a, b))
           /\ Cardinality(Grants(Append(l, x), p, a, b)) <= Cardinality(Grants(l, p, a, b)) + 1
BY GrantsStep, Zenon DEF GrantsChange

\* In particular one that is no grant to p between a and b.
LEMMA GrantsSame ==
    ASSUME NEW l \in Seq(LogEntry), NEW x \in LogEntry, NEW p, NEW a \in Nat, NEW b \in Nat,
           ~ GrantedIn(x, p, a, b)
    PROVE  Cardinality(Grants(Append(l, x), p, a, b)) = Cardinality(Grants(l, p, a, b))
<1>1. GrantsChange(l, x, p, a, b)
  BY GrantsStep, Zenon
<1> QED BY <1>1, Zenon DEF GrantsChange

LEMMA SpanFacts == Span \in Nat /\ Span <= WindowSecs /\ Span <= BanSecs
BY ConfigAssumption DEF Span

\* A window that is over leaves room for the next.
LEMMA Lapse ==
    ASSUME NEW l \in Seq(LogEntry), NEW p \in Peer, NEW e \in Entry, NEW t \in Nat,
           InWindow(l, p, e), t >= Ends(e)
    PROVE  Forgotten(l, p, t)
<1>1. e.window_start \in Nat /\ e.banned_until \in Nat /\ Ends(e) \in Nat
  BY ConfigAssumption DEF Entry, Time, Ends
<1>2. \A i \in DOMAIN l : l[i].at \in Nat
  <2>1. \A i \in DOMAIN l : l[i] \in LogEntry
    BY ElementOfSeq, LenProperties
  <2> QED BY <2>1 DEF LogEntry
<1>3. \A i \in DOMAIN l : Granted(l[i], p) => l[i].at < t
  <2>1. \A i \in DOMAIN l : Granted(l[i], p) => l[i].at < Ends(e)
    BY DEF InWindow
  <2> QED BY <1>1, <1>2, <2>1
<1>4. ASSUME NEW a \in Nat, a + Span > t PROVE Cardinality(Grants(l, p, a, t)) <= Requests
  <2>1. Ends(e) >= e.window_start + Span
    BY DEF InWindow
  <2>2. e.window_start <= a /\ t <= t
    BY <1>1, <1>4, <2>1, SpanFacts
  <2>3. Cardinality(Grants(l, p, a, t)) <= Cardinality(Grants(l, p, e.window_start, t))
    BY <1>1, <2>2, GrantsMonotone
  <2>4. Cardinality(Grants(l, p, e.window_start, t)) <= Requests
    BY DEF InWindow
  <2>5. Cardinality(Grants(l, p, a, t)) \in Nat /\ Cardinality(Grants(l, p, e.window_start, t)) \in Nat
    BY <1>1, GrantsFinite
  <2> QED BY ONLY <2>3, <2>4, <2>5, ConfigAssumption
<1> QED BY <1>3, <1>4 DEF Forgotten

\* An answer that is no grant to p changes nothing for it.
LEMMA NoGrant ==
    ASSUME NEW l \in Seq(LogEntry), NEW x \in LogEntry, NEW m, m = Append(l, x), NEW p,
           ~ Granted(x, p)
    PROVE  /\ \A t \in Nat : Forgotten(l, p, t) => Forgotten(m, p, t)
           /\ \A e \in Entry : InWindow(l, p, e) => InWindow(m, p, e)
<1>1. ASSUME NEW a \in Nat, NEW b \in Nat PROVE Cardinality(Grants(m, p, a, b)) = Cardinality(Grants(l, p, a, b))
  <2>1. ~ GrantedIn(x, p, a, b)
    BY Zenon DEF GrantedIn
  <2> QED BY <2>1, GrantsSame
<1>2. \A i \in DOMAIN m : (i \in DOMAIN l /\ m[i] = l[i]) \/ m[i] = x
  <2>1. 0 \in Nat
    OBVIOUS
  <2> QED BY <2>1, GrantsAppend
<1>3. ASSUME NEW t \in Nat, Forgotten(l, p, t) PROVE Forgotten(m, p, t)
  <2>1. \A i \in DOMAIN m : Granted(m[i], p) => m[i].at < t
    BY <1>2, <1>3 DEF Forgotten
  <2>2. \A a \in Nat : a + Span > t => Cardinality(Grants(m, p, a, t)) <= Requests
    BY <1>1, <1>3 DEF Forgotten
  <2> QED BY <2>1, <2>2 DEF Forgotten
<1>4. ASSUME NEW e \in Entry, InWindow(l, p, e) PROVE InWindow(m, p, e)
  <2>1. e.window_start \in Nat
    BY DEF Entry, Time
  <2>2. \A i \in DOMAIN m : Granted(m[i], p) => m[i].at < Ends(e)
    BY <1>2, <1>4 DEF InWindow
  <2> QED BY <1>1, <1>4, <2>1, <2>2 DEF InWindow
<1> QED BY <1>1, <1>3, <1>4

\* The entry of a window with c requests in it, the last of them at time t.
WindowEntry(start, c, t) ==
    [window_start |-> start, count |-> c, banned_until |-> IF c > Requests THEN t + BanSecs ELSE 0]

LEMMA WindowEntryFacts ==
    ASSUME NEW start \in Nat, NEW c \in Nat, NEW t \in Nat, start <= t, t >= 1
    PROVE  LET e == WindowEntry(start, c, t)
           IN  /\ e \in Entry /\ e.window_start = start /\ e.count = c
               /\ c <= Requests => Ends(e) = start + WindowSecs
               /\ c > Requests => Ends(e) = t + BanSecs
<1> DEFINE e == WindowEntry(start, c, t)
<1>1. /\ e.window_start = start /\ e.count = c
      /\ e.banned_until = IF c > Requests THEN t + BanSecs ELSE 0
  BY DEF WindowEntry
<1>2. e \in Entry
  BY ConfigAssumption DEF WindowEntry, Entry, Time
<1> HIDE DEF e
<1>3. CASE c > Requests
  BY <1>1, <1>2, <1>3, ConfigAssumption DEF Ends, e
<1>4. CASE ~ (c > Requests)
  BY <1>1, <1>2, <1>4, ConfigAssumption DEF Ends, e
<1> QED BY <1>3, <1>4

\* A window opens: at most one of its requests was granted, and the span before
\* it saw one window's worth at most.
LEMMA WindowOpens ==
    ASSUME Span >= 1, NEW l \in Seq(LogEntry), NEW x \in LogEntry, NEW m, m = Append(l, x),
           NEW p \in Peer, Forgotten(l, p, x.at), x.peer = p, x.allow => 1 <= Requests
    PROVE  InWindow(m, p, WindowEntry(x.at, 1, x.at))
<1> DEFINE t == x.at
           e == WindowEntry(t, 1, t)
<1>1. t \in Nat /\ t >= 1
  BY DEF LogEntry
<1> HIDE DEF t
<1>2. /\ e \in Entry /\ e.window_start = t /\ e.count = 1
      /\ 1 <= Requests => Ends(e) = t + WindowSecs
      /\ 1 > Requests => Ends(e) = t + BanSecs
  <2>1. t <= t /\ 1 \in Nat
    BY <1>1
  <2> QED BY <1>1, <2>1, WindowEntryFacts
<1> HIDE DEF e
<1>3. Ends(e) >= t + Span /\ t < Ends(e) /\ Ends(e) \in Nat
  <2>1. 1 <= Requests \/ 1 > Requests
    BY ConfigAssumption
  <2> QED BY <1>1, <1>2, <2>1, SpanFacts, ConfigAssumption
<1>4. \A i \in DOMAIN l : Granted(l[i], p) => l[i].at < t
  BY DEF Forgotten, t
<1>5. /\ m \in Seq(LogEntry)
      /\ \A i \in DOMAIN m : (i \in DOMAIN l /\ m[i] = l[i]) \/ m[i] = x
  <2>1. 0 \in Nat
    OBVIOUS
  <2> QED BY <2>1, GrantsAppend
<1>6. \A i \in DOMAIN l : l[i].at \in Nat
  <2>1. \A i \in DOMAIN l : l[i] \in LogEntry
    BY ElementOfSeq, LenProperties
  <2> QED BY <2>1 DEF LogEntry
<1>7. \A i \in DOMAIN m : Granted(m[i], p) => m[i].at < Ends(e)
  <2> SUFFICES ASSUME NEW i \in DOMAIN m, Granted(m[i], p)
               PROVE  m[i].at < Ends(e)
    OBVIOUS
  <2>1. CASE m[i] = x
    BY <1>3, <2>1 DEF t
  <2>2. CASE i \in DOMAIN l /\ m[i] = l[i]
    BY <1>1, <1>3, <1>4, <1>6, <2>2
  <2> QED BY <1>5, <2>1, <2>2
<1>8. ASSUME NEW b \in Nat PROVE Cardinality(Grants(m, p, t, b)) <= 1 /\ Cardinality(Grants(m, p, t, b)) <= Requests
  <2>1. Grants(l, p, t, b) = {}
    BY <1>1, <1>4, <1>6 DEF Grants, GrantedIn
  <2>2. Cardinality(Grants(l, p, t, b)) = 0
    BY <2>1, FS_EmptySet
  <2>3. Cardinality(Grants(m, p, t, b)) \in Nat
    BY <1>1, <1>5, GrantsFinite
  <2>4. Cardinality(Grants(m, p, t, b)) <= 0 + 1
    BY <1>1, <2>2, GrantsAppend
  <2>5. ASSUME ~ x.allow PROVE Cardinality(Grants(m, p, t, b)) = 0
    <3>1. ~ GrantedIn(x, p, t, b)
      BY <2>5, Zenon DEF GrantedIn, Granted
    <3>2. Cardinality(Grants(m, p, t, b)) = Cardinality(Grants(l, p, t, b))
      BY <1>1, <3>1, GrantsSame
    <3> QED BY <2>2, <3>2
  <2>6. CASE x.allow
    BY <2>3, <2>4, <2>6, ConfigAssumption
  <2>7. CASE ~ x.allow
    BY <2>5, <2>7, ConfigAssumption
  <2> QED BY <2>6, <2>7
<1>9. ASSUME NEW a \in Nat, a + Span > t PROVE Cardinality(Grants(m, p, a, t)) <= Requests
  <2>1. ~ (x.at < t)
    BY <1>1 DEF t
  <2>2. Cardinality(Grants(m, p, a, t)) = Cardinality(Grants(l, p, a, t))
    <3>1. ~ GrantedIn(x, p, a, t)
      BY <2>1, Zenon DEF GrantedIn
    <3> QED BY <1>1, <3>1, GrantsSame
  <2> QED BY <1>9, <2>2 DEF Forgotten, t
<1>10. InWindow(m, p, e)
  BY <1>2, <1>3, <1>7, <1>8, <1>9 DEF InWindow
<1> QED BY <1>10 DEF e, t

\* A window goes on: what is granted in it is counted in it.
LEMMA WindowGoesOn ==
    ASSUME Span >= 1, NEW l \in Seq(LogEntry), NEW x \in LogEntry, NEW m, m = Append(l, x),
           NEW p \in Peer, NEW e \in Entry, InWindow(l, p, e), x.peer = p,
           \A i \in DOMAIN l : l[i].at <= x.at,
           e.window_start <= x.at, x.at < e.window_start + WindowSecs,
           x.allow <=> e.count + 1 <= Requests
    PROVE  InWindow(m, p, WindowEntry(e.window_start, e.count + 1, x.at))
<1> DEFINE t == x.at
           s == e.window_start
           c == e.count
           f == WindowEntry(s, c + 1, t)
<1>1. t \in Nat /\ t >= 1 /\ s \in Nat /\ c \in Nat /\ c + 1 \in Nat
  BY DEF LogEntry, Entry, Time
<1>2. s <= t /\ t < s + WindowSecs /\ (x.allow <=> c + 1 <= Requests)
  OBVIOUS
<1>3. /\ \A b \in Nat : Cardinality(Grants(l, p, s, b)) <= c /\ Cardinality(Grants(l, p, s, b)) <= Requests
      /\ \A a \in Nat : a + Span > s => Cardinality(Grants(l, p, a, s)) <= Requests
  BY DEF InWindow
<1>4. /\ m \in Seq(LogEntry)
      /\ \A i \in DOMAIN m : (i \in DOMAIN l /\ m[i] = l[i]) \/ m[i] = x
  <2>1. 0 \in Nat
    OBVIOUS
  <2> QED BY <2>1, GrantsAppend
<1>5. \A i \in DOMAIN l : l[i].at \in Nat /\ l[i].at <= t
  <2>1. \A i \in DOMAIN l : l[i] \in LogEntry
    BY ElementOfSeq, LenProperties
  <2> QED BY <2>1 DEF LogEntry
<1>6. \A i \in DOMAIN m : m[i].at \in Nat /\ m[i].at <= t
  BY <1>1, <1>4, <1>5
<1>7. ASSUME NEW a \in Nat PROVE Cardinality(Grants(m, p, a, s)) = Cardinality(Grants(l, p, a, s))
  <2>1. ~ (x.at < s)
    BY <1>1, <1>2
  <2>2. ~ GrantedIn(x, p, a, s)
    BY <2>1, Zenon DEF GrantedIn
  <2> QED BY <1>1, <2>2, GrantsSame
<1> HIDE DEF t, s, c
<1>8. /\ f.window_start = s /\ f.count = c + 1
      /\ c + 1 <= Requests => Ends(f) = s + WindowSecs
      /\ c + 1 > Requests => Ends(f) = t + BanSecs
  BY <1>1, <1>2, WindowEntryFacts
<1> HIDE DEF f
<1>9. Ends(f) \in Nat /\ Ends(f) >= s + Span /\ t < Ends(f)
  <2>1. c + 1 <= Requests \/ c + 1 > Requests
    BY <1>1, ConfigAssumption
  <2> QED BY <1>1, <1>2, <1>8, <2>1, SpanFacts, ConfigAssumption
<1>10. \A i \in DOMAIN m : Granted(m[i], p) => m[i].at < Ends(f)
  BY <1>1, <1>6, <1>9
<1>11. ASSUME NEW b \in Nat
       PROVE  Cardinality(Grants(m, p, s, b)) <= c + 1 /\ Cardinality(Grants(m, p, s, b)) <= Requests
  <2>1. Cardinality(Grants(l, p, s, b)) \in Nat /\ Cardinality(Grants(m, p, s, b)) \in Nat
    BY <1>1, <1>4, GrantsFinite
  <2>2. Cardinality(Grants(m, p, s, b)) <= Cardinality(Grants(l, p, s, b)) + 1
    BY <1>1, GrantsAppend
  <2>3. ASSUME ~ x.allow PROVE Cardinality(Grants(m, p, s, b)) = Cardinality(Grants(l, p, s, b))
    <3>1. ~ GrantedIn(x, p, s, b)
      BY <2>3, Zenon DEF GrantedIn, Granted
    <3>2. Cardinality(Grants(m, p, s, b)) = Cardinality(Grants(l, p, s, b))
      BY <1>1, <3>1, GrantsSame
    <3> QED BY <3>2
  <2>4. Cardinality(Grants(l, p, s, b)) <= c /\ Cardinality(Grants(l, p, s, b)) <= Requests
    BY <1>3
  <2>5. CASE x.allow
    <3>1. c + 1 <= Requests
      BY <1>2, <2>5
    <3> QED BY ONLY <1>1, <2>1, <2>2, <2>4, <3>1, ConfigAssumption
  <2>6. CASE ~ x.allow
    <3>1. Cardinality(Grants(m, p, s, b)) = Cardinality(Grants(l, p, s, b))
      BY <2>3, <2>6
    <3> QED BY ONLY <1>1, <2>1, <2>4, <3>1, ConfigAssumption
  <2> QED BY <2>5, <2>6
<1>12. \A a \in Nat : a + Span > s => Cardinality(Grants(m, p, a, s)) <= Requests
  BY <1>3, <1>7
<1>13. InWindow(m, p, f)
  BY <1>8, <1>9, <1>10, <1>11, <1>12 DEF InWindow
<1> QED BY <1>13 DEF f, t, s, c

\* In its window, a peer has had two windows' worth at most in any span that
\* has begun.
LEMMA TwoWindows ==
    ASSUME NEW l \in Seq(LogEntry), NEW p \in Peer, NEW e \in Entry, InWindow(l, p, e),
           NEW a \in Nat, a + Span > e.window_start
    PROVE  Cardinality(Grants(l, p, a, a + Span)) <= 2 * Requests
<1> DEFINE s == e.window_start
           whole == Cardinality(Grants(l, p, a, a + Span))
           before == Cardinality(Grants(l, p, a, s))
           since == Cardinality(Grants(l, p, s, a + Span))
<1>1. s \in Nat /\ a + Span \in Nat
  BY SpanFacts DEF Entry, Time
<1>2. whole <= before + since
  BY <1>1, GrantsSplit
<1>3. before <= Requests /\ since <= Requests
  BY <1>1 DEF InWindow
<1>4. whole \in Nat /\ before \in Nat /\ since \in Nat
  BY <1>1, GrantsFinite
<1> HIDE DEF whole, before, since
<1>5. whole <= 2 * Requests
  BY ONLY <1>2, <1>3, <1>4, ConfigAssumption
<1> QED BY <1>5 DEF whole

\* What a check in order does to the windows: one opens or goes on, or nothing
\* is counted; and what is evicted is over.
LEMMA WindowCases ==
    ASSUME InOrder, OrderInv, NEW p \in Peer, Check(p, clock)
    PROVE  /\ \/ entries'[p] = entries[p] /\ (~ reply'.allow \/ entries'[p] = NoEntry)
              \/ /\ entries[p] = NoEntry \/ clock >= Ends(entries[p])
                 /\ entries'[p] = WindowEntry(clock, 1, clock) /\ (reply'.allow => 1 <= Requests)
              \/ /\ entries[p] # NoEntry /\ clock < entries[p].window_start + WindowSecs
                 /\ entries'[p] = WindowEntry(entries[p].window_start, entries[p].count + 1, clock)
                 /\ reply'.allow <=> entries[p].count + 1 <= Requests
           /\ \A q \in Peer \ {p} :
                 \/ entries'[q] = entries[q]
                 \/ entries'[q] = NoEntry /\ clock >= Ends(entries[q])
<1>1. /\ TypeOK /\ entries \in [Peer -> Entry] /\ clock \in Nat /\ clock >= 1 /\ clock <= MaxTime
      /\ \A q \in Peer : entries[q].window_start <= clock
  BY DEF OrderInv, BanInv, TypeOK, Time
<1>2. (clock + BanSecs) % WordSize = clock + BanSecs
  BY <1>1, ConfigAssumption DEF InOrder, NoWrap
<1>3. \A q \in Peer : /\ entries[q] \in Entry /\ entries[q].window_start \in Nat
                      /\ entries[q].count \in Nat /\ entries[q].banned_until \in Nat
  BY <1>1 DEF Entry, Time
<1>4. WindowSecs \in Nat /\ BanSecs \in Nat /\ Requests \in Nat
  BY ConfigAssumption
<1>5. ASSUME NEW e \in Entry, OpenWindow(e, clock) = FreshWindow(clock), ~ Banned(e, clock)
      PROVE  /\ TickedEntry(e, clock) = WindowEntry(clock, 1, clock)
             /\ Decision(p, e, clock).allow => 1 <= Requests
  <2> DEFINE w == FreshWindow(clock)
  <2>1. w.window_start = clock /\ w.count = 0 /\ w.banned_until = 0
    BY DEF FreshWindow
  <2> HIDE DEF w
  <2>2. CountedEntry(e, clock) = WindowEntry(clock, 1, clock)
    BY <1>2, <1>5, <2>1 DEF CountedEntry, WindowEntry, w
  <2>3. TickedEntry(e, clock) = CountedEntry(e, clock) /\ CountedEntry(e, clock).count = 1
    BY <1>5, <2>2 DEF TickedEntry, WindowEntry
  <2>4. ~ (1 <= Requests) => Decision(p, e, clock) = Deny(p, clock, BanSecs)
    BY <1>4, <1>5, <2>3 DEF Decision, Refused, RetryAfter
  <2>5. ~ (1 <= Requests) => ~ Decision(p, e, clock).allow
    BY <2>4 DEF Deny
  <2> QED BY <2>2, <2>3, <2>5
<1>6. CASE CheckTracked(p, clock)
  <2> DEFINE e == entries[p]
  <2>1. /\ e # NoEntry /\ e \in Entry /\ entries'[p] = TickedEntry(e, clock) /\ reply' = Decision(p, e, clock)
        /\ \A q \in Peer \ {p} : entries'[q] = entries[q]
    BY <1>1, <1>6 DEF CheckTracked
  <2>2. CASE Banned(e, clock)
    <3>1. TickedEntry(e, clock) = e /\ Decision(p, e, clock) = Deny(p, clock, RetryAfter(e, clock))
      BY <2>2 DEF TickedEntry, Decision, Refused
    <3>2. ~ reply'.allow
      BY <2>1, <3>1 DEF Deny
    <3> QED BY <2>1, <3>1, <3>2
  <2>3. CASE ~ Banned(e, clock) /\ WindowOver(e, clock)
    <3>1. OpenWindow(e, clock) = FreshWindow(clock)
      BY <2>3 DEF OpenWindow
    <3>2. clock >= Ends(e)
      BY <1>1, <1>3, <1>4, <2>3 DEF Banned, WindowOver, Elapsed, Ends, InOrder
    <3>3. entries'[p] = WindowEntry(clock, 1, clock) /\ (reply'.allow => 1 <= Requests)
      <4> HIDE DEF e
      <4> QED BY <1>5, <2>1, <2>3, <3>1
    <3> QED BY <2>1, <3>2, <3>3
  <2>4. CASE ~ Banned(e, clock) /\ ~ WindowOver(e, clock)
    <3>1. OpenWindow(e, clock) = e /\ e.banned_until = 0
      BY <2>4 DEF OpenWindow, WindowOver
    <3>2. clock < e.window_start + WindowSecs
      BY <1>1, <1>3, <1>4, <2>4 DEF WindowOver, Elapsed
    <3>3. CountedEntry(e, clock) = WindowEntry(e.window_start, e.count + 1, clock)
      BY <1>2, <3>1 DEF CountedEntry, WindowEntry
    <3>4. TickedEntry(e, clock) = CountedEntry(e, clock) /\ CountedEntry(e, clock).count = e.count + 1
      BY <2>4, <3>3 DEF TickedEntry, WindowEntry
    <3>5. CASE e.count + 1 <= Requests
      <4>1. Decision(p, e, clock) = Allow(p, clock)
        BY <1>3, <1>4, <2>4, <3>4, <3>5 DEF Decision, Refused
      <4>2. reply'.allow
        BY <2>1, <4>1 DEF Allow
      <4> QED BY <2>1, <3>2, <3>3, <3>4, <3>5, <4>2
    <3>6. CASE ~ (e.count + 1 <= Requests)
      <4>1. Decision(p, e, clock) = Deny(p, clock, BanSecs)
        BY <1>3, <1>4, <2>4, <3>4, <3>6 DEF Decision, Refused, RetryAfter
      <4>2. ~ reply'.allow
        BY <2>1, <4>1 DEF Deny
      <4> QED BY <2>1, <3>2, <3>3, <3>4, <3>6, <4>2
    <3> QED BY <3>5, <3>6
  <2> QED BY <2>2, <2>3, <2>4
<1>7. CASE CheckNew(p, clock)
  <2>1. entries[p] = NoEntry /\ Room(clock) \in [Peer -> Entry]
    BY <1>1, <1>7, RoomType DEF CheckNew, Time
  <2>2. \A q \in Peer : \/ Room(clock)[q] = entries[q]
                        \/ Room(clock)[q] = NoEntry /\ clock >= Ends(entries[q])
    <3>1. ASSUME NEW q \in Peer, Stale(entries[q], clock) PROVE clock >= Ends(entries[q])
      BY <1>1, <1>3, <1>4, <3>1 DEF Stale, Elapsed, Ends, InOrder
    <3> QED BY <1>1, <3>1 DEF Room, Evicted
  <2>3. CASE Full(Room(clock))
    <3>1. entries' = Room(clock)
      BY <1>7, <2>3 DEF CheckNew
    <3>2. entries'[p] = NoEntry
      BY <2>1, <2>2, <3>1
    <3> QED BY <2>1, <2>2, <3>1, <3>2
  <2>4. CASE ~ Full(Room(clock))
    <3> DEFINE w == FreshWindow(clock)
    <3>1. /\ entries' = [Room(clock) EXCEPT ![p] = TickedEntry(w, clock)]
          /\ reply' = Decision(p, w, clock)
      BY <1>7, <2>4 DEF CheckNew
    <3>2. entries'[p] = TickedEntry(w, clock) /\ \A q \in Peer \ {p} : entries'[q] = Room(clock)[q]
      BY <2>1, <3>1
    <3>3. w \in Entry /\ ~ Banned(w, clock) /\ OpenWindow(w, clock) = FreshWindow(clock)
      BY <1>1 DEF FreshWindow, Entry, Time, Banned, OpenWindow
    <3> HIDE DEF w
    <3>4. entries'[p] = WindowEntry(clock, 1, clock) /\ (reply'.allow => 1 <= Requests)
      BY <1>5, <3>1, <3>2, <3>3
    <3> QED BY <2>1, <2>2, <3>2, <3>4
  <2> QED BY <2>3, <2>4
<1> QED BY <1>6, <1>7 DEF Check

LEMMA BurstCheck ==
    ASSUME InOrder, Span >= 1, OrderInv, OrderInv', BurstInv,
           NEW p \in Peer, NEW now \in Stamps, LoggedCheck(p, now)
    PROVE  BurstInv'
<1>1. now = clock /\ clock \in Nat /\ clock' = clock /\ Check(p, clock) /\ BanInv /\ NoWrap
  BY DEF OrderInv, BanInv, TypeOK, Time, Stamps, InOrder, LoggedCheck, Check
<1>2. /\ log \in Seq(LogEntry) /\ \A i \in DOMAIN log : log[i].at <= clock
      /\ \A q \in Peer : /\ entries[q] = NoEntry => Forgotten(log, q, clock)
                         /\ entries[q] # NoEntry => InWindow(log, q, entries[q])
      /\ \A q \in Peer : \A a \in Nat : Cardinality(Grants(log, q, a, a + Span)) <= 2 * Requests
  BY DEF BurstInv
<1>3. PICK x \in LogEntry : /\ log' = Append(log, x) /\ x.peer = p /\ x.at = clock
                            /\ x.allow = reply'.allow /\ x.counted = (entries'[p] # NoEntry)
  <2> DEFINE a == [peer |-> p, at |-> now, allow |-> reply'.allow, retry |-> reply'.retry,
                   counted |-> entries'[p] # NoEntry]
  <2>1. log' = Append(log, a)
    BY DEF LoggedCheck
  <2>2. reply'.allow \in BOOLEAN /\ reply'.retry \in Nat /\ now \in Nat \ {0}
    <3>1. now \in Nat \ {0}
      BY <1>1 DEF OrderInv
    <3> QED BY <1>1, <3>1, CheckAnswer
  <2>3. a \in LogEntry
    BY <2>2 DEF LogEntry
  <2> QED BY <1>1, <2>1, <2>3
<1>4. /\ \A q \in Peer : entries[q] \in Entry /\ entries'[q] \in Entry
      /\ \A q \in Peer : entries[q].window_start \in Nat /\ entries[q].window_start <= clock
      /\ \A q \in Peer : entries'[q].window_start \in Nat /\ entries'[q].window_start <= clock
  BY <1>1 DEF OrderInv, BanInv, TypeOK, Entry, Time
<1>5. /\ log' \in Seq(LogEntry)
      /\ \A i \in DOMAIN log' : (i \in DOMAIN log /\ log'[i] = log[i]) \/ log'[i] = x
  <2>1. 0 \in Nat
    OBVIOUS
  <2> QED BY <1>2, <1>3, <2>1, GrantsAppend
<1>6. \A i \in DOMAIN log' : log'[i].at <= clock'
  BY <1>1, <1>2, <1>3, <1>5
<1>7. /\ \/ entries'[p] = entries[p] /\ (~ reply'.allow \/ entries'[p] = NoEntry)
         \/ /\ entries[p] = NoEntry \/ clock >= Ends(entries[p])
            /\ entries'[p] = WindowEntry(clock, 1, clock) /\ (reply'.allow => 1 <= Requests)
         \/ /\ entries[p] # NoEntry /\ clock < entries[p].window_start + WindowSecs
            /\ entries'[p] = WindowEntry(entries[p].window_start, entries[p].count + 1, clock)
            /\ reply'.allow <=> entries[p].count + 1 <= Requests
      /\ \A q \in Peer \ {p} :
            \/ entries'[q] = entries[q]
            \/ entries'[q] = NoEntry /\ clock >= Ends(entries[q])
  BY <1>1, WindowCases
<1>8. ASSUME NEW q \in Peer, entries[q] = NoEntry \/ clock >= Ends(entries[q])
      PROVE  Forgotten(log, q, clock)
  BY <1>1, <1>2, <1>4, <1>8, Lapse
<1>9. ASSUME NEW q \in Peer, ~ Granted(x, q)
      PROVE  /\ \A t \in Nat : Forgotten(log, q, t) => Forgotten(log', q, t)
             /\ \A e \in Entry : InWindow(log, q, e) => InWindow(log', q, e)
  BY <1>2, <1>3, <1>9, NoGrant
<1>10. ASSUME NEW q \in Peer
       PROVE  /\ entries'[q] = NoEntry => Forgotten(log', q, clock)
              /\ entries'[q] # NoEntry => InWindow(log', q, entries'[q])
  <2>1. ASSUME ~ Granted(x, q), entries'[q] = entries[q]
        PROVE  /\ entries'[q] = NoEntry => Forgotten(log', q, clock)
               /\ entries'[q] # NoEntry => InWindow(log', q, entries'[q])
    BY <1>1, <1>2, <1>4, <1>9, <2>1
  <2>2. CASE q # p
    <3>1. ~ Granted(x, q)
      BY <1>3, <2>2 DEF Granted
    <3>2. CASE entries'[q] = entries[q]
      BY <2>1, <3>1, <3>2
    <3>3. CASE entries'[q] = NoEntry /\ clock >= Ends(entries[q])
      BY <1>1, <1>8, <1>9, <3>1, <3>3
    <3> QED BY <1>7, <2>2, <3>2, <3>3
  <2>3. CASE q = p /\ entries'[p] = entries[p] /\ (~ reply'.allow \/ entries'[p] = NoEntry)
    <3>1. ~ Granted(x, q)
      BY <1>3, <2>3 DEF Granted
    <3> QED BY <2>1, <2>3, <3>1
  <2>4. CASE /\ q = p /\ (entries[p] = NoEntry \/ clock >= Ends(entries[p]))
             /\ entries'[p] = WindowEntry(clock, 1, clock) /\ (reply'.allow => 1 <= Requests)
    <3>1. Forgotten(log, p, x.at) /\ (x.allow => 1 <= Requests)
      BY <1>3, <1>8, <2>4
    <3>2. InWindow(log', p, WindowEntry(x.at, 1, x.at))
      BY <1>2, <1>3, <3>1, WindowOpens
    <3>3. WindowEntry(clock, 1, clock) # NoEntry
      BY DEF WindowEntry, NoEntry
    <3> QED BY <1>3, <2>4, <3>2, <3>3
  <2>5. CASE /\ q = p /\ entries[p] # NoEntry /\ clock < entries[p].window_start + WindowSecs
             /\ entries'[p] = WindowEntry(entries[p].window_start, entries[p].count + 1, clock)
             /\ reply'.allow <=> entries[p].count + 1 <= Requests
    <3> DEFINE e == entries[p]
    <3>1. /\ e \in Entry /\ InWindow(log, p, e) /\ e.window_start <= x.at
          /\ x.at < e.window_start + WindowSecs
          /\ \A i \in DOMAIN log : log[i].at <= x.at
      BY <1>2, <1>3, <1>4, <2>5
    <3>2. x.allow <=> e.count + 1 <= Requests
      BY <1>3, <2>5
    <3>3. entries'[p] = WindowEntry(e.window_start, e.count + 1, x.at)
      BY <1>3, <2>5
    <3> HIDE DEF e
    <3>4. InWindow(log', p, WindowEntry(e.window_start, e.count + 1, x.at))
      BY <1>2, <1>3, <3>1, <3>2, WindowGoesOn
    <3>5. entries'[p] # NoEntry
      <4>1. e.count \in Nat
        BY <3>1 DEF Entry
      <4>2. WindowEntry(e.window_start, e.count + 1, x.at).count # 0
        BY <4>1 DEF WindowEntry
      <4> QED BY <3>3, <4>2 DEF NoEntry
    <3> QED BY <2>5, <3>3, <3>4, <3>5
  <2> QED BY <1>7, <2>2, <2>3, <2>4, <2>5
<1>11. ASSUME NEW q \in Peer, NEW a \in Nat
       PROVE  Cardinality(Grants(log', q, a, a + Span)) <= 2 * Requests
  <2>1. CASE ~ GrantedIn(x, q, a, a + Span)
    <3>1. a + Span \in Nat
      BY SpanFacts
    <3>2. Cardinality(Grants(log', q, a, a + Span)) = Cardinality(Grants(log, q, a, a + Span))
      BY <1>2, <1>3, <2>1, <3>1, GrantsSame
    <3> QED BY <1>2, <3>2
  <2>2. CASE GrantedIn(x, q, a, a + Span)
    <3>1. q = p /\ entries'[p] # NoEntry /\ clock < a + Span
      BY <1>3, <2>2 DEF GrantedIn, Granted
    <3>2. a + Span > entries'[q].window_start
      BY <1>1, <1>4, <3>1, SpanFacts
    <3> QED BY <1>4, <1>5, <1>10, <3>1, <3>2, TwoWindows
  <2> QED BY <2>1, <2>2
<1> QED BY <1>1, <1>5, <1>6, <1>10, <1>11 DEF BurstInv

LEMMA ForgottenLater ==
    ASSUME NEW l \in Seq(LogEntry), NEW p, NEW t \in Nat, Forgotten(l, p, t)
    PROVE  Forgotten(l, p, t + 1)
<1>1. \A i \in DOMAIN l : l[i].at \in Nat
  <2>1. \A i \in DOMAIN l : l[i] \in LogEntry
    BY ElementOfSeq, LenProperties
  <2> QED BY <2>1 DEF LogEntry
<1>2. \A i \in DOMAIN l : Granted(l[i], p) => l[i].at < t
  BY DEF Forgotten
<1>3. ASSUME NEW a \in Nat, a + Span > t + 1 PROVE Cardinality(Grants(l, p, a, t + 1)) <= Requests
  <2>1. Grants(l, p, a, t + 1) = Grants(l, p, a, t)
    BY <1>1, <1>2 DEF Grants, GrantedIn
  <2>2. a + Span > t
    BY <1>3, SpanFacts
  <2>3. Cardinality(Grants(l, p, a, t)) <= Requests
    BY <2>2 DEF Forgotten
  <2> QED BY <2>1, <2>3
<1>4. \A i \in DOMAIN l : Granted(l[i], p) => l[i].at < t + 1
  BY <1>1, <1>2
<1> QED BY <1>3, <1>4 DEF Forgotten

LEMMA BurstInvariant == ASSUME InOrder, Span >= 1 PROVE LoggedSpec => []BurstInv
<1>1. LoggedInit => BurstInv
  <2> SUFFICES ASSUME LoggedInit PROVE BurstInv
    OBVIOUS
  <2>1. log = <<>> /\ DOMAIN log = {} /\ log \in Seq(LogEntry)
    BY EmptySeq DEF LoggedInit
  <2>2. \A p, a, b : Cardinality(Grants(log, p, a, b)) = 0
    <3>1. \A p, a, b : Grants(log, p, a, b) = {}
      BY <2>1 DEF Grants
    <3> QED BY <3>1, FS_EmptySet
  <2>3. 0 <= Requests /\ 0 <= 2 * Requests
    BY ConfigAssumption
  <2>4. \A p \in Peer : entries[p] = NoEntry
    BY DEF LoggedInit, Init
  <2>5. \A p \in Peer : Forgotten(log, p, clock)
    BY <2>1, <2>2, <2>3 DEF Forgotten
  <2> QED BY <2>1, <2>2, <2>3, <2>4, <2>5 DEF BurstInv
<1>2. OrderInv /\ OrderInv' /\ BurstInv /\ [LoggedNext]_<<vars, log>> => BurstInv'
  <2> SUFFICES ASSUME OrderInv, OrderInv', BurstInv, [LoggedNext]_<<vars, log>> PROVE BurstInv'
    OBVIOUS
  <2>1. ASSUME NEW p \in Peer, NEW now \in Stamps, LoggedCheck(p, now) PROVE BurstInv'
    BY <2>1, BurstCheck
  <2>2. CASE LoggedAdvance
    <3>1. clock' = clock + 1 /\ clock \in Nat /\ UNCHANGED <<entries, log>>
      BY <2>2 DEF LoggedAdvance, Advance, OrderInv, BanInv, TypeOK, Time
    <3>2. log \in Seq(LogEntry) /\ \A i \in DOMAIN log : log[i].at \in Nat /\ log[i].at <= clock
      <4>1. log \in Seq(LogEntry) /\ \A i \in DOMAIN log : log[i].at <= clock
        BY DEF BurstInv
      <4>2. \A i \in DOMAIN log : log[i] \in LogEntry
        BY <4>1, ElementOfSeq, LenProperties
      <4> QED BY <4>1, <4>2 DEF LogEntry
    <3>3. \A i \in DOMAIN log' : log'[i].at <= clock'
      BY <3>1, <3>2
    <3>4. \A p \in Peer : Forgotten(log, p, clock) => Forgotten(log, p, clock + 1)
      BY <3>1, <3>2, ForgottenLater
    <3> QED BY <3>1, <3>2, <3>3, <3>4 DEF BurstInv
  <2>3. CASE UNCHANGED <<vars, log>>
    BY <2>3 DEF BurstInv, vars
  <2> QED BY <2>1, <2>2, <2>3 DEF LoggedNext
<1>3. LoggedSpec => []OrderInv
  BY LoggedIsSpec, OrderInvariant, PTL
<1> QED BY <1>1, <1>2, <1>3, PTL DEF LoggedSpec

\* With timestamps in order, check grants a peer at most two windows' worth of
\* requests in any span of window_secs or ban_secs seconds, whichever is less,
\* however full the map is and whatever evict_expired drops from it.
THEOREM BurstTheorem == ASSUME MaxSkew = 0, NoWrap PROVE LoggedSpec => []BurstBounded
<1>1. CASE Span >= 1
  <2>1. InOrder
    BY <1>1, SpanFacts, ConfigAssumption DEF InOrder
  <2>2. BurstInv => BurstBounded
    <3> SUFFICES ASSUME BurstInv, NEW i \in DOMAIN log
                 PROVE  Cardinality(GrantsIn(log[i].peer, log[i].at, Span)) <= 2 * Requests
      BY DEF BurstBounded
    <3>1. log[i] \in LogEntry
      BY ElementOfSeq, LenProperties DEF BurstInv
    <3>2. log[i].peer \in Peer /\ log[i].at \in Nat
      BY <3>1 DEF LogEntry
    <3>3. GrantsIn(log[i].peer, log[i].at, Span) = Grants(log, log[i].peer, log[i].at, log[i].at + Span)
      BY DEF GrantsIn, Grants, GrantedIn
    <3> QED BY <3>2, <3>3 DEF BurstInv
  <2> QED BY <1>1, <2>1, <2>2, BurstInvariant, PTL
<1>2. CASE Span = 0
  <2>1. HistoryInv => BurstBounded
    <3> SUFFICES ASSUME HistoryInv, NEW i \in DOMAIN log
                 PROVE  Cardinality(GrantsIn(log[i].peer, log[i].at, Span)) <= 2 * Requests
      BY DEF BurstBounded
    <3>1. \A j \in DOMAIN log : log[j].at \in Nat
      <4>1. \A j \in DOMAIN log : log[j] \in LogEntry
        BY ElementOfSeq, LenProperties DEF HistoryInv
      <4> QED BY <4>1 DEF LogEntry
    <3>2. GrantsIn(log[i].peer, log[i].at, Span) = {}
      BY <1>2, <3>1 DEF GrantsIn
    <3> QED BY <3>2, FS_EmptySet, ConfigAssumption
  <2> QED BY <2>1, HistoryInvariant, PTL
<1> QED BY <1>1, <1>2, SpanFacts
=============================================================================
