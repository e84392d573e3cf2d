----------------------------- MODULE PumpProofs -----------------------------
(***************************************************************************)
(* Proofs about Pump, for any number of clients and requests, any size of   *)
(* the send buffer and any choice of requests that ask to close.            *)
(***************************************************************************)
EXTENDS Pump, NaturalFacts, SequenceTheorems

Connected == tcp \notin {"closed", "listen"}

\* The loop over step answers some of the requests fed to it, or none.
LEMMA SteppedType ==
    ASSUME NEW q \in Seq(Request)
    PROVE  Stepped(q) \in 0 .. Len(q)
<1> DEFINE closers == {i \in DOMAIN q : q[i].req \in Closing}
<1>1. DOMAIN q = 1 .. Len(q) /\ Len(q) \in Nat
  BY LenProperties
<1>2. CASE closers = {}
  BY <1>1, <1>2 DEF Stepped
<1>3. CASE closers # {}
  <2>1. closers \subseteq Nat
    BY <1>1
  <2> HIDE DEF closers
  <2>2. \E i \in closers : \A j \in closers : i <= j
    BY <1>3, <2>1, Least
  <2>3. (CHOOSE i \in closers : \A j \in closers : i <= j) \in closers
    BY <2>2
  <2>4. QED
    BY <1>1, <1>3, <2>3 DEF Stepped, closers
<1>4. QED
  BY <1>2, <1>3

\* What is sent is a part of what is pending, and fits the send buffer.
LEMMA FitsType ==
    ASSUME NEW q \in Seq(Request), tx \in Seq(Request), Len(tx) <= TxBuf
    PROVE  /\ Fits(q) \in 0 .. Len(q)
           /\ Len(tx) + Fits(q) <= TxBuf
<1>1. Len(q) \in Nat /\ Len(tx) \in Nat /\ TxBuf \in Nat
  BY LenProperties, PumpAssumption
<1>2. QED
  BY <1>1 DEF Fits, Room

\* A sequence cut in two.
LEMMA Cut ==
    ASSUME NEW S, NEW q \in Seq(S), NEW n \in 0 .. Len(q)
    PROVE  /\ SubSeq(q, 1, n) \in Seq(S) /\ Len(SubSeq(q, 1, n)) = n
           /\ SubSeq(q, n + 1, Len(q)) \in Seq(S) /\ Len(SubSeq(q, n + 1, Len(q))) = Len(q) - n
           /\ \A i \in 1 .. n : SubSeq(q, 1, n)[i] = q[i]
           /\ \A i \in 1 .. Len(q) - n : SubSeq(q, n + 1, Len(q))[i] = q[n + i]
<1>1. Len(q) \in Nat /\ \A i \in 1 .. Len(q) : q[i] \in S
  BY LenProperties, ElementOfSeq
<1>2. /\ SubSeq(q, 1, n) \in Seq(S) /\ Len(SubSeq(q, 1, n)) = n
      /\ \A i \in 1 .. n : SubSeq(q, 1, n)[i] = q[i]
  BY <1>1, SubSeqProperties
<1>3. /\ SubSeq(q, n + 1, Len(q)) \in Seq(S) /\ Len(SubSeq(q, n + 1, Len(q))) = Len(q) - n
      /\ \A i \in 1 .. Len(q) - n : SubSeq(q, n + 1, Len(q))[i] = q[n + i]
  BY <1>1, SubSeqProperties
<1>4. QED
  BY <1>2, <1>3

-----------------------------------------------------------------------------
(* The queues between a client and the service, as one numbered run. *)

\* q holds requests of client c, or their responses, numbered on from k.
Run(q, c, k) == \A i \in 1 .. Len(q) : q[i] = [client |-> c, req |-> k + i]

\* Where the responses end, and the requests not yet stepped begin.
Owed == Len(recvd) + Len(tx) + Len(out)

\* A request is in one place at a time, and the places are in order; the ones
\* dispatched are those up to Owed.  A socket that is not connected holds
\* nothing, and one that listens has no state left of the last client.
OrderInv ==
    /\ Connected =>
          /\ client >= 1
          /\ Run(recvd, client, 0)
          /\ Run(tx, client, Len(recvd))
          /\ Run(out, client, Len(recvd) + Len(tx))
          /\ Run(buf, client, Owed)
          /\ Run(rx, client, Owed + Len(buf))
          /\ Owed + Len(buf) + Len(rx) = sent
          /\ \A i \in 1 .. MaxRequests :
                [client |-> client, req |-> i] \in dispatched <=> i <= Owed
    /\ ~ Connected => rx = <<>> /\ tx = <<>>
    /\ tcp = "listen" => buf = <<>> /\ out = <<>>
    /\ \A r \in dispatched : r.client <= client

LEMMA RunConcat ==
    ASSUME NEW q \in Seq(Request), NEW s \in Seq(Request), NEW c, NEW k \in Nat,
           Run(q, c, k), Run(s, c, k + Len(q))
    PROVE  Run(q \o s, c, k)
<1>1. Len(q) \in Nat /\ Len(s) \in Nat /\ Len(q \o s) = Len(q) + Len(s)
  BY LenProperties, ConcatProperties
<1>2. ASSUME NEW i \in 1 .. Len(q) + Len(s) PROVE (q \o s)[i] = [client |-> c, req |-> k + i]
  <2>1. CASE i <= Len(q)
    BY <1>1, <2>1, ConcatProperties DEF Run
  <2>2. CASE i > Len(q)
    <3>1. (q \o s)[i] = s[i - Len(q)] /\ i - Len(q) \in 1 .. Len(s)
      BY <1>1, <2>2, ConcatProperties
    <3>2. (k + Len(q)) + (i - Len(q)) = k + i
      BY <1>1
    <3>3. QED
      BY <3>1, <3>2 DEF Run
  <2>3. QED
    BY <1>1, <2>1, <2>2
<1>3. QED
  BY <1>1, <1>2 DEF Run

LEMMA RunCut ==
    ASSUME NEW q \in Seq(Request), NEW n \in 0 .. Len(q), NEW c, NEW k \in Nat, Run(q, c, k)
    PROVE  /\ Run(SubSeq(q, 1, n), c, k)
           /\ Run(SubSeq(q, n + 1, Len(q)), c, k + n)
<1>1. Len(q) \in Nat
  BY LenProperties
<1>2. Run(SubSeq(q, 1, n), c, k)
  BY <1>1, Cut DEF Run
<1>3. ASSUME NEW i \in 1 .. Len(q) - n
      PROVE  SubSeq(q, n + 1, Len(q))[i] = [client |-> c, req |-> (k + n) + i]
  <2>1. SubSeq(q, n + 1, Len(q))[i] = q[n + i] /\ n + i \in 1 .. Len(q) /\ k + (n + i) = (k + n) + i
    BY <1>1, Cut
  <2>2. QED
    BY <2>1 DEF Run
<1>4. QED
  BY <1>1, <1>2, <1>3, Cut DEF Run

-----------------------------------------------------------------------------
(* The steps. *)

LEMMA QueueTypes ==
    ASSUME TypeOK
    PROVE  /\ rx \in Seq(Request) /\ tx \in Seq(Request) /\ recvd \in Seq(Request)
           /\ buf \in Seq(Request) /\ out \in Seq(Request)
           /\ Len(rx) \in Nat /\ Len(tx) \in Nat /\ Len(recvd) \in Nat
           /\ Len(buf) \in Nat /\ Len(out) \in Nat
           /\ client \in Nat /\ sent \in Nat /\ TxBuf \in Nat
<1>1. /\ rx \in Seq(Request) /\ tx \in Seq(Request) /\ recvd \in Seq(Request)
      /\ buf \in Seq(Request) /\ out \in Seq(Request)
  BY DEF TypeOK
<1>2. QED
  BY <1>1, LenProperties, PumpAssumption DEF TypeOK

\* Serve, with the two cuts it makes named: n of the requests fed are stepped,
\* f of the pending responses are sent.
LEMMA ServeShape ==
    ASSUME TypeOK, Serve
    PROVE  \E fed, pending \in Seq(Request) : \E n \in 0 .. Len(fed), f \in 0 .. Len(pending) :
              /\ fed = buf \o rx /\ pending = out \o SubSeq(fed, 1, n)
              /\ rx' = <<>> /\ buf' = SubSeq(fed, n + 1, Len(fed))
              /\ dispatched' = dispatched \cup {fed[i] : i \in 1 .. n}
              /\ tx' = tx \o SubSeq(pending, 1, f) /\ Len(tx) + f <= TxBuf
              /\ out' = SubSeq(pending, f + 1, Len(pending))
              /\ close' \in BOOLEAN
<1> DEFINE fed == buf \o rx
           n == Stepped(fed)
           pending == out \o SubSeq(fed, 1, n)
           f == Fits(pending)
<1>1. fed \in Seq(Request)
  BY QueueTypes, ConcatProperties
<1>2. n \in 0 .. Len(fed)
  BY <1>1, SteppedType
<1>3. pending \in Seq(Request)
  <2> HIDE DEF n, fed
  <2>1. SubSeq(fed, 1, n) \in Seq(Request)
    BY <1>1, <1>2, Cut
  <2>2. QED
    BY <2>1, QueueTypes, ConcatProperties
<1>4. f \in 0 .. Len(pending) /\ Len(tx) + f <= TxBuf
  <2> HIDE DEF pending
  <2>1. QED
    BY <1>3, QueueTypes, FitsType DEF TypeOK
<1>5. /\ rx' = <<>> /\ buf' = SubSeq(fed, n + 1, Len(fed))
      /\ dispatched' = dispatched \cup {fed[i] : i \in 1 .. n}
      /\ tx' = tx \o SubSeq(pending, 1, f)
      /\ out' = SubSeq(pending, f + 1, Len(pending))
      /\ close' \in BOOLEAN
  BY DEF Serve
<1>6. pending = out \o SubSeq(fed, 1, n) /\ fed = buf \o rx
  OBVIOUS
<1> HIDE DEF fed, n, pending, f
<1>7. QED
  BY <1>1, <1>2, <1>3, <1>4, <1>5, <1>6

\* The pump opens no connection and ends none at once.
LEMMA ServeState ==
    ASSUME TypeOK, Serve
    PROVE  /\ tcp # "closed" /\ tcp' \in States /\ tcp' # "closed"
           /\ Connected' <=> Connected
           /\ tcp' = "listen" <=> tcp = "listen"
           /\ UNCHANGED <<client, sent, recvd>>
<1>1. tcp \in States /\ tcp # "closed" /\ UNCHANGED <<client, sent, recvd>>
  BY DEF TypeOK, Serve
<1>2. tcp' = tcp \/ tcp' = AfterClose
  BY DEF Serve
<1>3. QED
  BY <1>1, <1>2 DEF AfterClose, States, Connected

LEMMA TypeStep == TypeOK /\ OrderInv /\ [Next]_vars => TypeOK'
<1> SUFFICES ASSUME TypeOK, OrderInv, [Next]_vars PROVE TypeOK'
  OBVIOUS
<1> USE QueueTypes, PumpAssumption DEF socket, conn
<1>1. CASE Rearm
  <2>1. buf' \in Seq(Request) /\ out' \in Seq(Request)
    BY <1>1 DEF Rearm
  <2>2. UNCHANGED <<client, sent, rx, tx, recvd, dispatched>> /\ tcp' = "listen" /\ close' = FALSE
    BY <1>1 DEF Rearm
  <2>3. QED
    BY <2>1, <2>2 DEF TypeOK, States
<1>2. CASE Serve
  <2>1. PICK fed \in Seq(Request), pending \in Seq(Request) :
          \E n \in 0 .. Len(fed), f \in 0 .. Len(pending) :
              /\ fed = buf \o rx /\ pending = out \o SubSeq(fed, 1, n)
              /\ rx' = <<>> /\ buf' = SubSeq(fed, n + 1, Len(fed))
              /\ dispatched' = dispatched \cup {fed[i] : i \in 1 .. n}
              /\ tx' = tx \o SubSeq(pending, 1, f) /\ Len(tx) + f <= TxBuf
              /\ out' = SubSeq(pending, f + 1, Len(pending))
              /\ close' \in BOOLEAN
    BY <1>2, ServeShape
  <2>2. PICK n \in 0 .. Len(fed), f \in 0 .. Len(pending) :
              /\ rx' = <<>> /\ buf' = SubSeq(fed, n + 1, Len(fed))
              /\ dispatched' = dispatched \cup {fed[i] : i \in 1 .. n}
              /\ tx' = tx \o SubSeq(pending, 1, f) /\ Len(tx) + f <= TxBuf
              /\ out' = SubSeq(pending, f + 1, Len(pending))
              /\ close' \in BOOLEAN
    BY <2>1
  <2>3. buf' \in Seq(Request) /\ out' \in Seq(Request) /\ rx' \in Seq(Request)
    <3>1. /\ SubSeq(fed, n + 1, Len(fed)) \in Seq(Request)
          /\ SubSeq(pending, f + 1, Len(pending)) \in Seq(Request)
      BY Cut, ZenonT(40)
    <3>2. <<>> \in Seq(Request)
      OBVIOUS
    <3>3. QED
      BY <2>2, <3>1, <3>2, Zenon
  <2>4. SubSeq(pending, 1, f) \in Seq(Request) /\ Len(SubSeq(pending, 1, f)) = f
    BY Cut
  <2>5. tx' \in Seq(Request) /\ Len(tx') <= TxBuf
    BY <2>2, <2>4, ConcatProperties
  <2>6. dispatched' \subseteq Request
    <3>1. \A i \in 1 .. n : fed[i] \in Request
      BY ElementOfSeq, LenProperties
    <3>2. QED
      BY <2>2, <3>1 DEF TypeOK
  <2>7. QED
    BY <1>2, <2>2, <2>3, <2>5, <2>6, ServeState DEF TypeOK
<1>3. CASE Connect
  BY <1>3 DEF Connect, TypeOK, States
<1>4. CASE Send
  <2>1. [client |-> client, req |-> sent + 1] \in Request
    BY <1>4 DEF Send, TypeOK, OrderInv, Connected, Request
  <2>2. rx' \in Seq(Request)
    BY <1>4, <2>1, AppendProperties DEF Send
  <2>3. QED
    BY <1>4, <2>2 DEF Send, TypeOK
<1>5. CASE Receive
  <2>1. tx # <<>> /\ recvd' = Append(recvd, Head(tx)) /\ tx' = Tail(tx)
    BY <1>5 DEF Receive
  <2>2. Head(tx) \in Request /\ tx' \in Seq(Request) /\ Len(tx') = Len(tx) - 1
    BY <2>1, HeadTailProperties
  <2>3. recvd' \in Seq(Request)
    BY <2>1, <2>2, AppendProperties
  <2>4. QED
    BY <1>5, <2>2, <2>3 DEF Receive, TypeOK
<1>6. CASE Fin
  BY <1>6 DEF Fin, TypeOK, States
<1>7. CASE Acknowledge
  BY <1>7 DEF Acknowledge, TypeOK, States
<1>8. CASE Reset
  BY <1>8 DEF Reset, TypeOK, States
<1>9. CASE UNCHANGED vars
  BY <1>9 DEF vars, TypeOK
<1>10. QED
  BY <1>1, <1>2, <1>3, <1>4, <1>5, <1>6, <1>7, <1>8, <1>9 DEF Next, PumpStep

\* What the responses end at is a number.
LEMMA OwedType ==
    ASSUME TypeOK
    PROVE  Owed \in Nat
BY QueueTypes DEF Owed

LEMMA OrderStep == TypeOK /\ OrderInv /\ [Next]_vars => OrderInv'
<1> SUFFICES ASSUME TypeOK, OrderInv, [Next]_vars PROVE OrderInv'
  OBVIOUS
<1> USE QueueTypes DEF socket, conn
<1>1. CASE Rearm
  <2>1. /\ tcp = "closed" /\ tcp' = "listen" /\ buf' = <<>> /\ out' = <<>>
        /\ UNCHANGED <<client, sent, rx, tx, recvd, dispatched>>
    BY <1>1 DEF Rearm
  <2>2. QED
    BY <2>1 DEF OrderInv, Connected
<1>2. CASE Serve
  <2>1. PICK fed \in Seq(Request), pending \in Seq(Request) :
          \E n \in 0 .. Len(fed), f \in 0 .. Len(pending) :
              /\ fed = buf \o rx /\ pending = out \o SubSeq(fed, 1, n)
              /\ rx' = <<>> /\ buf' = SubSeq(fed, n + 1, Len(fed))
              /\ dispatched' = dispatched \cup {fed[i] : i \in 1 .. n}
              /\ tx' = tx \o SubSeq(pending, 1, f) /\ Len(tx) + f <= TxBuf
              /\ out' = SubSeq(pending, f + 1, Len(pending))
    BY <1>2, ServeShape
  <2>2. PICK n \in 0 .. Len(fed), f \in 0 .. Len(pending) :
              /\ fed = buf \o rx /\ pending = out \o SubSeq(fed, 1, n)
              /\ rx' = <<>> /\ buf' = SubSeq(fed, n + 1, Len(fed))
              /\ dispatched' = dispatched \cup {fed[i] : i \in 1 .. n}
              /\ tx' = tx \o SubSeq(pending, 1, f)
              /\ out' = SubSeq(pending, f + 1, Len(pending))
    BY <2>1
  <2>3. /\ Connected' <=> Connected
        /\ tcp' = "listen" <=> tcp = "listen"
        /\ UNCHANGED <<client, sent, recvd>>
    BY <1>2, ServeState
  <2> DEFINE head == SubSeq(fed, 1, n)
             front == SubSeq(pending, 1, f)
  <2>4. /\ head \in Seq(Request) /\ Len(head) = n
        /\ front \in Seq(Request) /\ Len(front) = f
        /\ Len(buf') = Len(fed) - n /\ Len(out') = Len(pending) - f
    <3>1. head \in Seq(Request) /\ Len(head) = n /\ Len(SubSeq(fed, n + 1, Len(fed))) = Len(fed) - n
      BY Cut, ZenonT(40)
    <3>2. front \in Seq(Request) /\ Len(front) = f /\ Len(SubSeq(pending, f + 1, Len(pending))) = Len(pending) - f
      BY Cut, ZenonT(40)
    <3>3. QED
      BY <2>2, <3>1, <3>2, Zenon
  <2>5. /\ Len(fed) \in Nat /\ Len(fed) = Len(buf) + Len(rx)
        /\ Len(pending) \in Nat /\ Len(pending) = Len(out) + n
        /\ tx' \in Seq(Request) /\ Len(tx') = Len(tx) + f
    <3>1. fed = buf \o rx /\ pending = out \o head /\ tx' = tx \o front
      BY <2>2
    <3> HIDE DEF head, front
    <3>2. QED
      BY <2>4, <3>1, ConcatProperties, LenProperties
  <2>6. Owed' = Owed + n
    BY <2>3, <2>4, <2>5 DEF Owed
  <2>7. CASE Connected
    <3>1. /\ client >= 1
          /\ Run(recvd, client, 0) /\ Run(tx, client, Len(recvd))
          /\ Run(out, client, Len(recvd) + Len(tx))
          /\ Run(buf, client, Owed) /\ Run(rx, client, Owed + Len(buf))
          /\ Owed + Len(buf) + Len(rx) = sent
      BY <2>7 DEF OrderInv
    <3>2. Run(fed, client, Owed)
      BY <2>2, <3>1, OwedType, RunConcat
    <3>3. Run(head, client, Owed) /\ Run(buf', client, Owed + n)
      BY <2>2, <3>2, OwedType, RunCut
    <3>4. Len(recvd) + Len(tx) \in Nat /\ (Len(recvd) + Len(tx)) + Len(out) = Owed
      BY DEF Owed
    <3>5. Run(pending, client, Len(recvd) + Len(tx))
      <4>1. pending = out \o head
        BY <2>2
      <4> HIDE DEF head
      <4>2. QED
        BY <2>4, <3>1, <3>3, <3>4, <4>1, RunConcat
    <3>6. Run(front, client, Len(recvd) + Len(tx)) /\ Run(out', client, (Len(recvd) + Len(tx)) + f)
      BY <2>2, <3>4, <3>5, RunCut
    <3>7. Run(tx', client, Len(recvd))
      <4>1. tx' = tx \o front
        BY <2>2
      <4> HIDE DEF front
      <4>2. QED
        BY <2>4, <3>1, <3>6, <4>1, RunConcat
    <3>8. Run(out', client, Len(recvd) + Len(tx'))
      <4>1. (Len(recvd) + Len(tx)) + f = Len(recvd) + Len(tx')
        BY <2>5
      <4>2. QED
        BY <3>6, <4>1
    <3>9. Len(rx') = 0 /\ Run(rx', client, Owed' + Len(buf'))
      BY <2>2 DEF Run
    <3>10. Owed' + Len(buf') + Len(rx') = sent
      <4>1. Owed \in Nat /\ n \in Nat /\ Len(buf) \in Nat /\ Len(rx) \in Nat
        BY <2>5, OwedType
      <4>2. /\ Owed' = Owed + n /\ Len(rx') = 0 /\ Owed + Len(buf) + Len(rx) = sent
            /\ Len(buf') = (Len(buf) + Len(rx)) - n
        BY <2>4, <2>5, <2>6, <3>1, <3>9
      <4>3. QED
        BY ONLY <4>1, <4>2
    <3>11. \A i \in 1 .. n : fed[i] = [client |-> client, req |-> Owed + i]
      BY <2>5, <3>2 DEF Run
    <3>12. ASSUME NEW i \in 1 .. MaxRequests
           PROVE  [client |-> client, req |-> i] \in dispatched' <=> i <= Owed'
      <4>1. [client |-> client, req |-> i] \in dispatched <=> i <= Owed
        BY <2>7 DEF OrderInv
      <4>2. ASSUME NEW j \in 1 .. n, fed[j] = [client |-> client, req |-> i] PROVE i = Owed + j
        <5>1. [client |-> client, req |-> Owed + j].req = [client |-> client, req |-> i].req
          BY <3>11, <4>2
        <5>2. QED
          BY <5>1
      <4>3. ASSUME i > Owed, i <= Owed + n PROVE i - Owed \in 1 .. n /\ fed[i - Owed] = [client |-> client, req |-> i]
        <5>1. i - Owed \in 1 .. n /\ Owed + (i - Owed) = i
          BY <4>3, OwedType, PumpAssumption
        <5>2. QED
          BY <3>11, <5>1
      <4>4. ASSUME [client |-> client, req |-> i] \in dispatched' PROVE i <= Owed + n
        <5>1. CASE [client |-> client, req |-> i] \in dispatched
          BY <4>1, <5>1, OwedType, PumpAssumption
        <5>2. CASE \E j \in 1 .. n : fed[j] = [client |-> client, req |-> i]
          <6>1. PICK j \in 1 .. n : fed[j] = [client |-> client, req |-> i]
            BY <5>2
          <6>2. i = Owed + j
            BY <4>2, <6>1
          <6>3. Owed \in Nat /\ n \in Nat /\ j \in Nat /\ j <= n
            BY <2>5, OwedType
          <6>4. QED
            BY ONLY <6>2, <6>3
        <5>3. QED
          BY <2>2, <4>4, <5>1, <5>2
      <4>5. ASSUME i <= Owed + n PROVE [client |-> client, req |-> i] \in dispatched'
        <5>1. CASE i <= Owed
          BY <2>2, <4>1, <5>1
        <5>2. CASE i > Owed
          BY <2>2, <4>3, <4>5, <5>2
        <5>3. QED
          BY <5>1, <5>2, OwedType, PumpAssumption
      <4>6. QED
        BY <2>6, <4>4, <4>5
    <3>13. \A r \in dispatched' : r.client <= client
      <4>1. ASSUME NEW j \in 1 .. n PROVE fed[j].client = client
        <5>1. fed[j] = [client |-> client, req |-> Owed + j]
          BY <3>11
        <5>2. QED
          BY <5>1
      <4>2. \A r \in dispatched : r.client <= client
        BY DEF OrderInv
      <4>3. \A r \in dispatched' : r \in dispatched \/ \E j \in 1 .. n : r = fed[j]
        BY <2>2
      <4>4. client <= client
        OBVIOUS
      <4>5. QED
        BY <4>1, <4>2, <4>3, <4>4, ZenonT(40)
    <3>14. Connected' /\ tcp # "listen"
      BY <2>3, <2>7 DEF Connected
    <3>15. Run(buf', client, Owed')
      BY <2>6, <3>3
    <3>16. QED
      BY <2>3, <3>1, <3>7, <3>8, <3>9, <3>10, <3>12, <3>13, <3>14, <3>15 DEF OrderInv
  <2>8. CASE ~ Connected
    <3>1. tcp = "listen"
      BY <1>2, <2>8, ServeState DEF Connected
    <3>2. buf = <<>> /\ rx = <<>> /\ tx = <<>> /\ out = <<>>
      BY <2>8, <3>1 DEF OrderInv
    <3>3. Len(fed) = 0 /\ n = 0 /\ Len(pending) = 0 /\ f = 0
      BY <2>4, <2>5, <3>2
    <3>4. Len(buf') = 0 /\ Len(out') = 0 /\ Len(tx') = 0
      BY <2>4, <2>5, <3>2, <3>3
    <3>5. buf' \in Seq(Request) /\ out' \in Seq(Request)
      BY <2>2, Cut
    <3>6. buf' = <<>> /\ out' = <<>> /\ tx' = <<>>
      BY <2>5, <3>4, <3>5, EmptySeq
    <3>7. dispatched' = dispatched
      BY <2>2, <3>3
    <3>8. QED
      BY <2>2, <2>3, <2>8, <3>6, <3>7 DEF OrderInv
  <2>9. QED
    BY <2>7, <2>8
<1>3. CASE Connect
  <2>1. /\ tcp = "listen" /\ tcp' = "established" /\ client' = client + 1
        /\ sent' = 0 /\ recvd' = <<>>
        /\ UNCHANGED <<rx, tx, buf, out, dispatched>>
    BY <1>3 DEF Connect
  <2>2. rx = <<>> /\ tx = <<>> /\ buf = <<>> /\ out = <<>>
    BY <2>1 DEF OrderInv, Connected
  <2>3. Owed' = 0 /\ Len(rx') = 0 /\ Len(tx') = 0 /\ Len(buf') = 0 /\ Len(out') = 0 /\ Len(recvd') = 0
    BY <2>1, <2>2 DEF Owed
  <2>4. \A r \in dispatched' : r.client <= client /\ r.client \in Nat
    BY <2>1 DEF OrderInv, TypeOK, Request
  <2>5. ASSUME NEW i \in 1 .. MaxRequests PROVE ~ ([client |-> client', req |-> i] \in dispatched')
    <3>1. [client |-> client + 1, req |-> i].client = client + 1
      OBVIOUS
    <3>2. QED
      BY <2>1, <2>4, <3>1
  <2>6. /\ Run(recvd', client', 0) /\ Run(tx', client', Len(recvd'))
        /\ Run(out', client', Len(recvd') + Len(tx')) /\ Run(buf', client', Owed')
        /\ Run(rx', client', Owed' + Len(buf'))
    BY <2>3 DEF Run
  <2>7. \A r \in dispatched' : r.client <= client'
    BY <2>1, <2>4
  <2>8. client' >= 1 /\ Owed' + Len(buf') + Len(rx') = sent' /\ Connected'
    BY <2>1, <2>3 DEF Connected
  <2>9. \A i \in 1 .. MaxRequests : i <= Owed' <=> FALSE
    BY <2>3, PumpAssumption
  <2>10. QED
    BY <2>1, <2>5, <2>6, <2>7, <2>8, <2>9 DEF OrderInv, Connected
<1>4. CASE Send
  <2>1. /\ Connected /\ tcp' = tcp /\ rx' = Append(rx, [client |-> client, req |-> sent + 1])
        /\ sent' = sent + 1 /\ sent < MaxRequests
        /\ UNCHANGED <<client, tx, recvd, buf, out, dispatched>>
    BY <1>4 DEF Send, Connected
  <2>2. Owed' = Owed /\ Owed \in Nat /\ Connected'
    BY <2>1, OwedType DEF Owed, Connected
  <2>3. /\ client >= 1 /\ Run(rx, client, Owed + Len(buf))
        /\ Owed + Len(buf) + Len(rx) = sent
    BY <2>1 DEF OrderInv
  <2>4. [client |-> client, req |-> sent + 1] \in Request
    BY <2>1, <2>3, PumpAssumption DEF TypeOK, Request
  <2>5. /\ Len(rx') = Len(rx) + 1
        /\ \A i \in 1 .. Len(rx) : rx'[i] = rx[i]
        /\ rx'[Len(rx) + 1] = [client |-> client, req |-> sent + 1]
    BY <2>1, <2>4, AppendProperties
  <2>6. Run(rx', client, Owed + Len(buf))
    <3>1. (Owed + Len(buf)) + (Len(rx) + 1) = sent + 1
      BY <2>2, <2>3
    <3>2. \A i \in 1 .. Len(rx) + 1 : i \in 1 .. Len(rx) \/ i = Len(rx) + 1
      OBVIOUS
    <3>3. \A i \in 1 .. Len(rx) : rx[i] = [client |-> client, req |-> (Owed + Len(buf)) + i]
      BY <2>3 DEF Run
    <3>4. ASSUME NEW i \in 1 .. Len(rx) + 1
          PROVE  rx'[i] = [client |-> client, req |-> (Owed + Len(buf)) + i]
      BY <2>5, <3>1, <3>2, <3>3
    <3>5. QED
      BY <2>5, <3>4 DEF Run
  <2>7. Owed + Len(buf) + Len(rx') = sent'
    BY <2>1, <2>2, <2>3, <2>5
  <2>8. QED
    BY <2>1, <2>2, <2>6, <2>7 DEF OrderInv, Connected
<1>5. CASE Receive
  <2>1. /\ Connected /\ tx # <<>> /\ recvd' = Append(recvd, Head(tx)) /\ tx' = Tail(tx)
        /\ UNCHANGED <<tcp, client, sent, rx, buf, out, dispatched>>
    BY <1>5 DEF Receive, Connected
  <2>2. /\ Head(tx) = tx[1] /\ Head(tx) \in Request /\ Len(tx') = Len(tx) - 1
        /\ Len(tx) >= 1 /\ \A i \in 1 .. Len(tx) - 1 : tx'[i] = tx[i + 1]
    BY <2>1, HeadTailProperties, EmptySeq
  <2>3. /\ Len(recvd') = Len(recvd) + 1
        /\ \A i \in 1 .. Len(recvd) : recvd'[i] = recvd[i]
        /\ recvd'[Len(recvd) + 1] = Head(tx)
    BY <2>1, <2>2, AppendProperties
  <2>4. Run(recvd, client, 0) /\ Run(tx, client, Len(recvd))
    BY <2>1 DEF OrderInv
  <2>5. Run(recvd', client, 0)
    <3>1. Head(tx) = [client |-> client, req |-> Len(recvd) + 1]
      <4>1. 1 \in 1 .. Len(tx)
        BY <2>2
      <4>2. QED
        BY <2>2, <2>4, <4>1 DEF Run
    <3>2. \A i \in 1 .. Len(recvd) : recvd[i] = [client |-> client, req |-> 0 + i]
      BY <2>4 DEF Run
    <3>3. \A i \in 1 .. Len(recvd) + 1 : i \in 1 .. Len(recvd) \/ i = Len(recvd) + 1
      OBVIOUS
    <3>4. ASSUME NEW i \in 1 .. Len(recvd) + 1 PROVE recvd'[i] = [client |-> client, req |-> 0 + i]
      <4>1. CASE i \in 1 .. Len(recvd)
        BY <2>3, <3>2, <4>1
      <4>2. CASE i = Len(recvd) + 1
        <5>1. 0 + i = Len(recvd) + 1
          BY <4>2
        <5>2. QED
          BY <2>3, <3>1, <4>2, <5>1
      <4>3. QED
        BY <3>3, <4>1, <4>2
    <3>5. QED
      BY <2>3, <3>4 DEF Run
  <2>6. Run(tx', client, Len(recvd'))
    <3>1. ASSUME NEW i \in 1 .. Len(tx) - 1 PROVE tx'[i] = [client |-> client, req |-> (Len(recvd) + 1) + i]
      <4>1. tx'[i] = tx[i + 1] /\ i + 1 \in 1 .. Len(tx) /\ Len(recvd) + (i + 1) = (Len(recvd) + 1) + i
        BY <2>2
      <4>2. QED
        BY <2>4, <4>1 DEF Run
    <3>2. QED
      BY <2>2, <2>3, <3>1 DEF Run
  <2>7. Owed' = Owed /\ Len(recvd') + Len(tx') = Len(recvd) + Len(tx)
    BY <2>1, <2>2, <2>3 DEF Owed
  <2>8. QED
    BY <2>1, <2>5, <2>6, <2>7 DEF OrderInv, Connected
<1>6. CASE Fin
  <2>1. Connected /\ Connected' /\ UNCHANGED <<client, sent, rx, tx, recvd, buf, out, dispatched>>
    BY <1>6 DEF Fin, Connected
  <2>2. QED
    BY <2>1 DEF OrderInv, Connected, Owed
<1>7. CASE Acknowledge
  <2>1. /\ tcp' = "closed" /\ rx' = <<>> /\ tx' = <<>>
        /\ UNCHANGED <<client, dispatched>>
    BY <1>7 DEF Acknowledge
  <2>2. QED
    BY <2>1 DEF OrderInv, Connected
<1>8. CASE Reset
  BY <1>8 DEF Reset, OrderInv, Connected
<1>9. CASE UNCHANGED vars
  BY <1>9 DEF vars, OrderInv, Connected, Owed
<1>10. QED
  BY <1>1, <1>2, <1>3, <1>4, <1>5, <1>6, <1>7, <1>8, <1>9 DEF Next, PumpStep

LEMMA InitInv == Init => TypeOK /\ OrderInv
<1> SUFFICES ASSUME Init PROVE TypeOK /\ OrderInv
  OBVIOUS
<1>1. TypeOK
  <2>1. <<>> \in Seq(Request) /\ Len(<<>>) = 0
    OBVIOUS
  <2>2. rx = <<>> /\ tx = <<>> /\ recvd = <<>> /\ buf = <<>> /\ out = <<>>
    BY DEF Init
  <2>3. \A q \in {rx, tx, recvd, buf, out} : q \in Seq(Request)
    BY <2>1, <2>2
  <2>4. tcp \in States /\ client = 0 /\ sent = 0 /\ close \in BOOLEAN /\ dispatched = {} /\ Len(tx) = 0
    BY <2>1, <2>2 DEF Init, States
  <2>5. QED
    BY <2>3, <2>4, PumpAssumption DEF TypeOK
<1>2. OrderInv
  BY DEF Init, OrderInv, Connected
<1>3. QED
  BY <1>1, <1>2

LEMMA OrderInvariant == Spec => [](TypeOK /\ OrderInv)
<1>1. Init => TypeOK /\ OrderInv
  BY InitInv
<1>2. TypeOK /\ OrderInv /\ [Next]_vars => (TypeOK /\ OrderInv)'
  BY TypeStep, OrderStep
<1>3. QED
  BY <1>1, <1>2, PTL DEF Spec

\* The state of the socket and of ConnState has its type, and the send buffer
\* is never overfilled, for any number of pump_connection calls and clients.
THEOREM PumpTypeCorrect == Spec => []TypeOK
BY OrderInvariant, PTL

\* What is with a client, in the send buffer or in ConnState.out are the
\* responses to its own requests, each once and in order: pump_connection
\* leaves nothing to the next client when it arms the socket again, and a full
\* send buffer loses or repeats nothing.
THEOREM InOrder == Spec => []ResponsesInOrder
<1>1. ASSUME TypeOK, OrderInv PROVE ResponsesInOrder
  <2>1. SUFFICES ASSUME Connected
                 PROVE  \A i \in DOMAIN (recvd \o tx \o out) :
                            (recvd \o tx \o out)[i] = [client |-> client, req |-> i]
    BY DEF ResponsesInOrder, Connected
  <2> USE <1>1, QueueTypes
  <2>2. Run(recvd, client, 0) /\ Run(tx, client, Len(recvd)) /\ Run(out, client, Len(recvd) + Len(tx))
    BY <2>1 DEF OrderInv
  <2>3. recvd \o tx \in Seq(Request) /\ Len(recvd \o tx) = Len(recvd) + Len(tx)
    BY ConcatProperties
  <2>4. Run(recvd \o tx, client, 0)
    BY <2>2, RunConcat
  <2>5. Run(recvd \o tx \o out, client, 0)
    <3> DEFINE way == recvd \o tx
    <3>1. way \in Seq(Request) /\ Run(way, client, 0) /\ Run(out, client, 0 + Len(way))
      BY <2>2, <2>3, <2>4
    <3> HIDE DEF way
    <3>2. Run(way \o out, client, 0)
      BY <3>1, RunConcat
    <3>3. QED
      BY <3>2 DEF way
  <2>6. recvd \o tx \o out \in Seq(Request)
    BY <2>3, ConcatProperties
  <2> DEFINE way == recvd \o tx \o out
  <2> HIDE DEF way
  <2>7. DOMAIN way = 1 .. Len(way) /\ Len(way) \in Nat
    BY <2>6, LenProperties DEF way
  <2>8. \A i \in DOMAIN way : way[i] = [client |-> client, req |-> 0 + i] /\ 0 + i = i
    BY <2>5, <2>7 DEF Run, way
  <2>9. QED
    BY <2>8 DEF way
<1>2. QED
  BY <1>1, OrderInvariant, PTL

\* A request is handed to the service if and only if its response is with the
\* client, in the send buffer or pending in ConnState.out: the step loop of
\* pump_connection answers no request twice and skips none.
THEOREM Owing == Spec => []OwedIsPending
<1>1. ASSUME TypeOK, OrderInv PROVE OwedIsPending
  <2> USE <1>1, QueueTypes
  <2>1. Len(recvd \o tx \o out) = Owed
    <3>1. recvd \o tx \in Seq(Request) /\ Len(recvd \o tx) = Len(recvd) + Len(tx)
      BY ConcatProperties
    <3>2. QED
      BY <3>1, ConcatProperties DEF Owed
  <2>2. 1 .. sent \subseteq 1 .. MaxRequests
    BY PumpAssumption DEF TypeOK
  <2>3. QED
    BY <2>1, <2>2 DEF OwedIsPending, OrderInv, Connected
<1>2. QED
  BY <1>1, OrderInvariant, PTL
=============================================================================
