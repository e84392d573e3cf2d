-------------------------------- MODULE Pump --------------------------------
(***************************************************************************)
(* The embedded transport of embedded/src/lib.rs: pump_connection over one  *)
(* smoltcp TCP socket, called again and again by serve_smoltcp, while the   *)
(* network moves the socket between the calls.                              *)
(*                                                                          *)
(* A request that has arrived, and a response, are one unit each.  Clients  *)
(* come one after the other to the same socket and number their requests;   *)
(* the requests in Closing ask to close.  smoltcp itself is external: its   *)
(* TIME-WAIT counts as "closed", as in Socket::is_open, and "closing" has   *)
(* both ends closed with data on the way.                                   *)
(*                                                                          *)
(* The error arm of serve_smoltcp is not reached: recv and send are called  *)
(* only when can_recv and can_send hold, listen only on a closed socket.    *)
(***************************************************************************)
EXTENDS Integers, Sequences

CONSTANTS
    MaxClients,     \* bound on the clients (model checking)
    MaxRequests,    \* bound on the requests of a client
    Closing,        \* the numbers of the requests that ask to close
    TxBuf           \* responses the send buffer holds

ASSUME PumpAssumption ==
    /\ MaxClients \in Nat /\ MaxRequests \in Nat
    /\ Closing \subseteq 1 .. MaxRequests
    /\ TxBuf \in Nat \ {0}

VARIABLES
    \* the socket and its peer
    tcp,            \* state of the server's socket
    client,         \* the client it serves, or served last
    sent,           \* requests this client has sent
    rx,             \* received, not yet taken by the pump
    tx,             \* accepted by the socket, not yet read by the client
    recvd,          \* responses this client has read
    \* ConnState
    buf,            \* requests in the buffer of conn
    out,            \* ConnState.out
    close,          \* ConnState.close
    \* history
    dispatched      \* requests handed to the service

socket == <<tcp, client, sent, rx, tx, recvd>>
conn == <<buf, out, close>>
vars == <<socket, conn, dispatched>>

States == {"closed", "listen", "established", "closeWait", "finWait", "closing", "lastAck"}

Request == [client : 1 .. MaxClients, req : 1 .. MaxRequests]

Init ==
    /\ tcp = "closed"
    /\ client = 0 /\ sent = 0
    /\ rx = <<>> /\ tx = <<>> /\ recvd = <<>>
    /\ buf = <<>> /\ out = <<>> /\ close = FALSE
    /\ dispatched = {}

-----------------------------------------------------------------------------
(* The network and the clients. *)

Connect ==
    /\ tcp = "listen" /\ client < MaxClients
    /\ tcp' = "established"
    /\ client' = client + 1
    /\ sent' = 0 /\ recvd' = <<>>
    /\ UNCHANGED <<rx, tx, conn, dispatched>>

Send ==
    /\ tcp \in {"established", "finWait"} /\ sent < MaxRequests
    /\ sent' = sent + 1
    /\ rx' = Append(rx, [client |-> client, req |-> sent + 1])
    /\ UNCHANGED <<tcp, client, tx, recvd, conn, dispatched>>

Receive ==
    /\ tcp \notin {"closed", "listen"} /\ tx # <<>>
    /\ recvd' = Append(recvd, Head(tx))
    /\ tx' = Tail(tx)
    /\ UNCHANGED <<tcp, client, sent, rx, conn, dispatched>>

\* The client closes its end.
Fin ==
    /\ \/ tcp = "established" /\ tcp' = "closeWait"
       \/ tcp = "finWait" /\ tcp' = "closing"
    /\ UNCHANGED <<client, sent, rx, tx, recvd, conn, dispatched>>

\* The last data is acknowledged.
Acknowledge ==
    /\ tcp \in {"closing", "lastAck"} /\ tx = <<>>
    /\ tcp' = "closed" /\ rx' = <<>>
    /\ UNCHANGED <<client, sent, tx, recvd, conn, dispatched>>

\* The client resets the connection.
Reset ==
    /\ tcp \notin {"closed", "listen"}
    /\ tcp' = "closed" /\ rx' = <<>> /\ tx' = <<>>
    /\ UNCHANGED <<client, sent, recvd, conn, dispatched>>

-----------------------------------------------------------------------------
(* pump_connection. *)

\* Faulty variant: what the last client was owed is kept.
RearmKeepsOut ==
    /\ tcp = "closed"
    /\ tcp' = "listen"
    /\ buf' = <<>> /\ close' = FALSE
    /\ UNCHANGED <<client, sent, rx, tx, recvd, out, dispatched>>

\* A socket that is not open is armed again, with fresh state.
Rearm ==
    /\ tcp = "closed"
    /\ tcp' = "listen"
    /\ buf' = <<>> /\ out' = <<>> /\ close' = FALSE
    /\ UNCHANGED <<client, sent, rx, tx, recvd, dispatched>>

\* How many of the requests of q the step loop answers: it stops after the
\* first that asks to close.
Stepped(q) ==
    LET closers == {i \in DOMAIN q : q[i].req \in Closing}
    IN  IF closers = {} THEN Len(q) ELSE CHOOSE i \in closers : \A j \in closers : i <= j

\* Faulty variant: what the send buffer already holds is not counted.
RoomEmpty == IF tcp \in {"established", "closeWait"} THEN TxBuf ELSE 0

\* can_send, and what send_slice takes at most.
Room == IF tcp \in {"established", "closeWait"} THEN TxBuf - Len(tx) ELSE 0

\* Faulty variant: all of the pending output is sent, or none.
FitsWhole(pending) == IF Len(pending) <= Room THEN Len(pending) ELSE 0

\* How much of the pending output send_slice takes.
Fits(pending) == IF Len(pending) <= Room THEN Len(pending) ELSE Room

\* Socket::close.
AfterClose ==
    IF tcp = "established" THEN "finWait"
    ELSE IF tcp = "closeWait" THEN "lastAck"
    ELSE tcp

\* Faulty variant: a response that does not fit forgets that it has to close.
ServeForgets ==
    LET fed == buf \o rx
        n == Stepped(fed)
        pending == out \o SubSeq(fed, 1, n)
        flushed == Fits(pending)
        closes == n > 0 /\ fed[n].req \in Closing
        ends == closes /\ flushed = Len(pending)
    IN  /\ tcp # "closed"
        /\ rx' = <<>>
        /\ buf' = SubSeq(fed, n + 1, Len(fed))
        /\ dispatched' = dispatched \cup {fed[i] : i \in 1 .. n}
        /\ tx' = tx \o SubSeq(pending, 1, flushed)
        /\ out' = SubSeq(pending, flushed + 1, Len(pending))
        /\ close' = FALSE
        /\ tcp' = IF ends THEN AfterClose ELSE tcp
        /\ UNCHANGED <<client, sent, recvd>>

\* Faulty variant: a full send buffer drops what it cannot take.
ServeDrops ==
    LET fed == buf \o rx
        n == Stepped(fed)
        pending == out \o SubSeq(fed, 1, n)
        flushed == Fits(pending)
        closes == close \/ (n > 0 /\ fed[n].req \in Closing)
    IN  /\ tcp # "closed"
        /\ rx' = <<>>
        /\ buf' = SubSeq(fed, n + 1, Len(fed))
        /\ dispatched' = dispatched \cup {fed[i] : i \in 1 .. n}
        /\ tx' = tx \o SubSeq(pending, 1, flushed)
        /\ out' = <<>>
        /\ close' = FALSE
        /\ tcp' = IF closes THEN AfterClose ELSE tcp
        /\ UNCHANGED <<client, sent, recvd>>

\* An open socket: what was received is fed, every request is answered up to
\* one that asks to close, what fits is sent, and once all of it is, the close
\* asked for begins.
Serve ==
    LET fed == buf \o rx
        n == Stepped(fed)
        pending == out \o SubSeq(fed, 1, n)
        flushed == Fits(pending)
        closes == close \/ (n > 0 /\ fed[n].req \in Closing)
        ends == closes /\ flushed = Len(pending)
    IN  /\ tcp # "closed"
        /\ rx' = <<>>
        /\ buf' = SubSeq(fed, n + 1, Len(fed))
        /\ dispatched' = dispatched \cup {fed[i] : i \in 1 .. n}
        /\ tx' = tx \o SubSeq(pending, 1, flushed)
        /\ out' = SubSeq(pending, flushed + 1, Len(pending))
        /\ close' = (closes /\ ~ ends)
        /\ tcp' = IF ends THEN AfterClose ELSE tcp
        /\ UNCHANGED <<client, sent, recvd>>

PumpStep == Rearm \/ Serve

Next == PumpStep \/ Connect \/ Send \/ Receive \/ Fin \/ Acknowledge \/ Reset

Spec == Init /\ [][Next]_vars

\* serve_smoltcp never stops pumping and the network delivers; a client reads
\* what it is sent, and closes once the server has closed.
FairSpec ==
    /\ Spec
    /\ WF_vars(PumpStep)
    /\ WF_vars(Receive)
    /\ WF_vars(Acknowledge)
    /\ WF_vars(Fin /\ tcp = "finWait")

-----------------------------------------------------------------------------
TypeOK ==
    /\ tcp \in States
    /\ client \in 0 .. MaxClients /\ sent \in 0 .. MaxRequests
    /\ \A q \in {rx, tx, recvd, buf, out} : q \in Seq(Request)
    /\ Len(tx) <= TxBuf
    /\ close \in BOOLEAN
    /\ dispatched \subseteq Request

\* What is on its way to a client, or with it, are the responses to its own
\* requests, each once and in their order: nothing is left over from the client
\* the socket served before, and backpressure loses nothing.
ResponsesInOrder ==
    tcp \notin {"closed", "listen"} =>
        LET way == recvd \o tx \o out
        IN  \A i \in DOMAIN way : way[i] = [client |-> client, req |-> i]

\* While the connection can still send, the requests handed to the service are
\* exactly those whose response is with the client, on the way or pending: none
\* is dispatched twice, skipped, or dispatched with its response lost.
OwedIsPending ==
    tcp \in {"established", "closeWait"} =>
        \A i \in 1 .. sent :
            [client |-> client, req |-> i] \in dispatched <=> i <= Len(recvd \o tx \o out)

\* A response that asks to close ends in a socket that listens again, even when
\* the send buffer is full at first.
ClosingFreesTheSocket ==
    (\E i \in Closing : [client |-> client, req |-> i] \in dispatched) ~> tcp = "listen"

\* The requests of a client that stays are answered, up to one that closes.
RequestsAnswered ==
    \A c \in 1 .. MaxClients : \A i \in 1 .. MaxRequests :
        (client = c /\ sent >= i) ~>
            \/ client = c /\ Len(recvd) >= i
            \/ client # c \/ tcp \notin {"established", "closeWait"}

\* What is pipelined after a request that closes is ignored (lib.rs 155-156:
\* "ignore any pipelined bytes that follow it").  This does not hold, and no
\* run checks it: the next pump dispatches them.
NothingAfterClose ==
    \A r \in dispatched : \A i \in Closing :
        i < r.req => [client |-> r.client, req |-> i] \notin dispatched

\* The socket of a client that is gone is armed again (lib.rs 10: "re-arms the
\* socket for the next client").
GoneClientFreesTheSocket == tcp = "closeWait" ~> tcp = "listen"
=============================================================================
