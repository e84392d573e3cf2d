------------------------------ MODULE Reactor ------------------------------
(***************************************************************************)
(* One reactor thread of std-server/src/transport_mio.rs: its poll loop,    *)
(* its connections, the idle sweep and the drain at shutdown, over sockets  *)
(* whose readiness is edge-triggered.                                       *)
(*                                                                          *)
(* A client's request is one unit in its socket's receive queue (module     *)
(* Connection takes care of requests that arrive in pieces), and it is      *)
(* answered by RespLen units, which leave through a send queue of SendBuf   *)
(* units.  The first request of a client in Closers says Connection: close, *)
(* so whatever it pipelines after that is never answered.                   *)
(*                                                                          *)
(* An edge-triggered registration is a set of armed sockets: a socket is    *)
(* armed when something new happens to it that its interest covers, or when *)
(* it is (re)registered while ready, and polling disarms it.  The handler   *)
(* of an event is three steps (read and answer, write, update interest)     *)
(* because the client moves between them.                                   *)
(*                                                                          *)
(* Time is relative: every open connection has an age, the ticks since its  *)
(* last event, capped one past the idle timeout.                            *)
(***************************************************************************)
EXTENDS Integers, FiniteSets

CONSTANTS
    Client,         \* client sockets
    Closers,        \* the clients whose first request asks to close
    Prompt,         \* the clients that read what they are sent at once
    MaxConns,       \* options.max_connections, of this reactor
    MaxRequests,    \* bound on the requests of a client
    RespLen,        \* units of a response
    SendBuf,        \* units a socket's send queue holds
    IdleTimeout,    \* options.idle_timeout, in ticks
    Grace,          \* SHUTDOWN_GRACE, in ticks
    SignalOnReactor,\* a signal is delivered to the thread of this reactor
    AcceptErrors,   \* accept may fail, as with no file descriptor left
    Listener        \* the listener's token

ASSUME OptionsAssumption ==
    /\ Closers \subseteq Client /\ Prompt \subseteq Client /\ Listener \notin Client /\ IsFiniteSet(Client)
    /\ MaxConns \in Nat \ {0}
    /\ MaxRequests \in Nat /\ RespLen \in Nat \ {0} /\ SendBuf \in Nat \ {0}
    /\ IdleTimeout \in Nat /\ Grace \in Nat
    /\ SignalOnReactor \in BOOLEAN /\ AcceptErrors \in BOOLEAN

VARIABLES
    \* the network and the kernel, per client
    sock,           \* "new", "backlog", "open" (in conns) or "closed"
    sent,           \* requests the client has sent
    rx,             \* requests in the receive queue
    tx,             \* response units in the send queue
    recvd,          \* response units the client has read
    fin,            \* the client has closed its end
    armed,          \* sockets whose edge is pending
    \* Conn
    answered,       \* requests stepped into responses
    out,            \* Conn.out: response units not yet written
    wants_write,    \* Conn.wants_write, and the interest registered
    close_after_flush,
    age,            \* ticks since Conn.last_activity
    why,            \* why the server closed the connection (history)
    \* run_reactor
    phase,          \* "serve", "drain", "stopped" or "failed"
    pc,             \* "head", "poll", "events", "write" or "interest"
    batch,          \* events of this poll still to be handled
    current,        \* the connection whose event is being handled
    shutdown,       \* the shutdown flag
    grace           \* ticks left until the drain deadline

kernel == <<sock, sent, rx, tx, recvd, fin, armed>>
conn   == <<answered, out, wants_write, close_after_flush, age, why>>
loop   == <<phase, pc, batch, current, shutdown, grace>>
vars   == <<kernel, conn, loop>>

Conns == {c \in Client : sock[c] = "open"}
Running == phase \in {"serve", "drain"}

Readable(c) == rx[c] > 0 \/ fin[c]
Writable(c) == tx[c] < SendBuf \/ fin[c]

\* How many of n requests of c are answered: a closing response is the last.
Answerable(c, n) == IF c \in Closers /\ n > 1 THEN 1 ELSE n

Init ==
    /\ sock = [c \in Client |-> "new"]
    /\ sent = [c \in Client |-> 0]
    /\ rx = [c \in Client |-> 0]
    /\ tx = [c \in Client |-> 0]
    /\ recvd = [c \in Client |-> 0]
    /\ fin = [c \in Client |-> FALSE]
    /\ armed = {}
    /\ answered = [c \in Client |-> 0]
    /\ out = [c \in Client |-> 0]
    /\ wants_write = [c \in Client |-> FALSE]
    /\ close_after_flush = [c \in Client |-> FALSE]
    /\ age = [c \in Client |-> 0]
    /\ why = [c \in Client |-> "none"]
    /\ phase = "serve" /\ pc = "head" /\ batch = {} /\ current = Listener
    /\ shutdown = FALSE /\ grace = 0

-----------------------------------------------------------------------------
(* The clients. *)

\* A readable edge: an open connection is always registered for reading.
ArmIfOpen(c) == IF sock[c] = "open" THEN {c} ELSE {}

Connect(c) ==
    /\ sock[c] = "new" /\ Running
    /\ sock' = [sock EXCEPT ![c] = "backlog"]
    /\ armed' = IF phase = "serve" THEN armed \cup {Listener} ELSE armed
    /\ UNCHANGED <<sent, rx, tx, recvd, fin, conn, loop>>

\* A client may send before it is accepted.
Send(c) ==
    /\ sock[c] \in {"backlog", "open"} /\ ~ fin[c]
    /\ sent[c] < MaxRequests
    /\ sent' = [sent EXCEPT ![c] = @ + 1]
    /\ rx' = [rx EXCEPT ![c] = @ + 1]
    /\ armed' = armed \cup ArmIfOpen(c)
    /\ UNCHANGED <<sock, tx, recvd, fin, conn, loop>>

\* A client reads; room in the send queue is a writable edge, which only a
\* connection registered for writing gets.
Receive(c) ==
    /\ tx[c] > 0 /\ ~ fin[c]
    /\ tx' = [tx EXCEPT ![c] = @ - 1]
    /\ recvd' = [recvd EXCEPT ![c] = @ + 1]
    /\ armed' = IF sock[c] = "open" /\ wants_write[c] THEN armed \cup {c} ELSE armed
    /\ UNCHANGED <<sock, sent, rx, fin, conn, loop>>

Hangup(c) ==
    /\ sock[c] \in {"backlog", "open"} /\ ~ fin[c]
    /\ fin' = [fin EXCEPT ![c] = TRUE]
    /\ armed' = armed \cup ArmIfOpen(c)
    /\ UNCHANGED <<sock, sent, rx, tx, recvd, conn, loop>>

-----------------------------------------------------------------------------
(* close_conn: the connection leaves the map and the poll. *)

CloseConns(set, reason) ==
    /\ sock' = [c \in Client |-> IF c \in set THEN "closed" ELSE sock[c]]
    /\ why' = [c \in Client |-> IF c \in set THEN reason ELSE why[c]]

\* run_reactor returns: its connections are cut, its backlog is refused.
DropAll ==
    /\ sock' = [c \in Client |-> IF sock[c] = "new" THEN "new" ELSE "closed"]
    /\ why' = [c \in Client |-> IF sock[c] = "open" THEN "cut"
                                ELSE IF sock[c] = "backlog" THEN "refused"
                                ELSE why[c]]

-----------------------------------------------------------------------------
(* run_reactor: the loops. *)

\* Faulty variant: the flag is not looked at.
ServeHeadUnchecked ==
    /\ phase = "serve" /\ pc = "head"
    /\ pc' = "poll"
    /\ UNCHANGED <<kernel, conn, phase, batch, current, shutdown, grace>>

\* while !shutdown: on to the next poll.
ServeHead ==
    /\ phase = "serve" /\ pc = "head" /\ ~ shutdown
    /\ pc' = "poll"
    /\ UNCHANGED <<kernel, conn, phase, batch, current, shutdown, grace>>

\* The flag is seen: the listener is deregistered and the grace period starts.
StartDrain ==
    /\ phase = "serve" /\ pc = "head" /\ shutdown
    /\ phase' = "drain"
    /\ grace' = Grace
    /\ armed' = armed \ {Listener}
    /\ UNCHANGED <<sock, sent, rx, tx, recvd, fin, conn, pc, batch, current, shutdown>>

\* while !conns.is_empty() && now < deadline.
DrainHead ==
    /\ phase = "drain" /\ pc = "head"
    /\ Conns # {} /\ grace > 0
    /\ pc' = "poll"
    /\ UNCHANGED <<kernel, conn, phase, batch, current, shutdown, grace>>

\* Faulty variant: no drain.
StopAtOnce ==
    /\ phase = "drain" /\ pc = "head"
    /\ phase' = "stopped"
    /\ DropAll
    /\ armed' = {}
    /\ UNCHANGED <<sent, rx, tx, recvd, fin, answered, out, wants_write,
                   close_after_flush, age, pc, batch, current, shutdown, grace>>

\* The drain is over.
Stop ==
    /\ phase = "drain" /\ pc = "head"
    /\ Conns = {} \/ grace = 0
    /\ phase' = "stopped"
    /\ DropAll
    /\ armed' = {}
    /\ UNCHANGED <<sent, rx, tx, recvd, fin, answered, out, wants_write,
                   close_after_flush, age, pc, batch, current, shutdown, grace>>

\* poll returns the armed sockets that are ready, with what they are ready for
\* at this moment; it sleeps on while none is.
Poll ==
    LET ready == {c \in armed \cap Conns : Readable(c) \/ (wants_write[c] /\ Writable(c))}
        waiting == Listener \in armed /\ \E c \in Client : sock[c] = "backlog"
    IN  /\ pc = "poll" /\ Running /\ armed # {}
        /\ batch' = {[token |-> c, readable |-> Readable(c)] : c \in ready}
                    \cup (IF waiting THEN {[token |-> Listener, readable |-> TRUE]} ELSE {})
        /\ armed' = {}
        /\ pc' = IF ready = {} /\ ~ waiting THEN "poll" ELSE "events"
        /\ UNCHANGED <<sock, sent, rx, tx, recvd, fin, conn, phase, current, shutdown, grace>>

\* A signal sets the flag; delivered to a thread inside epoll_wait it also
\* interrupts the poll, and the `?` on it ends the reactor.
Signal ==
    /\ ~ shutdown /\ Running
    /\ shutdown' = TRUE
    /\ IF SignalOnReactor /\ pc = "poll"
       THEN /\ phase' = "failed"
            /\ DropAll
            /\ armed' = {}
       ELSE UNCHANGED <<phase, sock, why, armed>>
    /\ UNCHANGED <<sent, rx, tx, recvd, fin, answered, out, wants_write,
                   close_after_flush, age, pc, batch, current, grace>>

-----------------------------------------------------------------------------
(* The events of a batch. *)

\* Faulty variant: off by one.
FullLate(n) == n > MaxConns

\* n connections leave no room for another.
Full(n) == n >= MaxConns

Backlog == {c \in Client : sock[c] = "backlog"}

\* Faulty variant: one accept per event.
AcceptRunsOne == {IF Backlog = {} THEN {} ELSE {CHOOSE c \in Backlog : TRUE}}

\* The sockets one run of the accept loop takes: the whole backlog, unless an
\* error other than WouldBlock and Interrupted ends it before that.
AcceptRuns == IF AcceptErrors THEN SUBSET Backlog ELSE {Backlog}

\* accept_all: the sockets taken are admitted in some order, and what comes when
\* the map is full is dropped.  A socket registered while readable is armed.
AcceptAll ==
    /\ pc = "events" /\ Running
    /\ [token |-> Listener, readable |-> TRUE] \in batch
    /\ batch' = {e \in batch : e.token # Listener}
    /\ \E taken \in AcceptRuns : \E admitted \in SUBSET taken :
          /\ admitted # {} => ~ Full(Cardinality(Conns \cup admitted) - 1)
          /\ admitted # taken => Full(Cardinality(Conns \cup admitted))
          /\ sock' = [c \in Client |-> IF c \in admitted THEN "open"
                                       ELSE IF c \in taken THEN "closed"
                                       ELSE sock[c]]
          /\ why' = [c \in Client |-> IF c \in taken \ admitted THEN "capacity"
                                      ELSE why[c]]
          /\ armed' = armed \cup {c \in admitted : Readable(c)}
          /\ age' = [c \in Client |-> IF c \in admitted THEN 0 ELSE age[c]]
    /\ UNCHANGED <<sent, rx, tx, recvd, fin, answered, out, wants_write,
                   close_after_flush, phase, pc, current, shutdown, grace>>

\* A batch has one event per socket and only the handler of that event closes
\* the socket, so handle_token finds every token in the map.
Take(e) ==
    /\ pc = "events" /\ Running
    /\ e \in batch /\ e.token \in Conns
    /\ batch' = batch \ {e}

\* handle_ready, a connection that is only flushing, or only writable: no read.
HandleNoRead(e) ==
    LET c == e.token
    IN  /\ Take(e)
        /\ ~ e.readable \/ close_after_flush[c]
        /\ age' = [age EXCEPT ![c] = 0]
        /\ current' = c
        /\ pc' = "write"
        /\ UNCHANGED <<kernel, answered, out, wants_write, close_after_flush, why,
                       phase, shutdown, grace>>

\* handle_ready, read_in: the end of the stream is reached, and the connection
\* is dropped with whatever was read before it.
HandleEof(e) ==
    LET c == e.token
    IN  /\ Take(e)
        /\ e.readable /\ ~ close_after_flush[c]
        /\ fin[c]
        /\ rx' = [rx EXCEPT ![c] = 0]
        /\ age' = [age EXCEPT ![c] = 0]
        /\ CloseConns({c}, "peer")
        /\ armed' = armed \ {c}
        /\ UNCHANGED <<sent, tx, recvd, fin, answered, out, wants_write,
                       close_after_flush, phase, pc, current, shutdown, grace>>

\* Faulty variant: one read per event.
HandleReadOnce(e) ==
    LET c == e.token
        n == Answerable(c, answered[c] + (IF rx[c] > 0 THEN 1 ELSE 0))
    IN  /\ Take(e)
        /\ e.readable /\ ~ close_after_flush[c]
        /\ ~ fin[c]
        /\ rx' = [rx EXCEPT ![c] = IF @ > 0 THEN @ - 1 ELSE 0]
        /\ answered' = [answered EXCEPT ![c] = n]
        /\ out' = [out EXCEPT ![c] = @ + RespLen * (n - answered[c])]
        /\ close_after_flush' = [close_after_flush EXCEPT ![c] = c \in Closers]
        /\ age' = [age EXCEPT ![c] = 0]
        /\ current' = c
        /\ pc' = "write"
        /\ UNCHANGED <<sock, sent, tx, recvd, fin, armed, wants_write, why,
                       phase, shutdown, grace>>

\* handle_ready, read_in until WouldBlock and step until NeedMore or close.
HandleRead(e) ==
    LET c == e.token
        n == Answerable(c, answered[c] + rx[c])
    IN  /\ Take(e)
        /\ e.readable /\ ~ close_after_flush[c]
        /\ ~ fin[c]
        /\ rx' = [rx EXCEPT ![c] = 0]
        /\ answered' = [answered EXCEPT ![c] = n]
        /\ out' = [out EXCEPT ![c] = @ + RespLen * (n - answered[c])]
        /\ close_after_flush' = [close_after_flush EXCEPT ![c] = c \in Closers]
        /\ age' = [age EXCEPT ![c] = 0]
        /\ current' = c
        /\ pc' = "write"
        /\ UNCHANGED <<sock, sent, tx, recvd, fin, armed, wants_write, why,
                       phase, shutdown, grace>>

\* Faulty variant: what one write did not take is dropped.
WriteOutOnce ==
    LET c == current
        n == IF out[c] <= SendBuf - tx[c] THEN out[c] ELSE SendBuf - tx[c]
    IN  /\ pc = "write" /\ Running
        /\ tx' = [tx EXCEPT ![c] = @ + n]
        /\ out' = [out EXCEPT ![c] = 0]
        /\ pc' = "interest"
        /\ UNCHANGED <<sock, sent, rx, recvd, fin, armed, answered, wants_write,
                       close_after_flush, age, why, phase, batch, current, shutdown, grace>>

\* write_out until the send queue is full or nothing is left.
WriteOut ==
    LET c == current
        n == IF out[c] <= SendBuf - tx[c] THEN out[c] ELSE SendBuf - tx[c]
    IN  /\ pc = "write" /\ Running
        /\ tx' = [tx EXCEPT ![c] = @ + n]
        /\ out' = [out EXCEPT ![c] = @ - n]
        /\ pc' = "interest"
        /\ UNCHANGED <<sock, sent, rx, recvd, fin, armed, answered, wants_write,
                       close_after_flush, age, why, phase, batch, current, shutdown, grace>>

\* A write to a peer that is gone fails, and the connection is dropped.
WriteFails ==
    /\ pc = "write" /\ Running
    /\ fin[current] /\ out[current] > 0
    /\ CloseConns({current}, "peer")
    /\ armed' = armed \ {current}
    /\ pc' = "events"
    /\ UNCHANGED <<sent, rx, tx, recvd, fin, answered, out, wants_write,
                   close_after_flush, age, phase, batch, current, shutdown, grace>>

\* Faulty variant: closing does not deregister.
FlushedKeepsEdge ==
    LET c == current
    IN  /\ pc = "interest" /\ Running
        /\ out[c] = 0
        /\ IF close_after_flush[c]
           THEN /\ CloseConns({c}, "flushed")
                /\ UNCHANGED <<armed, wants_write>>
           ELSE /\ wants_write' = [wants_write EXCEPT ![c] = FALSE]
                /\ armed' = IF wants_write[c] /\ Readable(c) THEN armed \cup {c} ELSE armed
                /\ UNCHANGED <<sock, why>>
        /\ pc' = "events"
        /\ UNCHANGED <<sent, rx, tx, recvd, fin, answered, out, close_after_flush, age,
                       phase, batch, current, shutdown, grace>>

\* Faulty variant: the writable interest is kept.
FlushedKeepsInterest ==
    LET c == current
    IN  /\ pc = "interest" /\ Running
        /\ out[c] = 0
        /\ IF close_after_flush[c]
           THEN /\ CloseConns({c}, "flushed")
                /\ armed' = armed \ {c}
                /\ UNCHANGED wants_write
           ELSE UNCHANGED <<sock, why, armed, wants_write>>
        /\ pc' = "events"
        /\ UNCHANGED <<sent, rx, tx, recvd, fin, answered, out, close_after_flush, age,
                       phase, batch, current, shutdown, grace>>

\* update_interest, everything flushed: close, or stop waiting to write.
Flushed ==
    LET c == current
    IN  /\ pc = "interest" /\ Running
        /\ out[c] = 0
        /\ IF close_after_flush[c]
           THEN /\ CloseConns({c}, "flushed")
                /\ armed' = armed \ {c}
                /\ UNCHANGED wants_write
           ELSE /\ wants_write' = [wants_write EXCEPT ![c] = FALSE]
                /\ armed' = IF wants_write[c] /\ Readable(c) THEN armed \cup {c} ELSE armed
                /\ UNCHANGED <<sock, why>>
        /\ pc' = "events"
        /\ UNCHANGED <<sent, rx, tx, recvd, fin, answered, out, close_after_flush, age,
                       phase, batch, current, shutdown, grace>>

\* update_interest, output pending: also wait to write.  Reregistering arms a
\* socket that is ready by then.
Pending ==
    LET c == current
    IN  /\ pc = "interest" /\ Running
        /\ out[c] > 0
        /\ wants_write' = [wants_write EXCEPT ![c] = TRUE]
        /\ armed' = IF ~ wants_write[c] /\ (Readable(c) \/ Writable(c))
                    THEN armed \cup {c} ELSE armed
        /\ pc' = "events"
        /\ UNCHANGED <<sock, sent, rx, tx, recvd, fin, answered, out, close_after_flush,
                       age, why, phase, batch, current, shutdown, grace>>

\* Faulty variant: what waits to write is spared.
ExpiredQuiet == {c \in Conns : age[c] > IdleTimeout /\ ~ wants_write[c]}

\* The connections without an event for longer than idle_timeout.
Expired == {c \in Conns : age[c] > IdleTimeout}

\* sweep_idle, after the batch.
Sweep ==
    /\ pc = "events" /\ Running
    /\ batch = {}
    /\ CloseConns(Expired, "idle")
    /\ armed' = armed \ Expired
    /\ pc' = "head"
    /\ UNCHANGED <<sent, rx, tx, recvd, fin, answered, out, wants_write,
                   close_after_flush, age, phase, batch, current, shutdown, grace>>

-----------------------------------------------------------------------------
\* A tick of the clock.  Handling a batch takes much less than a tick, and a
\* prompt client reads within it: time passes while the reactor sleeps with
\* nothing to do and no prompt client has anything left to read.  The poll's
\* own timeout may end with it.
Tick(timeout) ==
    /\ pc = "poll" /\ Running /\ armed = {}
    /\ \A c \in Prompt : tx[c] = 0 \/ fin[c]
    /\ age' = [c \in Client |-> IF age[c] <= IdleTimeout /\ sock[c] = "open"
                                THEN age[c] + 1 ELSE age[c]]
    /\ grace' = IF grace > 0 THEN grace - 1 ELSE 0
    /\ pc' = IF timeout THEN "events" ELSE pc
    /\ UNCHANGED <<kernel, answered, out, wants_write, close_after_flush, why,
                   phase, batch, current, shutdown>>

ClientStep(c) == Connect(c) \/ Send(c) \/ Receive(c) \/ Hangup(c)

Handle == AcceptAll \/ \E e \in batch : HandleNoRead(e) \/ HandleEof(e) \/ HandleRead(e)

ReactorStep ==
    \/ ServeHead \/ StartDrain \/ DrainHead \/ Stop \/ Poll
    \/ Handle \/ WriteOut \/ WriteFails \/ Flushed \/ Pending \/ Sweep

Next ==
    \/ ReactorStep
    \/ Signal
    \/ \E timeout \in BOOLEAN : Tick(timeout)
    \/ \E c \in Client : ClientStep(c)

Spec == Init /\ [][Next]_vars

\* The thread runs, time passes, and prompt clients read what they are sent;
\* the others may never read, and no client has to send.
FairSpec ==
    /\ Spec
    /\ WF_vars(ReactorStep)
    /\ WF_vars(Tick(TRUE))
    /\ \A c \in Prompt : WF_vars(Receive(c))

-----------------------------------------------------------------------------
TypeOK ==
    /\ sock \in [Client -> {"new", "backlog", "open", "closed"}]
    /\ \A f \in {sent, rx, answered} : f \in [Client -> 0 .. MaxRequests]
    /\ tx \in [Client -> 0 .. SendBuf]
    /\ \A f \in {out, recvd} : f \in [Client -> 0 .. RespLen * MaxRequests]
    /\ armed \subseteq Conns \cup {Listener}
    /\ current \in Client \cup {Listener}
    /\ pc \in {"head", "poll", "events", "write", "interest"}

\* The reactor never holds more connections than its share of max_connections.
CapRespected == Cardinality(Conns) <= MaxConns

\* Asleep in poll, the reactor has missed no edge: whatever it could do for a
\* connection, or for the backlog, is armed.  (Edge-triggered readiness, module
\* comment of transport_mio.rs: "the kernel will not re-notify".)
NoLostWakeup ==
    pc = "poll" /\ Running =>
        /\ \A c \in Conns :
              /\ Readable(c) /\ ~ close_after_flush[c] => c \in armed
              /\ out[c] > 0 /\ tx[c] < SendBuf => c \in armed
        /\ phase = "serve" /\ Backlog # {} => Listener \in armed

\* Outside the handler of a connection, it waits to write exactly when it has
\* something to write: no missed and no spurious writable events.
InterestMatches ==
    \A c \in Conns :
        \/ pc \in {"write", "interest"} /\ current = c
        \/ wants_write[c] <=> out[c] > 0

\* No response unit is lost or sent twice on the way to a client; a connection
\* closed by its own response owes its client nothing for the requests read
\* from it, and neither does one reaped as idle whose client reads promptly until then.
NothingLost ==
    \A c \in Client :
        /\ recvd[c] + tx[c] + out[c] = RespLen * answered[c]
        /\ why[c] = "flushed" => out[c] = 0
        /\ why[c] = "idle" /\ c \in Prompt /\ ~ fin[c] => out[c] = 0

\* A connection that is cut while it still owes a response was given the whole
\* grace period to flush it (README: "Graceful shutdown (SIGINT/SIGTERM) that
\* drains in-flight connections").
ShutdownDrains ==
    \A c \in Client : why[c] = "cut" /\ out[c] > 0 => phase = "stopped" /\ grace = 0

\* The requests of a client that reads its responses are answered in full,
\* unless it hangs up or the server gives the connection up for a stated reason.
EveryRequestServed ==
    \A c \in Prompt :
        sent[c] > 0 ~> \/ recvd[c] = RespLen * Answerable(c, sent[c])
                       \/ fin[c]
                       \/ why[c] \in {"capacity", "idle", "cut", "refused"}

\* A signalled reactor stops, whatever its clients do.
SignalStops == shutdown ~> ~ Running

\* A client that has nothing more to say is not kept for ever.
SilentReaped == \A c \in Client : sock[c] = "open" ~> sock[c] = "closed"
=============================================================================
