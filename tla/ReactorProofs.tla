--------------------------- MODULE ReactorProofs ---------------------------
(***************************************************************************)
(* Proofs about Reactor, for any clients, options, buffer sizes and timing. *)
(***************************************************************************)
EXTENDS Reactor, FiniteSetTheorems, TLAPS

-----------------------------------------------------------------------------
SockType == sock \in [Client -> {"new", "backlog", "open", "closed"}]

LEMMA SockTypeInvariant == Spec => []SockType
<1>1. Init => SockType
  BY DEF Init, SockType
<1>2. SockType /\ [Next]_vars => SockType'
  <2> SUFFICES ASSUME SockType, [Next]_vars PROVE SockType'
    OBVIOUS
  <2> USE DEF SockType, kernel, conn, loop
  <2>1. ASSUME NEW c \in Client, ClientStep(c) PROVE SockType'
    BY <2>1 DEF ClientStep, Connect, Send, Receive, Hangup
  <2>2. CASE ServeHead \/ StartDrain \/ DrainHead \/ Poll
    BY <2>2 DEF ServeHead, StartDrain, DrainHead, Poll
  <2>3. CASE Stop \/ Signal
    BY <2>3 DEF Stop, Signal, DropAll
  <2>4. CASE AcceptAll
    BY <2>4 DEF AcceptAll
  <2>5. ASSUME NEW e \in batch, HandleNoRead(e) \/ HandleEof(e) \/ HandleRead(e)
        PROVE  SockType'
    BY <2>5 DEF HandleNoRead, HandleEof, HandleRead, CloseConns
  <2>6. CASE WriteOut \/ Pending
    BY <2>6 DEF WriteOut, Pending
  <2>7. CASE WriteFails \/ Flushed \/ Sweep
    BY <2>7 DEF WriteFails, Flushed, Sweep, CloseConns
  <2>8. ASSUME NEW timeout \in BOOLEAN, Tick(timeout) PROVE SockType'
    BY <2>8 DEF Tick
  <2>9. CASE UNCHANGED vars
    BY <2>9 DEF vars
  <2>10. QED
    BY <2>1, <2>2, <2>3, <2>4, <2>5, <2>6, <2>7, <2>8, <2>9 DEF Next, ReactorStep, Handle
<1>3. QED
  BY <1>1, <1>2, PTL DEF Spec

\* The only action that adds to the connections is accept_all.
LEMMA OnlyAcceptAdds == SockType /\ [Next]_vars /\ ~ AcceptAll => Conns' \subseteq Conns
<1> SUFFICES ASSUME SockType, [Next]_vars, ~ AcceptAll PROVE Conns' \subseteq Conns
  OBVIOUS
<1> USE DEF Conns, kernel, conn, loop
<1>1. ASSUME NEW c \in Client, ClientStep(c) PROVE Conns' \subseteq Conns
  BY <1>1 DEF SockType, ClientStep, Connect, Send, Receive, Hangup
<1>2. CASE ServeHead \/ StartDrain \/ DrainHead \/ Poll
  BY <1>2 DEF ServeHead, StartDrain, DrainHead, Poll
<1>3. CASE Stop \/ Signal
  BY <1>3 DEF Stop, Signal, DropAll
<1>4. ASSUME NEW e \in batch, HandleNoRead(e) \/ HandleEof(e) \/ HandleRead(e)
      PROVE  Conns' \subseteq Conns
  BY <1>4 DEF HandleNoRead, HandleEof, HandleRead, CloseConns
<1>5. CASE WriteOut \/ Pending
  BY <1>5 DEF WriteOut, Pending
<1>6. CASE WriteFails \/ Flushed \/ Sweep
  BY <1>6 DEF WriteFails, Flushed, Sweep, CloseConns
<1>7. ASSUME NEW timeout \in BOOLEAN, Tick(timeout) PROVE Conns' \subseteq Conns
  BY <1>7 DEF Tick
<1>8. CASE UNCHANGED vars
  BY <1>8 DEF vars
<1>9. QED
  BY <1>1, <1>2, <1>3, <1>4, <1>5, <1>6, <1>7, <1>8 DEF Next, ReactorStep, Handle

\* The reactor stays within its share of max_connections (accept_all,
\* transport_mio.rs 307-313).
THEOREM CapTheorem == Spec => []CapRespected
<1> USE DEF CapRespected
<1>0. /\ IsFiniteSet(Client) /\ MaxConns \in Nat
      /\ \A S : S \subseteq Client => IsFiniteSet(S) /\ Cardinality(S) \in Nat
  BY OptionsAssumption, FS_Subset, FS_CardinalityType
<1>1. Init => CapRespected
  <2> SUFFICES ASSUME Init PROVE CapRespected
    OBVIOUS
  <2>1. Conns = {}
    BY DEF Init, Conns
  <2>2. QED
    BY <2>1, <1>0, FS_EmptySet
<1>2. SockType /\ CapRespected /\ [Next]_vars => CapRespected'
  <2> SUFFICES ASSUME SockType, CapRespected, [Next]_vars PROVE CapRespected'
    OBVIOUS
  <2>1. CASE AcceptAll
    <3> DEFINE Admits(taken, admitted) ==
            /\ admitted # {} => ~ Full(Cardinality(Conns \cup admitted) - 1)
            /\ sock' = [c \in Client |-> IF c \in admitted THEN "open"
                                         ELSE IF c \in taken THEN "closed"
                                         ELSE sock[c]]
    <3>0. PICK taken \in AcceptRuns : \E admitted \in SUBSET taken : Admits(taken, admitted)
      BY <2>1 DEF AcceptAll
    <3>1. PICK admitted \in SUBSET taken : Admits(taken, admitted)
      BY <3>0
    <3>2. Conns \cup admitted \subseteq Client
      BY <3>0, <3>1 DEF Conns, AcceptRuns, Backlog
    <3>3. Conns' \subseteq Conns \cup admitted
      BY <3>1 DEF Conns
    <3>4. Cardinality(Conns') <= Cardinality(Conns \cup admitted)
      BY <3>2, <3>3, <1>0, FS_Subset
    <3>5. Cardinality(Conns \cup admitted) <= MaxConns
      <4>1. CASE admitted = {}
        <5>1. Conns \cup admitted = Conns
          BY <4>1
        <5>2. QED
          BY <5>1
      <4>2. CASE admitted # {}
        BY <4>2, <3>1, <3>2, <1>0 DEF Full
      <4>3. QED
        BY <4>1, <4>2
    <3>6. QED
      BY <3>2, <3>3, <3>4, <3>5, <1>0
  <2>2. CASE ~ AcceptAll
    <3>1. Conns' \subseteq Conns /\ Conns \subseteq Client
      BY <2>2, OnlyAcceptAdds DEF Conns
    <3>2. Cardinality(Conns') <= Cardinality(Conns)
      BY <3>1, <1>0, FS_Subset
    <3>3. QED
      BY <3>1, <3>2, <1>0
  <2>3. QED
    BY <2>1, <2>2
<1>3. QED
  BY <1>1, <1>2, SockTypeInvariant, PTL DEF Spec

-----------------------------------------------------------------------------
\* A connection is cut only by a reactor that stopped after its grace period.
CutInv ==
    /\ phase \in {"serve", "drain", "stopped"}
    /\ grace \in Nat
    /\ \A c \in Client : why[c] = "cut" => phase = "stopped" /\ grace = 0

\* As long as no signal is delivered to the reactor's own thread, a connection
\* that is cut with a response owed was given the whole grace period
\* (run_reactor, transport_mio.rs 262-275).
THEOREM DrainTheorem ==
    ASSUME SignalOnReactor = FALSE
    PROVE  Spec => []ShutdownDrains
<1>1. Init => CutInv
  BY DEF Init, CutInv
<1>2. CutInv /\ [Next]_vars => CutInv'
  <2> SUFFICES ASSUME CutInv, [Next]_vars PROVE CutInv'
    OBVIOUS
  <2> USE DEF CutInv, Running, kernel, conn, loop
  <2>1. ASSUME NEW c \in Client, ClientStep(c) PROVE CutInv'
    BY <2>1 DEF ClientStep, Connect, Send, Receive, Hangup
  <2>2. CASE ServeHead \/ DrainHead \/ Poll
    BY <2>2 DEF ServeHead, DrainHead, Poll
  <2>3. CASE StartDrain
    BY <2>3, OptionsAssumption DEF StartDrain
  <2>4. CASE Stop
    BY <2>4 DEF Stop, DropAll, Conns
  <2>5. CASE Signal
    BY <2>5 DEF Signal
  <2>6. CASE AcceptAll
    BY <2>6 DEF AcceptAll
  <2>7. ASSUME NEW e \in batch, HandleNoRead(e) \/ HandleEof(e) \/ HandleRead(e)
        PROVE  CutInv'
    BY <2>7 DEF HandleNoRead, HandleEof, HandleRead, Take, CloseConns
  <2>8. CASE WriteOut \/ Pending
    BY <2>8 DEF WriteOut, Pending
  <2>9. CASE WriteFails \/ Flushed \/ Sweep
    BY <2>9 DEF WriteFails, Flushed, Sweep, CloseConns
  <2>10. ASSUME NEW timeout \in BOOLEAN, Tick(timeout) PROVE CutInv'
    BY <2>10 DEF Tick
  <2>11. CASE UNCHANGED vars
    BY <2>11 DEF vars
  <2>12. QED
    BY <2>1, <2>2, <2>3, <2>4, <2>5, <2>6, <2>7, <2>8, <2>9, <2>10, <2>11
       DEF Next, ReactorStep, Handle
<1>3. CutInv => ShutdownDrains
  BY DEF CutInv, ShutdownDrains
<1>4. QED
  BY <1>1, <1>2, <1>3, PTL DEF Spec

-----------------------------------------------------------------------------
(* The inductive invariant of the event loop, in parts. *)

Types ==
    /\ sock \in [Client -> {"new", "backlog", "open", "closed"}]
    /\ sent \in [Client -> Nat] /\ rx \in [Client -> Nat] /\ answered \in [Client -> Nat]
    /\ tx \in [Client -> Nat] /\ recvd \in [Client -> Nat] /\ out \in [Client -> Nat]
    /\ fin \in [Client -> BOOLEAN] /\ wants_write \in [Client -> BOOLEAN]
    /\ close_after_flush \in [Client -> BOOLEAN]
    /\ age \in [Client -> Nat]
    /\ current \in Client \cup {Listener}
    /\ pc \in {"head", "poll", "events", "write", "interest"}

\* Where the units of a client are: every request counted once, every response
\* unit in one place, and nothing of it before the connection is accepted.
Counts ==
    \A c \in Client :
        /\ answered[c] + rx[c] <= sent[c] /\ sent[c] <= MaxRequests
        /\ c \in Closers => answered[c] <= 1
        /\ tx[c] <= SendBuf
        /\ recvd[c] + tx[c] + out[c] = RespLen * answered[c]
        /\ sock[c] \in {"new", "backlog"} => out[c] = 0 /\ ~ wants_write[c] /\ ~ close_after_flush[c]

\* The batch has one event for each of some open connections and the listener,
\* the one being handled excepted, and only open connections are armed.
Batched ==
    /\ pc \in {"head", "poll"} => batch = {}
    /\ \A e \in batch : /\ e = [token |-> e.token, readable |-> e.readable]
                        /\ e.readable \in BOOLEAN
                        /\ e.token = Listener \/ e.token \in Conns
    /\ \A e, f \in batch : e.token = f.token => e = f
    /\ pc \in {"write", "interest"} =>
          /\ Running /\ current \in Conns
          /\ \A e \in batch : e.token # current
    /\ armed \subseteq Conns \cup {Listener}

\* What can be read is armed, or read by an event of this batch; what can be
\* written is armed, or written by an event of this batch or the one underway.
WokenToRead(c) ==
    Readable(c) /\ ~ close_after_flush[c] =>
        c \in armed \/ [token |-> c, readable |-> TRUE] \in batch

WokenToWrite(c) ==
    out[c] > 0 /\ tx[c] < SendBuf =>
        \/ c \in armed
        \/ \E e \in batch : e.token = c
        \/ pc = "write" /\ current = c
        \/ pc = "interest" /\ current = c /\ ~ wants_write[c]

Woken == \A c \in Conns : WokenToRead(c) /\ WokenToWrite(c)

\* The backlog has its listener armed, or an event of this batch.
ListenerWoken ==
    phase = "serve" /\ Backlog # {} =>
        Listener \in armed \/ [token |-> Listener, readable |-> TRUE] \in batch

\* Only a connection with nothing to write, or a client that does not read
\* promptly, or has hung up, grows old; a closed connection keeps its reason.
Settled ==
    \A c \in Client :
        /\ c \in Conns /\ c \in Prompt /\ ~ fin[c] /\ age[c] > 0 => out[c] = 0
        /\ why[c] # "none" => sock[c] = "closed"
        /\ why[c] = "flushed" => out[c] = 0
        /\ why[c] = "idle" /\ c \in Prompt /\ ~ fin[c] => out[c] = 0

LoopInv == Types /\ Counts /\ Batched /\ InterestMatches /\ Woken /\ Settled

-----------------------------------------------------------------------------
(* The steps of the event loop. *)

\* n more requests are answered by RespLen units each.
LEMMA Units ==
    ASSUME NEW a \in Nat, NEW b \in Nat, a <= b
    PROVE  /\ RespLen * a \in Nat /\ RespLen * b \in Nat
           /\ RespLen * (b - a) \in Nat
           /\ RespLen * b = RespLen * a + RespLen * (b - a)
BY OptionsAssumption

\* The loop over step answers what was read, but nothing past a request that
\* asks to close.
LEMMA AnswerableType ==
    ASSUME NEW c \in Client, NEW n \in Nat, NEW a \in Nat, a <= n, c \in Closers => a <= 1
    PROVE  /\ Answerable(c, n) \in Nat /\ a <= Answerable(c, n) /\ Answerable(c, n) <= n
           /\ c \in Closers => Answerable(c, n) <= 1
BY DEF Answerable

\* The sockets that accept_all takes from the backlog, and those of them it admits.
Admission(taken, admitted) ==
    /\ taken \in AcceptRuns /\ taken \subseteq Backlog /\ admitted \subseteq taken
    /\ sock' = [c \in Client |-> IF c \in admitted THEN "open"
                                 ELSE IF c \in taken THEN "closed"
                                 ELSE sock[c]]
    /\ why' = [c \in Client |-> IF c \in taken \ admitted THEN "capacity" ELSE why[c]]
    /\ armed' = armed \cup {c \in admitted : Readable(c)}
    /\ age' = [c \in Client |-> IF c \in admitted THEN 0 ELSE age[c]]

LEMMA AcceptShape ==
    ASSUME AcceptAll
    PROVE  \E taken, admitted : Admission(taken, admitted)
<1>1. PICK taken \in AcceptRuns : \E admitted \in SUBSET taken :
          /\ sock' = [c \in Client |-> IF c \in admitted THEN "open"
                                       ELSE IF c \in taken THEN "closed"
                                       ELSE sock[c]]
          /\ why' = [c \in Client |-> IF c \in taken \ admitted THEN "capacity"
                                      ELSE why[c]]
          /\ armed' = armed \cup {c \in admitted : Readable(c)}
          /\ age' = [c \in Client |-> IF c \in admitted THEN 0 ELSE age[c]]
  BY DEF AcceptAll
<1>2. taken \subseteq Backlog
  BY DEF AcceptRuns
<1>3. QED
  BY <1>1, <1>2 DEF Admission

LEMMA TypesStep == Types /\ Counts /\ [Next]_vars => Types'
<1> SUFFICES ASSUME Types, Counts, [Next]_vars PROVE Types'
  OBVIOUS
<1> USE DEF kernel, conn, loop, Running, Types
<1>1. ASSUME NEW c \in Client, Connect(c) PROVE Types'
  BY <1>1 DEF Connect
<1>2. ASSUME NEW c \in Client, Send(c) PROVE Types'
  BY <1>2 DEF Send
<1>3. ASSUME NEW c \in Client, Receive(c) PROVE Types'
  BY <1>3 DEF Receive
<1>4. ASSUME NEW c \in Client, Hangup(c) PROVE Types'
  BY <1>4 DEF Hangup
<1>5. CASE ServeHead \/ StartDrain \/ DrainHead
  BY <1>5 DEF ServeHead, StartDrain, DrainHead
<1>6. CASE Poll
  BY <1>6 DEF Poll
<1>7. CASE Stop
  BY <1>7 DEF Stop, DropAll
<1>8. CASE Signal
  BY <1>8 DEF Signal, DropAll
<1>9. CASE AcceptAll
  BY <1>9 DEF AcceptAll
<1>10. ASSUME NEW e \in batch, HandleNoRead(e) PROVE Types'
  <2>1. e.token \in Client
    BY <1>10 DEF HandleNoRead, Take, Conns
  <2>2. QED
    BY <1>10, <2>1 DEF HandleNoRead
<1>11. ASSUME NEW e \in batch, HandleEof(e) PROVE Types'
  BY <1>11 DEF HandleEof, Take, CloseConns
<1>12. ASSUME NEW e \in batch, HandleRead(e) PROVE Types'
  <2> DEFINE c == e.token
             n == Answerable(c, answered[c] + rx[c])
  <2>1. c \in Client
    BY <1>12 DEF HandleRead, Take, Conns
  <2>2. n \in Nat /\ answered[c] <= n
    BY <2>1, AnswerableType DEF Counts
  <2>3. RespLen * (n - answered[c]) \in Nat
    <3> HIDE DEF n
    <3>1. QED
      BY <2>1, <2>2, Units
  <2>4. /\ rx' = [rx EXCEPT ![c] = 0]
        /\ answered' = [answered EXCEPT ![c] = n]
        /\ out' = [out EXCEPT ![c] = @ + RespLen * (n - answered[c])]
        /\ close_after_flush' = [close_after_flush EXCEPT ![c] = c \in Closers]
        /\ age' = [age EXCEPT ![c] = 0]
        /\ current' = c /\ pc' = "write"
        /\ UNCHANGED <<sock, sent, tx, recvd, fin, wants_write>>
    BY <1>12 DEF HandleRead
  <2> HIDE DEF n
  <2>5. out' \in [Client -> Nat] /\ answered' \in [Client -> Nat]
    BY <2>1, <2>2, <2>3, <2>4
  <2>6. QED
    BY <2>1, <2>4, <2>5
<1>13. CASE WriteOut
  <2>1. CASE current \in Client
    BY <1>13, <2>1, OptionsAssumption DEF WriteOut, Counts
  <2>2. CASE current \notin Client
    BY <1>13, <2>2 DEF WriteOut
  <2>3. QED
    BY <2>1, <2>2
<1>14. CASE WriteFails
  BY <1>14 DEF WriteFails, CloseConns
<1>15. CASE Flushed
  BY <1>15 DEF Flushed, CloseConns
<1>16. CASE Pending
  BY <1>16 DEF Pending
<1>17. CASE Sweep
  BY <1>17 DEF Sweep, CloseConns
<1>18. ASSUME NEW timeout \in BOOLEAN, Tick(timeout) PROVE Types'
  BY <1>18 DEF Tick
<1>19. CASE UNCHANGED vars
  BY <1>19 DEF vars
<1>20. QED
  BY <1>1, <1>2, <1>3, <1>4, <1>5, <1>6, <1>7, <1>8, <1>9, <1>10,
     <1>11, <1>12, <1>13, <1>14, <1>15, <1>16, <1>17, <1>18, <1>19
     DEF Next, ReactorStep, Handle, ClientStep

LEMMA CountsStep == Types /\ Counts /\ Batched /\ [Next]_vars => Counts'
<1> SUFFICES ASSUME Types, Counts, Batched, [Next]_vars PROVE Counts'
  OBVIOUS
<1> USE DEF kernel, conn, loop, Running, Types, Counts
<1>1. ASSUME NEW c \in Client, Connect(c) PROVE Counts'
  BY <1>1 DEF Connect
<1>2. ASSUME NEW c \in Client, Send(c) PROVE Counts'
  <2>1. /\ sent' = [sent EXCEPT ![c] = @ + 1] /\ rx' = [rx EXCEPT ![c] = @ + 1]
        /\ sent[c] < MaxRequests /\ UNCHANGED <<sock, tx, recvd, conn>>
    BY <1>2 DEF Send
  <2>2. \A d \in Client : /\ sent'[d] = IF d = c THEN sent[c] + 1 ELSE sent[d]
                          /\ rx'[d] = IF d = c THEN rx[c] + 1 ELSE rx[d]
    BY <2>1
  <2>3. ASSUME NEW d \in Client PROVE answered'[d] + rx'[d] <= sent'[d] /\ sent'[d] <= MaxRequests
    BY <2>1, <2>2, OptionsAssumption
  <2>4. QED
    BY <2>1, <2>3
<1>3. ASSUME NEW c \in Client, Receive(c) PROVE Counts'
  <2>1. /\ tx[c] > 0 /\ tx' = [tx EXCEPT ![c] = @ - 1] /\ recvd' = [recvd EXCEPT ![c] = @ + 1]
        /\ UNCHANGED <<sock, sent, rx, conn>>
    BY <1>3 DEF Receive
  <2>2. \A d \in Client : /\ tx'[d] = IF d = c THEN tx[c] - 1 ELSE tx[d]
                          /\ recvd'[d] = IF d = c THEN recvd[c] + 1 ELSE recvd[d]
    BY <2>1
  <2>3. ASSUME NEW d \in Client
        PROVE  tx'[d] <= SendBuf /\ recvd'[d] + tx'[d] + out'[d] = recvd[d] + tx[d] + out[d]
    BY <2>1, <2>2, OptionsAssumption
  <2>4. QED
    BY <2>1, <2>3
<1>4. ASSUME NEW c \in Client, Hangup(c) PROVE Counts'
  BY <1>4 DEF Hangup
<1>5. CASE ServeHead \/ StartDrain \/ DrainHead
  BY <1>5 DEF ServeHead, StartDrain, DrainHead
<1>6. CASE Poll
  BY <1>6 DEF Poll
<1>7. CASE Stop
  BY <1>7 DEF Stop, DropAll
<1>8. CASE Signal
  BY <1>8 DEF Signal, DropAll
<1>9. CASE AcceptAll
  BY <1>9 DEF AcceptAll
<1>10. ASSUME NEW e \in batch, HandleNoRead(e) PROVE Counts'
  BY <1>10 DEF HandleNoRead, Take
<1>11. ASSUME NEW e \in batch, HandleEof(e) PROVE Counts'
  BY <1>11 DEF HandleEof, Take, CloseConns
<1>12. ASSUME NEW e \in batch, HandleRead(e) PROVE Counts'
  <2> DEFINE c == e.token
             n == Answerable(c, answered[c] + rx[c])
             u == RespLen * (n - answered[c])
  <2>1. c \in Client /\ sock[c] = "open"
    BY <1>12 DEF HandleRead, Take, Conns
  <2>2. n \in Nat /\ answered[c] <= n /\ n <= answered[c] + rx[c] /\ (c \in Closers => n <= 1)
    BY <2>1, AnswerableType
  <2>3. /\ rx' = [rx EXCEPT ![c] = 0]
        /\ answered' = [answered EXCEPT ![c] = n]
        /\ out' = [out EXCEPT ![c] = @ + u]
        /\ close_after_flush' = [close_after_flush EXCEPT ![c] = c \in Closers]
        /\ UNCHANGED <<sock, sent, tx, recvd, wants_write>>
    BY <1>12 DEF HandleRead
  <2> HIDE DEF n
  <2>4. u \in Nat /\ RespLen * n = RespLen * answered[c] + u
    BY <2>1, <2>2, Units
  <2> HIDE DEF u
  <2>5. \A d \in Client \ {c} : /\ rx'[d] = rx[d] /\ answered'[d] = answered[d] /\ out'[d] = out[d]
                                /\ close_after_flush'[d] = close_after_flush[d]
    BY <2>3
  <2>6. rx'[c] = 0 /\ answered'[c] = n /\ out'[c] = out[c] + u
    BY <2>1, <2>3
  <2>7. answered'[c] + rx'[c] <= sent'[c] /\ sent'[c] <= MaxRequests
    BY <2>1, <2>2, <2>3, <2>6
  <2>8. recvd'[c] + tx'[c] + out'[c] = RespLen * answered'[c]
    <3>1. recvd[c] + tx[c] + out[c] = RespLen * answered[c]
      BY <2>1
    <3>2. (recvd[c] + tx[c] + out[c]) + u = recvd[c] + tx[c] + (out[c] + u)
      BY <2>1, <2>4
    <3>3. QED
      BY <2>3, <2>4, <2>6, <3>1, <3>2
  <2>9. QED
    BY <2>1, <2>2, <2>3, <2>5, <2>6, <2>7, <2>8
<1>13. CASE WriteOut
  <2> DEFINE c == current
             n == IF out[c] <= SendBuf - tx[c] THEN out[c] ELSE SendBuf - tx[c]
  <2>1. c \in Client /\ sock[c] = "open"
    BY <1>13 DEF WriteOut, Batched, Conns
  <2>2. n \in Nat /\ n <= out[c] /\ tx[c] + n <= SendBuf
    BY <2>1, OptionsAssumption
  <2>3. /\ tx' = [tx EXCEPT ![c] = @ + n] /\ out' = [out EXCEPT ![c] = @ - n]
        /\ UNCHANGED <<sock, sent, rx, recvd, answered, wants_write, close_after_flush>>
    BY <1>13 DEF WriteOut
  <2> HIDE DEF n
  <2>4. \A d \in Client \ {c} : tx'[d] = tx[d] /\ out'[d] = out[d]
    BY <2>3
  <2>5. tx'[c] = tx[c] + n /\ out'[c] = out[c] - n
    BY <2>1, <2>3
  <2>6. tx'[c] <= SendBuf /\ recvd[c] + tx'[c] + out'[c] = recvd[c] + tx[c] + out[c]
    BY <2>1, <2>2, <2>5
  <2>7. QED
    BY <2>1, <2>3, <2>4, <2>6
<1>14. CASE WriteFails
  BY <1>14 DEF WriteFails, CloseConns
<1>15. CASE Flushed
  BY <1>15 DEF Flushed, CloseConns
<1>16. CASE Pending
  BY <1>16 DEF Pending
<1>17. CASE Sweep
  BY <1>17 DEF Sweep, CloseConns
<1>18. ASSUME NEW timeout \in BOOLEAN, Tick(timeout) PROVE Counts'
  BY <1>18 DEF Tick
<1>19. CASE UNCHANGED vars
  BY <1>19 DEF vars
<1>20. QED
  BY <1>1, <1>2, <1>3, <1>4, <1>5, <1>6, <1>7, <1>8, <1>9, <1>10,
     <1>11, <1>12, <1>13, <1>14, <1>15, <1>16, <1>17, <1>18, <1>19
     DEF Next, ReactorStep, Handle, ClientStep

LEMMA BatchedStep == Types /\ Batched /\ [Next]_vars => Batched'
<1> SUFFICES ASSUME Types, Batched, [Next]_vars PROVE Batched'
  OBVIOUS
<1> USE OptionsAssumption DEF kernel, conn, loop, Running, Types, Batched, Conns
<1>1. ASSUME NEW c \in Client, Connect(c) PROVE Batched'
  BY <1>1 DEF Connect
<1>2. ASSUME NEW c \in Client, Send(c) PROVE Batched'
  BY <1>2 DEF Send, ArmIfOpen
<1>3. ASSUME NEW c \in Client, Receive(c) PROVE Batched'
  BY <1>3 DEF Receive
<1>4. ASSUME NEW c \in Client, Hangup(c) PROVE Batched'
  BY <1>4 DEF Hangup, ArmIfOpen
<1>5. CASE ServeHead \/ StartDrain \/ DrainHead
  BY <1>5 DEF ServeHead, StartDrain, DrainHead
<1>6. CASE Poll
  <2> DEFINE ready == {c \in armed \cap Conns : Readable(c) \/ (wants_write[c] /\ Writable(c))}
             waiting == Listener \in armed /\ \E c \in Client : sock[c] = "backlog"
  <2>1. /\ batch' = {[token |-> c, readable |-> Readable(c)] : c \in ready}
                    \cup (IF waiting THEN {[token |-> Listener, readable |-> TRUE]} ELSE {})
        /\ armed' = {} /\ UNCHANGED <<sock, phase, current>>
        /\ pc = "poll" /\ pc' = IF ready = {} /\ ~ waiting THEN "poll" ELSE "events"
    BY <1>6 DEF Poll
  <2>2. ready \subseteq Conns /\ Listener \notin ready /\ \A c \in ready : Readable(c) \in BOOLEAN
    BY DEF Readable
  <2> HIDE DEF ready, waiting
  <2>3. ASSUME NEW e \in batch'
        PROVE  \/ \E c \in ready : e = [token |-> c, readable |-> Readable(c)]
               \/ e = [token |-> Listener, readable |-> TRUE]
    BY <2>1
  <2>4. ASSUME NEW e \in batch'
        PROVE  /\ e = [token |-> e.token, readable |-> e.readable] /\ e.readable \in BOOLEAN
               /\ e.token = Listener \/ e.token \in Conns
    <3>1. CASE \E c \in ready : e = [token |-> c, readable |-> Readable(c)]
      BY <2>2, <3>1
    <3>2. CASE e = [token |-> Listener, readable |-> TRUE]
      BY <3>2
    <3>3. QED
      BY <2>3, <3>1, <3>2
  <2>5. ASSUME NEW e \in batch', NEW f \in batch', e.token = f.token PROVE e = f
    <3>1. \A g \in batch' : \/ g.token \in ready /\ g = [token |-> g.token, readable |-> Readable(g.token)]
                            \/ g.token = Listener /\ g = [token |-> Listener, readable |-> TRUE]
      <4>1. TAKE g \in batch'
      <4>2. CASE \E c \in ready : g = [token |-> c, readable |-> Readable(c)]
        BY <4>2
      <4>3. CASE g = [token |-> Listener, readable |-> TRUE]
        BY <4>3
      <4>4. QED
        BY <2>3, <4>2, <4>3
    <3>2. QED
      BY <2>2, <2>5, <3>1, ZenonT(40)
  <2>6. pc' \in {"head", "poll"} => batch' = {}
    BY <2>1
  <2>7. Conns' = Conns /\ pc' \notin {"write", "interest"}
    BY <2>1
  <2>8. QED
    BY <2>1, <2>4, <2>5, <2>6, <2>7
<1>7. CASE Stop
  BY <1>7 DEF Stop, DropAll
<1>8. CASE Signal
  BY <1>8 DEF Signal, DropAll
<1>9. CASE AcceptAll
  <2>1. PICK taken, admitted : Admission(taken, admitted)
    BY <1>9, AcceptShape
  <2>2. Conns \subseteq Conns' /\ admitted \subseteq Conns'
    BY <2>1 DEF Admission, Backlog
  <2>3. armed' \subseteq Conns' \cup {Listener}
    BY <2>1, <2>2 DEF Admission
  <2>4. batch' \subseteq batch /\ pc = "events" /\ pc' = pc
    BY <1>9 DEF AcceptAll
  <2>5. \A e \in batch' : /\ e = [token |-> e.token, readable |-> e.readable] /\ e.readable \in BOOLEAN
                          /\ e.token = Listener \/ e.token \in Conns'
    BY <2>2, <2>4
  <2>6. QED
    BY <2>3, <2>4, <2>5
<1>10. ASSUME NEW e \in batch, HandleNoRead(e) PROVE Batched'
  BY <1>10 DEF HandleNoRead, Take
<1>11. ASSUME NEW e \in batch, HandleEof(e) PROVE Batched'
  BY <1>11 DEF HandleEof, Take, CloseConns
<1>12. ASSUME NEW e \in batch, HandleRead(e) PROVE Batched'
  BY <1>12 DEF HandleRead, Take
<1>13. CASE WriteOut
  BY <1>13 DEF WriteOut
<1>14. CASE WriteFails
  BY <1>14 DEF WriteFails, CloseConns
<1>15. CASE Flushed
  BY <1>15 DEF Flushed, CloseConns
<1>16. CASE Pending
  BY <1>16 DEF Pending
<1>17. CASE Sweep
  BY <1>17 DEF Sweep, CloseConns
<1>18. ASSUME NEW timeout \in BOOLEAN, Tick(timeout) PROVE Batched'
  BY <1>18 DEF Tick
<1>19. CASE UNCHANGED vars
  BY <1>19 DEF vars
<1>20. QED
  BY <1>1, <1>2, <1>3, <1>4, <1>5, <1>6, <1>7, <1>8, <1>9, <1>10,
     <1>11, <1>12, <1>13, <1>14, <1>15, <1>16, <1>17, <1>18, <1>19
     DEF Next, ReactorStep, Handle, ClientStep

LEMMA InterestStep == Types /\ Counts /\ Batched /\ InterestMatches /\ [Next]_vars => InterestMatches'
<1> SUFFICES ASSUME Types, Counts, Batched, InterestMatches, [Next]_vars PROVE InterestMatches'
  OBVIOUS
<1> USE DEF kernel, conn, loop, Running, Types, InterestMatches, Conns
<1>1. ASSUME NEW c \in Client, Connect(c) PROVE InterestMatches'
  BY <1>1 DEF Connect
<1>2. ASSUME NEW c \in Client, Send(c) PROVE InterestMatches'
  BY <1>2 DEF Send
<1>3. ASSUME NEW c \in Client, Receive(c) PROVE InterestMatches'
  BY <1>3 DEF Receive
<1>4. ASSUME NEW c \in Client, Hangup(c) PROVE InterestMatches'
  BY <1>4 DEF Hangup
<1>5. CASE ServeHead \/ StartDrain \/ DrainHead
  BY <1>5 DEF ServeHead, StartDrain, DrainHead
<1>6. CASE Poll
  BY <1>6 DEF Poll
<1>7. CASE Stop
  BY <1>7 DEF Stop, DropAll
<1>8. CASE Signal
  BY <1>8 DEF Signal, DropAll
<1>9. CASE AcceptAll
  <2>1. PICK taken, admitted : Admission(taken, admitted)
    BY <1>9, AcceptShape
  <2>2. UNCHANGED <<out, wants_write, pc>> /\ pc = "events"
    BY <1>9 DEF AcceptAll
  <2>3. ASSUME NEW c \in Conns' PROVE c \in Conns \/ sock[c] = "backlog"
    BY <2>1 DEF Admission, Backlog
  <2>4. \A c \in Client : sock[c] = "backlog" => out[c] = 0 /\ wants_write[c] = FALSE
    BY DEF Counts
  <2>5. QED
    BY <2>2, <2>3, <2>4
<1>10. ASSUME NEW e \in batch, HandleNoRead(e) PROVE InterestMatches'
  BY <1>10 DEF HandleNoRead, Take
<1>11. ASSUME NEW e \in batch, HandleEof(e) PROVE InterestMatches'
  BY <1>11 DEF HandleEof, Take, CloseConns
<1>12. ASSUME NEW e \in batch, HandleRead(e) PROVE InterestMatches'
  BY <1>12 DEF HandleRead, Take
<1>13. CASE WriteOut
  BY <1>13 DEF WriteOut
<1>14. CASE WriteFails
  BY <1>14 DEF WriteFails, CloseConns
<1>15. CASE Flushed
  BY <1>15 DEF Flushed, CloseConns
<1>16. CASE Pending
  BY <1>16 DEF Pending
<1>17. CASE Sweep
  BY <1>17 DEF Sweep, CloseConns
<1>18. ASSUME NEW timeout \in BOOLEAN, Tick(timeout) PROVE InterestMatches'
  BY <1>18 DEF Tick
<1>19. CASE UNCHANGED vars
  BY <1>19 DEF vars
<1>20. QED
  BY <1>1, <1>2, <1>3, <1>4, <1>5, <1>6, <1>7, <1>8, <1>9, <1>10,
     <1>11, <1>12, <1>13, <1>14, <1>15, <1>16, <1>17, <1>18, <1>19
     DEF Next, ReactorStep, Handle, ClientStep

\* A connection that a step leaves alone stays woken.
LEMMA WokenFrame ==
    ASSUME NEW d \in Conns, Woken,
           rx'[d] = rx[d], fin'[d] = fin[d], out'[d] = out[d], tx'[d] = tx[d],
           close_after_flush'[d] = close_after_flush[d], wants_write'[d] = wants_write[d],
           d \in armed => d \in armed',
           \A e \in batch : e.token = d => e \in batch',
           pc \in {"write", "interest"} /\ current = d => pc' = pc /\ current' = current
    PROVE  WokenToRead(d)' /\ WokenToWrite(d)'
<1>1. WokenToRead(d) /\ WokenToWrite(d)
  BY DEF Woken
<1>2. WokenToRead(d)'
  <2>1. Readable(d)' = Readable(d)
    BY DEF Readable
  <2>2. [token |-> d, readable |-> TRUE].token = d
    OBVIOUS
  <2>3. QED
    BY <1>1, <2>1, <2>2 DEF WokenToRead
<1>3. WokenToWrite(d)'
  BY <1>1 DEF WokenToWrite
<1>4. QED
  BY <1>2, <1>3

LEMMA WokenStep == Types /\ Counts /\ Batched /\ InterestMatches /\ Woken /\ [Next]_vars => Woken'
<1> SUFFICES ASSUME Types, Counts, Batched, InterestMatches, Woken, [Next]_vars PROVE Woken'
  OBVIOUS
<1> USE OptionsAssumption DEF kernel, conn, loop, Running, Types, Woken, Conns
<1>1. ASSUME NEW c \in Client, Connect(c) PROVE Woken'
  <2>1. Conns' \subseteq Conns
    BY <1>1 DEF Connect
  <2>2. \A d \in Conns' : WokenToRead(d)' /\ WokenToWrite(d)'
    BY <1>1, <2>1, WokenFrame DEF Connect
  <2>3. QED
    BY <2>2
<1>2. ASSUME NEW c \in Client, Send(c) PROVE Woken'
  <2>1. Conns' = Conns /\ armed' = armed \cup ArmIfOpen(c) /\ UNCHANGED <<tx, out, batch, pc, current, wants_write>>
    BY <1>2 DEF Send
  <2>2. ASSUME NEW d \in Conns, d # c PROVE WokenToRead(d)' /\ WokenToWrite(d)'
    BY <1>2, <2>1, <2>2, WokenFrame DEF Send
  <2>3. c \in Conns => c \in armed'
    BY <2>1 DEF ArmIfOpen
  <2>4. QED
    BY <2>1, <2>2, <2>3 DEF WokenToRead, WokenToWrite
<1>3. ASSUME NEW c \in Client, Receive(c) PROVE Woken'
  <2>1. /\ Conns' = Conns /\ armed \subseteq armed'
        /\ c \in Conns /\ wants_write[c] => c \in armed'
        /\ UNCHANGED <<rx, fin, out, close_after_flush, wants_write, batch, pc, current>>
    BY <1>3 DEF Receive
  <2>2. ASSUME NEW d \in Conns, d # c PROVE WokenToRead(d)' /\ WokenToWrite(d)'
    BY <1>3, <2>1, <2>2, WokenFrame DEF Receive
  <2>3. ASSUME c \in Conns PROVE WokenToRead(c)'
    BY <2>1, <2>3 DEF WokenToRead, Readable
  <2>4. ASSUME c \in Conns PROVE WokenToWrite(c)'
    <3>1. CASE wants_write[c]
      BY <2>1, <2>4, <3>1 DEF WokenToWrite
    <3>2. CASE ~ wants_write[c]
      <4>1. \/ pc \in {"write", "interest"} /\ current = c
            \/ ~ (out[c] > 0)
        BY <2>4, <3>2 DEF InterestMatches
      <4>2. QED
        BY <2>1, <3>2, <4>1 DEF WokenToWrite
    <3>3. QED
      BY <3>1, <3>2
  <2>5. QED
    BY <2>1, <2>2, <2>3, <2>4
<1>4. ASSUME NEW c \in Client, Hangup(c) PROVE Woken'
  <2>1. Conns' = Conns /\ armed' = armed \cup ArmIfOpen(c)
    BY <1>4 DEF Hangup
  <2>2. ASSUME NEW d \in Conns, d # c PROVE WokenToRead(d)' /\ WokenToWrite(d)'
    BY <1>4, <2>1, <2>2, WokenFrame DEF Hangup
  <2>3. c \in Conns => c \in armed'
    BY <2>1 DEF ArmIfOpen
  <2>4. QED
    BY <2>1, <2>2, <2>3 DEF WokenToRead, WokenToWrite
<1>5. CASE ServeHead \/ StartDrain \/ DrainHead
  <2>1. /\ Conns' = Conns /\ \A d \in armed : d \in Client => d \in armed'
        /\ pc = "head" /\ UNCHANGED <<rx, tx, fin, out, wants_write, close_after_flush, batch, current>>
    BY <1>5 DEF ServeHead, StartDrain, DrainHead
  <2>2. \A d \in Conns : WokenToRead(d)' /\ WokenToWrite(d)'
    BY <2>1, WokenFrame
  <2>3. QED
    BY <2>1, <2>2
<1>6. CASE Poll
  <2> DEFINE ready == {c \in armed \cap Conns : Readable(c) \/ (wants_write[c] /\ Writable(c))}
  <2>1. /\ \A c \in ready : [token |-> c, readable |-> Readable(c)] \in batch'
        /\ pc = "poll" /\ UNCHANGED <<sock, rx, tx, fin, out, wants_write, close_after_flush>>
    BY <1>6 DEF Poll
  <2>2. batch = {} /\ Conns' = Conns
    BY <2>1 DEF Batched
  <2>3. ASSUME NEW d \in Conns PROVE WokenToRead(d)'
    <3>1. SUFFICES ASSUME Readable(d), ~ close_after_flush[d]
                   PROVE  [token |-> d, readable |-> TRUE] \in batch'
      BY <2>1 DEF WokenToRead, Readable
    <3>2. d \in armed
      BY <2>2, <3>1 DEF WokenToRead
    <3>3. Readable(d) = TRUE
      BY <3>1 DEF Readable
    <3>4. QED
      BY <2>1, <3>2, <3>3
  <2>4. ASSUME NEW d \in Conns PROVE WokenToWrite(d)'
    <3>1. SUFFICES ASSUME out[d] > 0, tx[d] < SendBuf PROVE \E e \in batch' : e.token = d
      BY <2>1 DEF WokenToWrite
    <3>2. d \in armed
      BY <2>1, <2>2, <3>1 DEF WokenToWrite
    <3>3. wants_write[d] /\ Writable(d)
      BY <2>1, <3>1 DEF InterestMatches, Writable
    <3>4. [token |-> d, readable |-> Readable(d)] \in batch'
      BY <2>1, <3>2, <3>3
    <3>5. [token |-> d, readable |-> Readable(d)].token = d
      OBVIOUS
    <3>6. QED
      BY <3>4, <3>5
  <2>5. QED
    BY <2>2, <2>3, <2>4
<1>7. CASE Stop
  BY <1>7 DEF Stop, DropAll
<1>8. CASE Signal
  <2>1. CASE SignalOnReactor /\ pc = "poll"
    BY <1>8, <2>1 DEF Signal, DropAll
  <2>2. CASE ~ (SignalOnReactor /\ pc = "poll")
    BY <1>8, <2>2 DEF Signal, WokenToRead, WokenToWrite, Readable
  <2>3. QED
    BY <2>1, <2>2
<1>9. CASE AcceptAll
  <2>1. PICK taken, admitted : Admission(taken, admitted)
    BY <1>9, AcceptShape
  <2>2. /\ UNCHANGED <<rx, tx, fin, out, wants_write, close_after_flush, pc, current>>
        /\ batch' = {e \in batch : e.token # Listener} /\ armed \subseteq armed'
    BY <1>9, <2>1 DEF AcceptAll, Admission
  <2>3. ASSUME NEW d \in Conns PROVE WokenToRead(d)' /\ WokenToWrite(d)'
    BY <2>2, WokenFrame
  <2>4. ASSUME NEW d \in admitted PROVE WokenToRead(d)' /\ WokenToWrite(d)'
    <3>1. d \in Client /\ sock[d] = "backlog"
      BY <2>1 DEF Admission, Backlog
    <3>2. out[d] = 0
      BY <3>1 DEF Counts
    <3>3. Readable(d) => d \in armed'
      BY <2>1 DEF Admission
    <3>4. QED
      BY <2>2, <3>1, <3>2, <3>3 DEF WokenToRead, WokenToWrite, Readable
  <2>5. Conns' \subseteq Conns \cup admitted
    BY <2>1 DEF Admission
  <2>6. QED
    BY <2>3, <2>4, <2>5
<1>10. ASSUME NEW e \in batch, HandleNoRead(e) PROVE Woken'
  <2> DEFINE c == e.token
  <2>1. /\ c \in Conns /\ Conns' = Conns /\ batch' = batch \ {e} /\ pc' = "write" /\ current' = c
        /\ pc = "events" /\ (~ e.readable \/ close_after_flush[c])
        /\ UNCHANGED <<rx, tx, fin, armed, out, wants_write, close_after_flush>>
    BY <1>10 DEF HandleNoRead, Take
  <2>2. ASSUME NEW d \in Conns, d # c PROVE WokenToRead(d)' /\ WokenToWrite(d)'
    BY <2>1, <2>2, WokenFrame
  <2>3. WokenToRead(c)'
    <3>1. WokenToRead(c)
      BY <2>1
    <3>2. [token |-> c, readable |-> TRUE].readable = TRUE
      OBVIOUS
    <3>3. QED
      BY <2>1, <3>1, <3>2 DEF WokenToRead, Readable
  <2>4. WokenToWrite(c)'
    BY <2>1 DEF WokenToWrite
  <2>5. QED
    BY <2>1, <2>2, <2>3, <2>4
<1>11. ASSUME NEW e \in batch, HandleEof(e) PROVE Woken'
  <2> DEFINE c == e.token
  <2>1. /\ c \in Conns /\ Conns' = Conns \ {c} /\ batch' = batch \ {e} /\ pc = "events"
        /\ rx' = [rx EXCEPT ![c] = 0] /\ armed' = armed \ {c}
        /\ UNCHANGED <<tx, fin, out, wants_write, close_after_flush>>
    BY <1>11 DEF HandleEof, Take, CloseConns
  <2>2. ASSUME NEW d \in Conns, d # c PROVE WokenToRead(d)' /\ WokenToWrite(d)'
    BY <2>1, <2>2, WokenFrame
  <2>3. QED
    BY <2>1, <2>2
<1>12. ASSUME NEW e \in batch, HandleRead(e) PROVE Woken'
  <2> DEFINE c == e.token
  <2>1. /\ c \in Conns /\ Conns' = Conns /\ batch' = batch \ {e} /\ pc = "events"
        /\ pc' = "write" /\ current' = c /\ ~ fin[c]
        /\ rx' = [rx EXCEPT ![c] = 0]
        /\ UNCHANGED <<tx, fin, armed, wants_write>>
    BY <1>12 DEF HandleRead, Take
  <2>2. \A d \in Client : d # c => out'[d] = out[d] /\ close_after_flush'[d] = close_after_flush[d]
    BY <1>12 DEF HandleRead
  <2>3. ASSUME NEW d \in Conns, d # c PROVE WokenToRead(d)' /\ WokenToWrite(d)'
    BY <2>1, <2>2, <2>3, WokenFrame
  <2>4. ~ Readable(c)'
    BY <2>1 DEF Readable
  <2>5. WokenToRead(c)' /\ WokenToWrite(c)'
    BY <2>1, <2>4 DEF WokenToRead, WokenToWrite
  <2>6. QED
    BY <2>1, <2>3, <2>5
<1>13. CASE WriteOut
  <2> DEFINE c == current
             n == IF out[c] <= SendBuf - tx[c] THEN out[c] ELSE SendBuf - tx[c]
  <2>1. /\ c \in Conns /\ Conns' = Conns /\ pc = "write" /\ pc' = "interest"
        /\ tx' = [tx EXCEPT ![c] = @ + n] /\ out' = [out EXCEPT ![c] = @ - n]
        /\ UNCHANGED <<rx, fin, armed, wants_write, close_after_flush, batch, current>>
    BY <1>13 DEF WriteOut, Batched
  <2>2. ASSUME NEW d \in Conns, d # c PROVE WokenToRead(d)' /\ WokenToWrite(d)'
    BY <2>1, <2>2, WokenFrame
  <2>3. tx'[c] = tx[c] + n /\ out'[c] = out[c] - n
    BY <2>1
  <2>4. ~ (out'[c] > 0 /\ tx'[c] < SendBuf)
    BY <2>1, <2>3
  <2> HIDE DEF n
  <2>5. WokenToRead(c)'
    BY <2>1 DEF WokenToRead, Readable
  <2>6. WokenToWrite(c)'
    BY <2>1, <2>4 DEF WokenToWrite
  <2>7. QED
    BY <2>1, <2>2, <2>5, <2>6
<1>14. CASE WriteFails
  <2>1. /\ Conns' = Conns \ {current} /\ armed' = armed \ {current}
        /\ UNCHANGED <<rx, tx, fin, out, wants_write, close_after_flush, batch, current>>
    BY <1>14 DEF WriteFails, CloseConns
  <2>2. ASSUME NEW d \in Conns, d # current PROVE WokenToRead(d)' /\ WokenToWrite(d)'
    BY <2>1, <2>2, WokenFrame
  <2>3. QED
    BY <2>1, <2>2
<1>15. CASE Flushed
  <2> DEFINE c == current
  <2>1. /\ c \in Conns /\ pc = "interest" /\ out[c] = 0 /\ pc' = "events"
        /\ \A d \in Client : d # c => wants_write'[d] = wants_write[d] /\ sock'[d] = sock[d]
        /\ \A d \in armed : d # c => d \in armed'
        /\ UNCHANGED <<rx, tx, fin, out, close_after_flush, batch, current>>
    BY <1>15 DEF Flushed, CloseConns, Batched
  <2>2. ASSUME NEW d \in Conns, d # c PROVE WokenToRead(d)' /\ WokenToWrite(d)'
    BY <2>1, <2>2, WokenFrame
  <2>3. WokenToWrite(c)'
    BY <2>1 DEF WokenToWrite
  <2>4. ASSUME c \in Conns' PROVE armed \subseteq armed'
    BY <1>15, <2>1, <2>4 DEF Flushed, CloseConns
  <2>5. ASSUME c \in Conns' PROVE WokenToRead(c)'
    BY <2>1, <2>4, <2>5 DEF WokenToRead, Readable
  <2>6. \A d \in Conns' : d = c \/ d \in Conns
    BY <2>1
  <2>7. QED
    BY <2>1, <2>2, <2>3, <2>5, <2>6
<1>16. CASE Pending
  <2> DEFINE c == current
  <2>1. /\ c \in Conns /\ Conns' = Conns /\ pc = "interest" /\ pc' = "events"
        /\ wants_write' = [wants_write EXCEPT ![c] = TRUE]
        /\ armed \subseteq armed' /\ (~ wants_write[c] /\ Writable(c) => c \in armed')
        /\ UNCHANGED <<rx, tx, fin, out, close_after_flush, batch, current>>
    BY <1>16 DEF Pending, Batched
  <2>2. ASSUME NEW d \in Conns, d # c PROVE WokenToRead(d)' /\ WokenToWrite(d)'
    BY <2>1, <2>2, WokenFrame
  <2>3. WokenToRead(c)'
    BY <2>1 DEF WokenToRead, Readable
  <2>4. WokenToWrite(c)'
    BY <2>1 DEF WokenToWrite, Writable
  <2>5. QED
    BY <2>1, <2>2, <2>3, <2>4
<1>17. CASE Sweep
  <2>1. /\ Conns' = Conns \ Expired /\ armed' = armed \ Expired /\ pc = "events"
        /\ UNCHANGED <<rx, tx, fin, out, wants_write, close_after_flush, batch, current>>
    BY <1>17 DEF Sweep, CloseConns
  <2>2. ASSUME NEW d \in Conns, d \notin Expired PROVE WokenToRead(d)' /\ WokenToWrite(d)'
    BY <2>1, <2>2, WokenFrame
  <2>3. QED
    BY <2>1, <2>2
<1>18. ASSUME NEW timeout \in BOOLEAN, Tick(timeout) PROVE Woken'
  <2>1. /\ Conns' = Conns /\ pc = "poll"
        /\ UNCHANGED <<rx, tx, fin, out, armed, wants_write, close_after_flush, batch, current>>
    BY <1>18 DEF Tick
  <2>2. \A d \in Conns : WokenToRead(d)' /\ WokenToWrite(d)'
    BY <2>1, WokenFrame
  <2>3. QED
    BY <2>1, <2>2
<1>19. CASE UNCHANGED vars
  BY <1>19 DEF vars, WokenToRead, WokenToWrite, Readable
<1>20. QED
  BY <1>1, <1>2, <1>3, <1>4, <1>5, <1>6, <1>7, <1>8, <1>9, <1>10,
     <1>11, <1>12, <1>13, <1>14, <1>15, <1>16, <1>17, <1>18, <1>19
     DEF Next, ReactorStep, Handle, ClientStep

LEMMA SettledStep == Types /\ Counts /\ Batched /\ Woken /\ Settled /\ [Next]_vars => Settled'
<1> SUFFICES ASSUME Types, Counts, Batched, Woken, Settled, [Next]_vars PROVE Settled'
  OBVIOUS
<1> USE OptionsAssumption DEF kernel, conn, loop, Running, Types, Settled, Conns
<1>1. ASSUME NEW c \in Client, Connect(c) PROVE Settled'
  BY <1>1 DEF Connect
<1>2. ASSUME NEW c \in Client, Send(c) PROVE Settled'
  BY <1>2 DEF Send
<1>3. ASSUME NEW c \in Client, Receive(c) PROVE Settled'
  BY <1>3 DEF Receive
<1>4. ASSUME NEW c \in Client, Hangup(c) PROVE Settled'
  BY <1>4 DEF Hangup
<1>5. CASE ServeHead \/ StartDrain \/ DrainHead
  BY <1>5 DEF ServeHead, StartDrain, DrainHead
<1>6. CASE Poll
  BY <1>6 DEF Poll
<1>7. CASE Stop
  BY <1>7 DEF Stop, DropAll
<1>8. CASE Signal
  BY <1>8 DEF Signal, DropAll
<1>9. CASE AcceptAll
  <2>1. PICK taken, admitted : Admission(taken, admitted)
    BY <1>9, AcceptShape
  <2>2. UNCHANGED <<fin, out>>
    BY <1>9 DEF AcceptAll
  <2>3. ASSUME NEW d \in Client PROVE d \in taken => sock[d] = "backlog" /\ why[d] = "none"
    BY <2>1 DEF Admission, Backlog
  <2>4. /\ \A d \in Client : sock'[d] = IF d \in admitted THEN "open" ELSE IF d \in taken THEN "closed" ELSE sock[d]
        /\ \A d \in Client : why'[d] = IF d \in taken \ admitted THEN "capacity" ELSE why[d]
        /\ \A d \in Client : age'[d] = IF d \in admitted THEN 0 ELSE age[d]
        /\ admitted \subseteq taken
    BY <2>1 DEF Admission
  <2>5. ASSUME NEW d \in Client
        PROVE  /\ d \in Conns' /\ d \in Prompt /\ ~ fin'[d] /\ age'[d] > 0 => out'[d] = 0
               /\ why'[d] # "none" => sock'[d] = "closed"
               /\ why'[d] = "flushed" => out'[d] = 0
               /\ why'[d] = "idle" /\ d \in Prompt /\ ~ fin'[d] => out'[d] = 0
    <3>1. CASE d \in admitted
      BY <2>2, <2>3, <2>4, <3>1
    <3>2. CASE d \in taken \ admitted
      BY <2>2, <2>3, <2>4, <3>2
    <3>3. CASE d \notin taken
      BY <2>2, <2>4, <3>3
    <3>4. QED
      BY <3>1, <3>2, <3>3
  <2>6. QED
    BY <2>5
<1>10. ASSUME NEW e \in batch, HandleNoRead(e) PROVE Settled'
  BY <1>10 DEF HandleNoRead, Take
<1>11. ASSUME NEW e \in batch, HandleEof(e) PROVE Settled'
  BY <1>11 DEF HandleEof, Take, CloseConns
<1>12. ASSUME NEW e \in batch, HandleRead(e) PROVE Settled'
  BY <1>12 DEF HandleRead, Take
<1>13. CASE WriteOut
  <2> DEFINE c == current
             n == IF out[c] <= SendBuf - tx[c] THEN out[c] ELSE SendBuf - tx[c]
  <2>1. /\ c \in Conns /\ out' = [out EXCEPT ![c] = @ - n]
        /\ UNCHANGED <<sock, fin, age, why>>
    BY <1>13 DEF WriteOut, Batched
  <2>2. n \in Nat /\ n <= out[c]
    BY <2>1 DEF Counts
  <2> HIDE DEF n
  <2>3. \A d \in Client : out[d] = 0 => out'[d] = 0
    BY <2>1, <2>2
  <2>4. QED
    BY <2>1, <2>3
<1>14. CASE WriteFails
  BY <1>14 DEF WriteFails, CloseConns
<1>15. CASE Flushed
  BY <1>15 DEF Flushed, CloseConns
<1>16. CASE Pending
  BY <1>16 DEF Pending
<1>17. CASE Sweep
  <2>1. /\ \A d \in Client : sock'[d] = IF d \in Expired THEN "closed" ELSE sock[d]
        /\ \A d \in Client : why'[d] = IF d \in Expired THEN "idle" ELSE why[d]
        /\ UNCHANGED <<fin, out, age>>
    BY <1>17 DEF Sweep, CloseConns
  <2>2. \A d \in Expired : d \in Conns /\ age[d] > 0
    BY DEF Expired
  <2>3. QED
    BY <2>1, <2>2
<1>18. ASSUME NEW timeout \in BOOLEAN, Tick(timeout) PROVE Settled'
  <2>1. /\ pc = "poll" /\ armed = {} /\ batch = {} /\ \A c \in Prompt : tx[c] = 0 \/ fin[c]
        /\ UNCHANGED <<sock, fin, out, why>>
    BY <1>18 DEF Tick, Batched
  <2>2. ASSUME NEW d \in Conns, d \in Prompt, ~ fin[d] PROVE out[d] = 0
    <3>1. WokenToWrite(d) /\ tx[d] = 0
      BY <2>1, <2>2 DEF Woken
    <3>2. QED
      BY <2>1, <3>1 DEF WokenToWrite
  <2>3. QED
    BY <2>1, <2>2
<1>19. CASE UNCHANGED vars
  BY <1>19 DEF vars
<1>20. QED
  BY <1>1, <1>2, <1>3, <1>4, <1>5, <1>6, <1>7, <1>8, <1>9, <1>10,
     <1>11, <1>12, <1>13, <1>14, <1>15, <1>16, <1>17, <1>18, <1>19
     DEF Next, ReactorStep, Handle, ClientStep

LEMMA ListenerStep == AcceptErrors = FALSE /\ Types /\ Batched /\ ListenerWoken /\ [Next]_vars => ListenerWoken'
<1> SUFFICES ASSUME AcceptErrors = FALSE, Types, Batched, ListenerWoken, [Next]_vars PROVE ListenerWoken'
  OBVIOUS
<1> USE OptionsAssumption DEF kernel, conn, loop, Running, Types, ListenerWoken, Backlog, Conns
<1>1. ASSUME NEW c \in Client, Connect(c) PROVE ListenerWoken'
  BY <1>1 DEF Connect
<1>2. ASSUME NEW c \in Client, Send(c) PROVE ListenerWoken'
  BY <1>2 DEF Send
<1>3. ASSUME NEW c \in Client, Receive(c) PROVE ListenerWoken'
  BY <1>3 DEF Receive
<1>4. ASSUME NEW c \in Client, Hangup(c) PROVE ListenerWoken'
  BY <1>4 DEF Hangup
<1>5. CASE ServeHead \/ StartDrain \/ DrainHead
  BY <1>5 DEF ServeHead, StartDrain, DrainHead
<1>6. CASE Poll
  <2> DEFINE waiting == Listener \in armed /\ \E c \in Client : sock[c] = "backlog"
  <2>1. /\ waiting => [token |-> Listener, readable |-> TRUE] \in batch'
        /\ pc = "poll" /\ UNCHANGED <<sock, phase>>
    BY <1>6 DEF Poll
  <2>2. batch = {}
    BY <2>1 DEF Batched
  <2>3. QED
    BY <2>1, <2>2
<1>7. CASE Stop
  BY <1>7 DEF Stop, DropAll
<1>8. CASE Signal
  BY <1>8 DEF Signal, DropAll
<1>9. CASE AcceptAll
  <2>1. PICK taken, admitted : Admission(taken, admitted)
    BY <1>9, AcceptShape
  <2>2. taken = Backlog
    BY <2>1 DEF Admission, AcceptRuns
  <2>3. Backlog' = {}
    BY <2>1, <2>2 DEF Admission
  <2>4. QED
    BY <2>3
<1>10. ASSUME NEW e \in batch, HandleNoRead(e) PROVE ListenerWoken'
  BY <1>10 DEF HandleNoRead, Take
<1>11. ASSUME NEW e \in batch, HandleEof(e) PROVE ListenerWoken'
  BY <1>11 DEF HandleEof, Take, CloseConns
<1>12. ASSUME NEW e \in batch, HandleRead(e) PROVE ListenerWoken'
  BY <1>12 DEF HandleRead, Take
<1>13. CASE WriteOut
  BY <1>13 DEF WriteOut
<1>14. CASE WriteFails
  <2>1. current # Listener
    BY <1>14 DEF WriteFails, Batched
  <2>2. Backlog' \subseteq Backlog /\ armed' = armed \ {current} /\ UNCHANGED <<phase, batch>>
    BY <1>14 DEF WriteFails, CloseConns
  <2>3. QED
    BY <2>1, <2>2
<1>15. CASE Flushed
  <2>1. current # Listener
    BY <1>15 DEF Flushed, Batched
  <2>2. Backlog' \subseteq Backlog /\ (Listener \in armed => Listener \in armed') /\ UNCHANGED <<phase, batch>>
    <3>1. CASE close_after_flush[current]
      BY <1>15, <2>1, <3>1 DEF Flushed, CloseConns
    <3>2. CASE ~ close_after_flush[current]
      BY <1>15, <3>2 DEF Flushed
    <3>3. QED
      BY <3>1, <3>2
  <2>3. QED
    BY <2>2
<1>16. CASE Pending
  BY <1>16 DEF Pending
<1>17. CASE Sweep
  <2>1. Listener \notin Expired
    BY DEF Expired
  <2>2. Backlog' \subseteq Backlog /\ armed' = armed \ Expired /\ UNCHANGED <<phase, batch>>
    BY <1>17 DEF Sweep, CloseConns
  <2>3. QED
    BY <2>1, <2>2
<1>18. ASSUME NEW timeout \in BOOLEAN, Tick(timeout) PROVE ListenerWoken'
  BY <1>18 DEF Tick
<1>19. CASE UNCHANGED vars
  BY <1>19 DEF vars
<1>20. QED
  BY <1>1, <1>2, <1>3, <1>4, <1>5, <1>6, <1>7, <1>8, <1>9, <1>10,
     <1>11, <1>12, <1>13, <1>14, <1>15, <1>16, <1>17, <1>18, <1>19
     DEF Next, ReactorStep, Handle, ClientStep

LEMMA LoopInvariant == Spec => []LoopInv
<1>1. Init => LoopInv
  <2> SUFFICES ASSUME Init PROVE LoopInv
    OBVIOUS
  <2>1. Conns = {}
    BY DEF Init, Conns
  <2>2. Types
    BY DEF Init, Types
  <2>3. Counts
    BY OptionsAssumption DEF Init, Counts
  <2>4. Batched
    BY DEF Init, Batched
  <2>5. InterestMatches /\ Woken
    BY <2>1 DEF InterestMatches, Woken
  <2>6. Settled
    BY DEF Init, Settled
  <2>7. QED
    BY <2>2, <2>3, <2>4, <2>5, <2>6 DEF LoopInv
<1>2. LoopInv /\ [Next]_vars => LoopInv'
  BY TypesStep, CountsStep, BatchedStep, InterestStep, WokenStep, SettledStep DEF LoopInv
<1>3. QED
  BY <1>1, <1>2, PTL DEF Spec

\* Every queue of the event loop keeps its type and its bound: no more requests
\* are read or answered than were sent, the send queue is not overfilled, and
\* only connections of the map and the listener are registered for an edge.
THEOREM ReactorTypeCorrect == Spec => []TypeOK
<1>1. LoopInv => TypeOK
  <2> SUFFICES ASSUME LoopInv PROVE TypeOK
    OBVIOUS
  <2> USE DEF LoopInv
  <2>1. ASSUME NEW c \in Client
        PROVE  /\ sent[c] \in 0 .. MaxRequests /\ rx[c] \in 0 .. MaxRequests /\ answered[c] \in 0 .. MaxRequests
               /\ tx[c] \in 0 .. SendBuf
    BY OptionsAssumption DEF Types, Counts
  <2>2. ASSUME NEW c \in Client
        PROVE  out[c] \in 0 .. RespLen * MaxRequests /\ recvd[c] \in 0 .. RespLen * MaxRequests
    <3>1. answered[c] \in Nat /\ MaxRequests \in Nat /\ answered[c] <= MaxRequests
      BY <2>1, OptionsAssumption
    <3> DEFINE u == RespLen * answered[c]
               v == RespLen * MaxRequests
    <3>2. u \in Nat /\ v \in Nat /\ u <= v
      <4>1. RespLen * (MaxRequests - answered[c]) \in Nat /\ v = u + RespLen * (MaxRequests - answered[c])
        BY <3>1, Units
      <4>2. u \in Nat /\ v \in Nat
        BY <3>1, OptionsAssumption
      <4> HIDE DEF u, v
      <4>3. QED
        BY <4>1, <4>2
    <3>3. recvd[c] + tx[c] + out[c] = u /\ recvd[c] \in Nat /\ tx[c] \in Nat /\ out[c] \in Nat
      BY DEF Types, Counts
    <3> HIDE DEF u, v
    <3>4. out[c] \in 0 .. v /\ recvd[c] \in 0 .. v
      BY <3>2, <3>3
    <3>5. QED
      BY <3>4 DEF v
  <2>3. /\ sent \in [Client -> 0 .. MaxRequests] /\ rx \in [Client -> 0 .. MaxRequests]
        /\ answered \in [Client -> 0 .. MaxRequests] /\ tx \in [Client -> 0 .. SendBuf]
    BY <2>1 DEF Types
  <2>4. /\ out \in [Client -> 0 .. RespLen * MaxRequests]
        /\ recvd \in [Client -> 0 .. RespLen * MaxRequests]
    BY <2>2 DEF Types
  <2>5. QED
    BY <2>3, <2>4 DEF Types, Batched, TypeOK
<1>2. QED
  BY <1>1, LoopInvariant, PTL

\* Outside its handler a connection is registered for writing exactly when it
\* has something to write (update_interest, transport_mio.rs 486-509).
THEOREM InterestTheorem == Spec => []InterestMatches
BY LoopInvariant, PTL DEF LoopInv

\* No response unit is lost or sent twice; a connection closed by its own
\* response has been flushed, and sweep_idle reaps no prompt reader that is
\* still owed something: to grow old it must have nothing to write, since the
\* reactor never sleeps on a connection it could write to.
THEOREM LossTheorem == Spec => []NothingLost
<1>1. LoopInv => NothingLost
  BY DEF LoopInv, Counts, Settled, NothingLost
<1>2. QED
  BY <1>1, LoopInvariant, PTL

\* Where accept does not fail, the reactor never sleeps in poll on something it
\* could read, write or accept, although each edge is reported only once.
THEOREM WakeupTheorem ==
    ASSUME AcceptErrors = FALSE
    PROVE  Spec => []NoLostWakeup
<1>1. Init => ListenerWoken
  BY DEF Init, ListenerWoken, Backlog
<1>2. LoopInv /\ ListenerWoken /\ [Next]_vars => ListenerWoken'
  BY ListenerStep DEF LoopInv
<1>3. LoopInv /\ ListenerWoken => NoLostWakeup
  <2> SUFFICES ASSUME LoopInv, ListenerWoken, pc = "poll", Running
               PROVE  /\ \A c \in Conns :
                            /\ Readable(c) /\ ~ close_after_flush[c] => c \in armed
                            /\ out[c] > 0 /\ tx[c] < SendBuf => c \in armed
                      /\ phase = "serve" /\ Backlog # {} => Listener \in armed
    BY DEF NoLostWakeup
  <2>1. batch = {}
    BY DEF LoopInv, Batched
  <2>2. \A c \in Conns : WokenToRead(c) /\ WokenToWrite(c)
    BY DEF LoopInv, Woken
  <2>3. QED
    BY <2>1, <2>2 DEF WokenToRead, WokenToWrite, ListenerWoken
<1>4. QED
  BY <1>1, <1>2, <1>3, LoopInvariant, PTL DEF Spec
=============================================================================
