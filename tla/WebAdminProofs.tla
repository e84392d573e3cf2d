--------------------------- MODULE WebAdminProofs ---------------------------
(***************************************************************************)
(* Proofs about WebAdmin, for any number of workers, requests, settings and *)
(* passwords, with overlapping writes and crashes.                          *)
(***************************************************************************)
EXTENDS WebAdmin, TLAPS

LEMMA ConfigFields ==
    ASSUME NEW c \in Config PROVE c.site \in Site /\ c.pass \in Password
BY DEF Config

\* A damaged file is not taken for a configuration.
LEMMA DamageIsNoConfig == Empty \notin Config /\ Mixed \notin Config
<1>1. \A c \in Config : DOMAIN c = {"site", "pass"}
  BY DEF Config
<1>2. DOMAIN Empty = {"damage"} /\ DOMAIN Mixed = {"damage"}
  BY DEF Empty, Mixed
<1>3. "damage" \notin {"site", "pass"}
  OBVIOUS
<1>4. QED
  BY <1>1, <1>2, <1>3

\* The values of the variables are what the code can hold (WebAdmin!TypeOK).
THEOREM AdminTypeCorrect == Spec => []TypeOK
<1> USE AdminAssumption DEF TypeOK
<1>1. Init => TypeOK
  <2>1. First \in Config /\ First.site \in Site /\ MaxRequests \in Nat
    BY ConfigFields DEF AdminAssumption
  <2> SUFFICES ASSUME Init PROVE TypeOK
    OBVIOUS
  <2>2. up \in BOOLEAN /\ overlap \in BOOLEAN
    BY DEF Init
  <2>3. /\ config \in Config /\ app \in Site /\ file \in Config /\ written \subseteq Config
        /\ new \in [Worker -> Config] /\ served \in 0 .. MaxRequests
    BY <2>1 DEF Init
  <2>4. pc \in [Worker -> {"idle"}] /\ answer \in [Worker -> {0}]
        /\ request \in [Worker -> {NoRequest}]
    BY DEF Init
  <2>5. before \in [Worker -> [config : Config, app : Site, file : Config \cup {Empty, Mixed}]]
        /\ latest \in Worker
    BY <2>3 DEF Init, Running
  <2>6. QED
    BY <2>2, <2>3, <2>4, <2>5
<1>2. TypeOK /\ [Next]_vars => TypeOK'
  <2> SUFFICES ASSUME TypeOK, [Next]_vars PROVE TypeOK'
    OBVIOUS
  <2> USE DEF Goto, Reply, At, state, local, history
  <2>1. ASSUME NEW w \in Worker, NEW r \in Requests, Begin(w, r) PROVE TypeOK'
    BY <2>1 DEF Begin, Running
  <2>2. ASSUME NEW w \in Worker, Validate(w) PROVE TypeOK'
    <3>1. request[w] \in Requests /\ request[w].kind = "put"
      BY <2>2 DEF Validate, NoRequest
    <3>2. request[w].pass \in Password
      BY <3>1 DEF Requests
    <3>3. request[w].site \in Site => [site |-> request[w].site, pass |-> request[w].pass] \in Config
      BY <3>2 DEF Config
    <3>4. CASE request[w].site \in Site
      <4> DEFINE c == [site |-> request[w].site, pass |-> request[w].pass]
      <4>1. /\ new' = [new EXCEPT ![w] = c] /\ pc' = [pc EXCEPT ![w] = "open"]
            /\ UNCHANGED <<state, request, answer, latest, served, history>>
        BY <2>2, <3>4, Zenon DEF Validate, Opening
      <4>2. c \in Config
        BY <3>3, <3>4
      <4> HIDE DEF c
      <4>3. QED
        BY <4>1, <4>2
    <3>5. CASE request[w].site \notin Site
      <4>1. /\ answer' = [answer EXCEPT ![w] = 400] /\ latest' = w
            /\ pc' = [pc EXCEPT ![w] = "idle"]
            /\ UNCHANGED <<state, request, new, served, history>>
        BY <2>2, <3>5, Zenon DEF Validate
      <4>2. QED
        BY <4>1
    <3>6. QED
      BY <3>4, <3>5
  <2>3. ASSUME NEW w \in Worker, Verify(w) PROVE TypeOK'
    <3>1. CASE request[w].pass \in Password /\ request[w].current = config.pass
      <4> DEFINE c == [site |-> config.site, pass |-> request[w].pass]
      <4>1. /\ new' = [new EXCEPT ![w] = c] /\ pc' = [pc EXCEPT ![w] = "open"]
            /\ UNCHANGED <<state, request, answer, latest, served, history>>
        BY <2>3, <3>1, Zenon DEF Verify, Opening
      <4>2. c \in Config
        BY <3>1, ConfigFields DEF Config
      <4> HIDE DEF c
      <4>3. QED
        BY <4>1, <4>2
    <3>2. CASE ~ (request[w].pass \in Password /\ request[w].current = config.pass)
      <4>1. PICK status \in {400, 401} : /\ answer' = [answer EXCEPT ![w] = status]
                                          /\ pc' = [pc EXCEPT ![w] = "idle"]
                                          /\ latest' = w
                                          /\ UNCHANGED <<state, request, new, served, history>>
        BY <2>3, <3>2 DEF Verify
      <4>2. QED
        BY <4>1
    <3>3. QED
      BY <3>1, <3>2
  <2>4. ASSUME NEW w \in Worker, Truncate(w) PROVE TypeOK'
    BY <2>4 DEF Truncate
  <2>5. ASSUME NEW w \in Worker, Write(w) PROVE TypeOK'
    BY <2>5 DEF Write
  <2>6. ASSUME NEW w \in Worker, WriteFails(w) PROVE TypeOK'
    BY <2>6 DEF WriteFails
  <2>7. ASSUME NEW w \in Worker, SwapBoth(w) PROVE TypeOK'
    BY <2>7, ConfigFields DEF SwapBoth
  <2>8. ASSUME NEW w \in Worker, SwapConfig(w) PROVE TypeOK'
    BY <2>8 DEF SwapConfig
  <2>9. CASE Crash
    BY <2>9 DEF Crash
  <2>10. CASE Restart
    BY <2>10, ConfigFields DEF Restart
  <2>11. CASE UNCHANGED vars
    BY <2>11 DEF vars
  <2>12. QED
    BY <2>1, <2>2, <2>3, <2>4, <2>5, <2>6, <2>7, <2>8, <2>9, <2>10, <2>11
       DEF Next, Step
<1>3. QED
  BY <1>1, <1>2, PTL DEF Spec

\* A request past its write has its configuration written, and a file that
\* holds a configuration holds one that was written.
WrittenInv ==
    /\ \A w \in Worker : pc[w] = "swap" => new[w] \in written
    /\ file \in Config => file \in written

\* What PersistBeforeSwap needs of the state before a step.
LEMMA WrittenInvariant == Spec => []WrittenInv
<1>1. Init => WrittenInv
  BY DEF Init, WrittenInv
<1>2. TypeOK /\ WrittenInv /\ [Next]_vars => WrittenInv'
  <2> SUFFICES ASSUME TypeOK, WrittenInv, [Next]_vars PROVE WrittenInv'
    OBVIOUS
  <2> USE DEF TypeOK, WrittenInv, Goto, Reply, At, state, local, history
  <2>1. ASSUME NEW w \in Worker, NEW r \in Requests, Begin(w, r) PROVE WrittenInv'
    BY <2>1 DEF Begin
  <2>2. ASSUME NEW w \in Worker, Validate(w) PROVE WrittenInv'
    BY <2>2 DEF Validate, Opening
  <2>3. ASSUME NEW w \in Worker, Verify(w) PROVE WrittenInv'
    BY <2>3 DEF Verify, Opening
  <2>4. ASSUME NEW w \in Worker, Truncate(w) PROVE WrittenInv'
    BY <2>4, DamageIsNoConfig DEF Truncate
  <2>5. ASSUME NEW w \in Worker, Write(w) PROVE WrittenInv'
    BY <2>5, DamageIsNoConfig DEF Write
  <2>6. ASSUME NEW w \in Worker, WriteFails(w) PROVE WrittenInv'
    BY <2>6, DamageIsNoConfig DEF WriteFails
  <2>7. ASSUME NEW w \in Worker, SwapBoth(w) PROVE WrittenInv'
    BY <2>7 DEF SwapBoth
  <2>8. ASSUME NEW w \in Worker, SwapConfig(w) PROVE WrittenInv'
    BY <2>8 DEF SwapConfig
  <2>9. CASE Crash
    BY <2>9 DEF Crash
  <2>10. CASE Restart
    BY <2>10 DEF Restart
  <2>11. CASE UNCHANGED vars
    BY <2>11 DEF vars
  <2>12. QED
    BY <2>1, <2>2, <2>3, <2>4, <2>5, <2>6, <2>7, <2>8, <2>9, <2>10, <2>11
       DEF Next, Step
<1>3. QED
  BY <1>1, <1>2, AdminTypeCorrect, PTL DEF Spec

\* A configuration runs only once all of it was written to the file
\* (put_config and change_password, admin.rs 99-109 and 164-173; main at start).
THEOREM PersistedFirst == Spec => PersistBeforeSwap
<1> DEFINE A == up' /\ config' # config => config' \in written
<1>1. WrittenInv /\ [Next]_vars => [A]_vars
  <2> SUFFICES ASSUME WrittenInv, Next PROVE A
    OBVIOUS
  <2> USE DEF WrittenInv, state, At
  <2>1. ASSUME NEW w \in Worker, NEW r \in Requests, Begin(w, r) PROVE A
    BY <2>1 DEF Begin
  <2>2. ASSUME NEW w \in Worker, Validate(w) PROVE A
    BY <2>2 DEF Validate
  <2>3. ASSUME NEW w \in Worker, Verify(w) PROVE A
    BY <2>3 DEF Verify
  <2>4. ASSUME NEW w \in Worker, Truncate(w) PROVE A
    BY <2>4 DEF Truncate
  <2>5. ASSUME NEW w \in Worker, Write(w) PROVE A
    BY <2>5 DEF Write
  <2>6. ASSUME NEW w \in Worker, WriteFails(w) PROVE A
    BY <2>6 DEF WriteFails
  <2>7. ASSUME NEW w \in Worker, SwapBoth(w) PROVE A
    BY <2>7 DEF SwapBoth
  <2>8. ASSUME NEW w \in Worker, SwapConfig(w) PROVE A
    BY <2>8 DEF SwapConfig
  <2>9. CASE Crash
    BY <2>9 DEF Crash
  <2>10. CASE Restart
    BY <2>10 DEF Restart
  <2>11. QED
    BY <2>1, <2>2, <2>3, <2>4, <2>5, <2>6, <2>7, <2>8, <2>9, <2>10 DEF Next, Step
<1>2. QED
  BY <1>1, WrittenInvariant, PTL DEF Spec, PersistBeforeSwap

-----------------------------------------------------------------------------
(* What a request that overlaps with no other does, as its caller sees it. *)

\* The request of w, so far: nothing that runs has changed, the file only once
\* it was opened, and what will be swapped in is what was asked for.
Underway(w) ==
    /\ config = before[w].config /\ app = before[w].app
    /\ pc[w] \in {"verify", "open"} => file = before[w].file
    /\ pc[w] = "write" => file = Empty
    /\ pc[w] = "swap" => file = new[w]
    /\ pc[w] \in {"open", "write", "swap"} =>
          /\ new[w].pass = request[w].pass
          /\ request[w].kind = "password" =>
                /\ new[w].site = before[w].config.site
                /\ request[w].current = before[w].config.pass

\* A server that is down answers nobody.  Without overlap one request is under
\* way at most, and the App is the one built from the configuration.
SoloInv ==
    /\ ~ up => \A w \in Worker : pc[w] = "idle" /\ answer[w] = 0
    /\ ~ overlap =>
          /\ app = config.site
          /\ \A w \in Worker : pc[w] # "idle" =>
                /\ Underway(w)
                /\ \A v \in Worker : pc[v] # "idle" => v = w
    /\ AcceptedIsApplied
    /\ RefusedIsHarmless

\* One step keeps SoloInv.  The interesting cases are the swaps, which answer
\* 200, and the replies that refuse.
LEMMA SoloStep == TypeOK /\ SoloInv /\ [Next]_vars => SoloInv'
<1> SUFFICES ASSUME TypeOK, SoloInv, [Next]_vars PROVE SoloInv'
  OBVIOUS
<1> USE DEF TypeOK, SoloInv, Underway, AcceptedIsApplied, RefusedIsHarmless, Settled,
            Goto, Reply, At, state, local, history
<1>1. ASSUME NEW w \in Worker, NEW r \in Requests, Begin(w, r) PROVE SoloInv'
  <2>1. UNCHANGED <<up, config, app, file, new>> /\ up
    BY <1>1 DEF Begin
  <2>2. /\ before'[w] = [config |-> config, app |-> app, file |-> file]
        /\ request'[w] = r
    BY <1>1 DEF Begin, Running
  <2>3. ~ overlap' => ~ overlap /\ \A v \in Worker : pc[v] = "idle"
    BY <1>1 DEF Begin
  <2>4. \A v \in Worker : v # w => pc'[v] = pc[v]
    BY <1>1 DEF Begin
  <2>5. \/ pc'[w] = "verify" /\ answer'[w] = 0
        \/ pc'[w] = "idle" /\ answer'[w] = 401 /\ latest' = w
    <3>1. CASE r.cred = config.pass
      BY <1>1, <3>1 DEF Begin
    <3>2. CASE r.cred # config.pass
      BY <1>1, <3>2 DEF Begin
    <3>3. QED
      BY <3>1, <3>2
  <2>6. ASSUME ~ overlap', NEW v \in Worker, pc'[v] # "idle"
        PROVE  v = w /\ Underway(v)'
    BY <2>1, <2>2, <2>3, <2>4, <2>5, <2>6
  <2>7. ASSUME NEW v \in Worker, Settled(v)' PROVE v = w /\ answer'[v] = 401
    BY <2>3, <2>5, <2>7
  <2>8. QED
    BY <2>1, <2>2, <2>3, <2>6, <2>7
<1>2. ASSUME NEW w \in Worker, Validate(w) PROVE SoloInv'
  BY <1>2 DEF Validate, Opening
<1>3. ASSUME NEW w \in Worker, Verify(w) PROVE SoloInv'
  BY <1>3 DEF Verify, Opening
<1>4. ASSUME NEW w \in Worker, Truncate(w) PROVE SoloInv'
  BY <1>4 DEF Truncate
<1>5. ASSUME NEW w \in Worker, Write(w) PROVE SoloInv'
  BY <1>5 DEF Write
<1>6. ASSUME NEW w \in Worker, WriteFails(w) PROVE SoloInv'
  BY <1>6 DEF WriteFails
<1>7. ASSUME NEW w \in Worker, SwapBoth(w) PROVE SoloInv'
  BY <1>7 DEF SwapBoth
<1>8. ASSUME NEW w \in Worker, SwapConfig(w) PROVE SoloInv'
  BY <1>8 DEF SwapConfig
<1>9. CASE Crash
  BY <1>9 DEF Crash
<1>10. CASE Restart
  BY <1>10 DEF Restart
<1>11. CASE UNCHANGED vars
  BY <1>11 DEF vars
<1>12. QED
  BY <1>1, <1>2, <1>3, <1>4, <1>5, <1>6, <1>7, <1>8, <1>9, <1>10, <1>11 DEF Next, Step

LEMMA SoloInvariant == Spec => []SoloInv
<1>1. Init => SoloInv
  <2> SUFFICES ASSUME Init PROVE SoloInv
    OBVIOUS
  <2>1. up /\ \A w \in Worker : pc[w] = "idle" /\ answer[w] = 0
    BY DEF Init
  <2>2. app = config.site
    BY DEF Init
  <2>3. QED
    BY <2>1, <2>2 DEF SoloInv, AcceptedIsApplied, RefusedIsHarmless
<1>2. QED
  BY <1>1, SoloStep, AdminTypeCorrect, PTL DEF Spec

\* An accepted change is in force, in the file and in the App, whatever came
\* before it: crashes, restarts, failed writes, other requests (put_config and
\* change_password of admin.rs).
THEOREM AcceptedApplied == Spec => []AcceptedIsApplied
<1>1. SoloInv => AcceptedIsApplied
  BY DEF SoloInv
<1>2. QED
  BY <1>1, SoloInvariant, PTL

\* A refused change, or one whose write failed, leaves what runs as it was
\* (put_config and change_password of admin.rs).
THEOREM RefusedHarmless == Spec => []RefusedIsHarmless
<1>1. SoloInv => RefusedIsHarmless
  BY DEF SoloInv
<1>2. QED
  BY <1>1, SoloInvariant, PTL
=============================================================================
