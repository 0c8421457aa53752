---------------------------- MODULE NatTcpProofs ----------------------------
(***************************************************************************)
(* What natcheck's TCP results rest on, for every delay, every time limit, *)
(* every number of tries and every failing server.                         *)
(***************************************************************************)
EXTENDS NatTcp, TLAPS

-----------------------------------------------------------------------------
(* The segments under way after one has been received or some were sent.   *)

FlyOK(f) == DOMAIN f \subseteq Seg /\ \A s \in DOMAIN f : f[s] \in 0..Delay

LEMMA ReceiveFly ==
  ASSUME NEW s, NEW S \in SUBSET Seg, FlyOK(fly), Receive(s, S)
  PROVE  /\ s \in DOMAIN fly /\ FlyOK(fly')
         /\ DOMAIN fly' = (DOMAIN fly \ {s}) \cup S
<1>1. Taken(fly, s) = [x \in DOMAIN fly \ {s} |-> fly[x]]
  BY DEF Taken, Restrict
<1>2. fly' = [x \in (DOMAIN fly \ {s}) \cup S |->
               IF x \in DOMAIN fly \ {s} THEN fly[x] ELSE 0]
  BY <1>1 DEF Receive, Sent
<1>3. 0 \in 0..Delay  BY NetAssumption
<1>4. QED  BY <1>2, <1>3 DEF FlyOK, Receive, UnderWay

LEMMA SendFly ==
  ASSUME NEW S \in SUBSET Seg, FlyOK(fly), Send(S)
  PROVE  FlyOK(fly') /\ DOMAIN fly' = DOMAIN fly \cup S
<1>1. fly' = [x \in DOMAIN fly \cup S |-> IF x \in DOMAIN fly THEN fly[x] ELSE 0]
  BY DEF Send, Sent
<1>2. 0 \in 0..Delay  BY NetAssumption
<1>3. QED  BY <1>1, <1>2 DEF FlyOK

LEMMA OlderFly ==
  ASSUME FlyOK(fly), Older
  PROVE  FlyOK(fly') /\ DOMAIN fly' = DOMAIN fly
<1>1. \A s \in DOMAIN fly : fly[s] + 1 \in 0..Delay
  BY NetAssumption DEF FlyOK, Older
<1>2. QED  BY <1>1 DEF FlyOK, Older

LEMMA InitFly == NetInit => FlyOK(fly) /\ DOMAIN fly = {"syn1", "syn2"}
<1>1. 0 \in 0..Delay  BY NetAssumption
<1>2. QED  BY <1>1 DEF NetInit, FlyOK, Seg

-----------------------------------------------------------------------------
(* Types.                                                                  *)

LEMMA NetInitType == NetInit => NetTypeOK
<1>1. SUFFICES ASSUME NetInit PROVE NetTypeOK  OBVIOUS
<1>2. FlyOK(fly)  BY <1>1, InitFly
<1>3. nat \in NatKinds  BY <1>1 DEF NetInit
<1>4. conn \in [Sock -> Conn \cup {"queued"}]  BY <1>1 DEF NetInit, Conn
<1>5. QED  BY <1>1, <1>2, <1>3, <1>4 DEF NetInit, NetTypeOK, FlyOK, Conn

LEMMA Socks ==
  /\ {"tcp1", "tcp2", "tcp3", "tcp4", "incb", "inloop"} = Sock
  /\ CheckedSocks \subseteq Sock /\ In \subseteq Sock
BY DEF Sock, Out, In, CheckedSocks

LEMMA NetStepType == NetTypeOK /\ NetStep => NetTypeOK'
<1>1. SUFFICES ASSUME NetTypeOK, NetStep PROVE NetTypeOK'  OBVIOUS
<1>2. FlyOK(fly)  BY <1>1 DEF NetTypeOK, FlyOK
<1>3. ASSUME NEW s \in Seg, NEW S \in SUBSET Seg, Receive(s, S) PROVE FlyOK(fly')
  BY <1>2, <1>3, ReceiveFly
<1>4. ASSUME FlyOK(fly'), UNCHANGED nat,
             conn' \in [Sock -> Conn \cup {"queued"}],
             inq' \in [Sock -> {"none", "reply", "eof", "loop"}],
             dst' \in Conn
      PROVE  NetTypeOK'
  BY <1>1, <1>4 DEF NetTypeOK, FlyOK
<1>5. ASSUME NEW s, NEW t \in Conn \cup {"queued"}, FlyOK(fly'), Establish(s, t)
      PROVE  NetTypeOK'
  BY <1>1, <1>4, <1>5 DEF Establish, NetTypeOK
<1>6. ASSUME NEW seg \in Seg, NEW s, Handshake(seg, s)
      PROVE  NetTypeOK'
  <2>1. FlyOK(fly')  BY <1>3, <1>6 DEF Handshake
  <2>2. QED  BY <2>1, <1>5, <1>6 DEF Handshake, Conn
<1>7. ASSUME NEW seg \in Seg, NEW t \in {"up", "refused"}, CallAnswered(seg, t)
      PROVE  NetTypeOK'
  <2>1. FlyOK(fly')  BY <1>3, <1>7 DEF CallAnswered
  <2>2. dst' \in Conn  BY <1>1, <1>7 DEF CallAnswered, NetTypeOK, Conn
  <2>3. QED  BY <2>1, <2>2, <1>1, <1>4, <1>7 DEF CallAnswered, NetTypeOK
<1>8. ASSUME NEW seg \in Seg, NEW t \in {"up", "refused"}, Opened(seg, t)
      PROVE  NetTypeOK'
  <2>1. FlyOK(fly')  BY <1>3, <1>8 DEF Opened
  <2>2. QED  BY <2>1, <1>5, <1>8 DEF Opened, Conn
<1>9. ASSUME NEW seg \in Seg, NEW s \in Sock, NEW w \in {"reply", "eof", "loop"},
             Deliver(seg, s, w)
      PROVE  NetTypeOK'
  <2>1. FlyOK(fly')  BY <1>3, <1>9 DEF Deliver
  <2>2. /\ conn' \in [Sock -> Conn \cup {"queued"}]
        /\ inq' \in [Sock -> {"none", "reply", "eof", "loop"}]
    BY <1>1, <1>9 DEF Deliver, NetTypeOK, Conn
  <2>3. QED  BY <2>1, <2>2, <1>1, <1>4, <1>9 DEF Deliver, NetTypeOK
<1>10. CASE CallArrives
  <2>1. CASE Admits /\ Receive("call", {"callack"})
    <3>1. FlyOK(fly')  BY <2>1, <1>3 DEF Seg
    <3>2. Establish("tcp3", "up") \/ Establish("incb", "queued")
      BY <1>10, <2>1 DEF CallArrives
    <3>3. QED  BY <3>1, <3>2, <1>5 DEF Conn
  <2>2. CASE ~Admits
    <3>1. Receive("call", IF nat.filter = "reject" THEN {"callrst"} ELSE {})
      BY <1>10, <2>2 DEF CallArrives
    <3>2. FlyOK(fly')  BY <3>1, <1>3 DEF Seg
    <3>3. QED  BY <3>2, <1>1, <1>4, <1>10, <2>2 DEF CallArrives, NetTypeOK
  <2>3. QED  BY <1>10, <2>1, <2>2 DEF CallArrives
<1>11. CASE SimultaneousOpen
  <2>1. FlyOK(fly')  BY <1>3, <1>11 DEF SimultaneousOpen, Seg
  <2>2. dst' \in Conn  BY <1>1, <1>11 DEF SimultaneousOpen, NetTypeOK, Conn
  <2>3. QED  BY <2>1, <2>2, <1>1, <1>4, <1>11 DEF SimultaneousOpen, NetTypeOK
<1>12. CASE OpenedTwice
  <2>1. FlyOK(fly')  BY <1>3, <1>12 DEF OpenedTwice, Seg
  <2>2. QED  BY <2>1, <1>1, <1>4, <1>12 DEF OpenedTwice, NetTypeOK
<1>13. CASE Hairpin
  <2>1. FlyOK(fly')  BY <1>3, <1>13 DEF Hairpin, Seg
  <2>2. nat.hairpin \in {"yes", "drop", "reject"}
    <3>1. nat \in Nats  BY <1>1, NetAssumption DEF NetTypeOK
    <3>2. QED  BY <3>1, Zenon DEF Nats
  <2>3. conn' \in [Sock -> Conn \cup {"queued"}]
    <3>1. conn \in [Sock -> Conn \cup {"queued"}]  BY <1>1 DEF NetTypeOK
    <3>2. CASE nat.hairpin = "yes"  BY <3>1, <3>2, <1>13 DEF Hairpin, Conn
    <3>3. CASE nat.hairpin = "reject"  BY <3>1, <3>3, <1>13 DEF Hairpin, Conn
    <3>4. CASE nat.hairpin = "drop"  BY <3>1, <3>4, <1>13 DEF Hairpin
    <3>5. QED  BY <2>2, <3>2, <3>3, <3>4
  <2>4. QED  BY <2>1, <2>3, <1>1, <1>4, <1>13 DEF Hairpin, NetTypeOK
<1>14. {"syn1", "syn2", "callack", "callrst", "ack3", "rst3", "rep1", "eof1",
        "rep2", "eof2", "rep3", "loop"} \subseteq Seg
  BY DEF Seg
<1>15. {"tcp1", "tcp2", "inloop", Callee} \subseteq Sock  BY Socks DEF Callee
<1>16. QED
  BY <1>1, <1>6, <1>7, <1>8, <1>9, <1>10, <1>11, <1>12, <1>13, <1>14, <1>15
  DEF NetStep

LEMMA ServerStepType ==
  NetTypeOK /\ ServerTypeOK /\ ServerStep => NetTypeOK' /\ ServerTypeOK'
<1>1. SUFFICES ASSUME NetTypeOK, ServerTypeOK, ServerStep
               PROVE NetTypeOK' /\ ServerTypeOK'
  OBVIOUS
<1>2. FlyOK(fly)  BY <1>1 DEF NetTypeOK, FlyOK
<1>3. ASSUME NEW s \in Seg, NEW S \in SUBSET Seg, Receive(s, S) PROVE FlyOK(fly')
  BY <1>2, <1>3, ReceiveFly
<1>4. ASSUME NEW S \in SUBSET Seg, Send(S) PROVE FlyOK(fly')
  BY <1>2, <1>4, SendFly
<1>5. ASSUME FlyOK(fly'), UNCHANGED <<nat, conn, inq, dst>> PROVE NetTypeOK'
  BY <1>1, <1>5 DEF NetTypeOK, FlyOK
<1>6. Timeout \in 0..Timeout /\ Wait \in 0..Wait  BY ServerAssumption
<1>7. CASE ServeTcp1
  <2>1. FlyOK(fly')  BY <1>3, <1>7 DEF ServeTcp1, Seg
  <2>2. QED  BY <2>1, <1>1, <1>5, <1>7 DEF ServeTcp1, ServerTypeOK, serverVars
<1>8. CASE ServeTcp2
  <2>1. FlyOK(fly')  BY <1>3, <1>8 DEF ServeTcp2, Seg
  <2>2. QED  BY <2>1, <1>1, <1>5, <1>6, <1>8 DEF ServeTcp2, ServerTypeOK, Kept2
<1>9. CASE GoAhead
  <2>1. FlyOK(fly')  BY <1>3, <1>9 DEF GoAhead, Seg
  <2>2. QED  BY <2>1, <1>1, <1>5, <1>9 DEF GoAhead, ServerTypeOK, Kept2
<1>10. CASE ReadTimesOut
  <2>1. FlyOK(fly')  BY <1>4, <1>10 DEF ReadTimesOut, Seg
  <2>2. QED  BY <2>1, <1>1, <1>5, <1>10 DEF ReadTimesOut, ServerTypeOK, Kept2
<1>11. CASE BounceTcp
  <2>1. FlyOK(fly')  BY <1>3, <1>11 DEF BounceTcp, Seg
  <2>2. dst' \in Conn  BY <1>1, <1>11 DEF BounceTcp, NetTypeOK, Conn
  <2>3. NetTypeOK'  BY <2>1, <2>2, <1>1, <1>11 DEF BounceTcp, NetTypeOK, FlyOK, Kept3
  <2>4. QED  BY <2>3, <1>1, <1>6, <1>11 DEF BounceTcp, ServerTypeOK, Kept3
<1>12. CASE Premature
  <2>1. FlyOK(fly')  BY <1>4, <1>12 DEF Premature, Seg
  <2>2. QED  BY <2>1, <1>1, <1>5, <1>6, <1>12 DEF Premature, ServerTypeOK, Kept3
<1>13. CASE Signal
  <2>1. FlyOK(fly')  BY <1>4, <1>13 DEF Signal, Seg
  <2>2. QED  BY <2>1, <1>1, <1>5, <1>13 DEF Signal, ServerTypeOK, Kept3
<1>14. CASE Uncork
  <2>1. FlyOK(fly')  BY <1>4, <1>14 DEF Uncork, Seg
  <2>2. QED  BY <2>1, <1>1, <1>5, <1>14 DEF Uncork, ServerTypeOK, Kept3
<1>15. CASE Awaited
  <2>1. FlyOK(fly')  BY <1>2, <1>4, <1>15 DEF Awaited, Seg
  <2>2. QED  BY <2>1, <1>1, <1>5, <1>15 DEF Awaited, ServerTypeOK, Kept3
<1>16. QED  BY <1>1, <1>7, <1>8, <1>9, <1>10, <1>11, <1>12, <1>13, <1>14, <1>15
            DEF ServerStep

LEMMA CallsRange ==
  Range(Calls) = {"listen", "tcp1", "tcp2", "tcp3", "incb", "soon", "loopback",
                  "inloop", "round"}
<1>1. DOMAIN Calls = 1..9  BY DEF Calls
<1>2. 1..9 = {1, 2, 3, 4, 5, 6, 7, 8, 9}  OBVIOUS
<1>3. QED  BY <1>1, <1>2 DEF Calls, Range

LEMMA PubType == \A n \in {1, 2} : Pub(n) \in {1, 2}
BY DEF Pub

LEMMA ClientStepType ==
  NetTypeOK /\ ServerTypeOK /\ ClientTypeOK /\ ClientStep
  => NetTypeOK' /\ ServerTypeOK' /\ ClientTypeOK'
<1>1. SUFFICES ASSUME NetTypeOK, ServerTypeOK, ClientTypeOK, ClientStep
               PROVE NetTypeOK' /\ ServerTypeOK' /\ ClientTypeOK'
  OBVIOUS
<1>2. FlyOK(fly)  BY <1>1 DEF NetTypeOK, FlyOK
<1>3. ASSUME NEW S \in SUBSET Seg, Send(S) PROVE FlyOK(fly')
  BY <1>2, <1>3, SendFly
<1> DEFINE PC == {"select", "over"} \cup Range(Calls)
<1>4. ASSUME UNCHANGED <<nat, inq, dst, serverVars>>, FlyOK(fly'),
             conn' \in [Sock -> Conn \cup {"queued"}]
      PROVE  NetTypeOK' /\ ServerTypeOK'
  BY <1>1, <1>4 DEF NetTypeOK, ServerTypeOK, FlyOK, serverVars
<1>5. ASSUME NEW c \in PC, Goto(c) \/ Die,
             sock' \in [Sock -> {"closed", "idle", "wfds", "rfds"}],
             my' \in [1..3 -> {None, 1, 2}],
             t3toosoon' \in BOOLEAN, tcploop' \in BOOLEAN
      PROVE  ClientTypeOK'
  BY <1>1, <1>5, Zenon DEF ClientTypeOK, Goto, Die
<1>6. /\ {"select", "over", "listen", "tcp1", "tcp2", "tcp3", "incb", "soon", "loopback",
          "inloop", "round"} \subseteq PC
      /\ \A s \in CheckedSocks : NextCall(s) \in PC
  BY CallsRange DEF CheckedSocks, NextCall
<1> HIDE DEF PC
<1>7. /\ conn \in [Sock -> Conn \cup {"queued"}]
      /\ sock \in [Sock -> {"closed", "idle", "wfds", "rfds"}]
      /\ my \in [1..3 -> {None, 1, 2}]
      /\ t3toosoon \in BOOLEAN /\ tcploop \in BOOLEAN
      /\ NTRIES \in Nat \ {0} /\ tries \in 1..NTRIES
  BY <1>1, TriesAssumption DEF NetTypeOK, ClientTypeOK
<1>8. CASE SelectReturns
  BY <1>2, <1>4, <1>5, <1>6, <1>7, <1>8 DEF SelectReturns, Kernel
<1>9. CASE ListenTcp
  <2>1. /\ conn' \in [Sock -> Conn \cup {"queued"}]
        /\ sock' \in [Sock -> {"closed", "idle", "wfds", "rfds"}]
    BY <1>7, <1>9 DEF ListenTcp, Conn
  <2>2. QED  BY <2>1, <1>2, <1>4, <1>5, <1>6, <1>7, <1>9 DEF ListenTcp, Kernel
<1>10. ASSUME NEW s \in CheckedSocks, CheckTcp(s)
       PROVE  NetTypeOK' /\ ServerTypeOK' /\ ClientTypeOK'
  <2>1. CASE NothingToCheck(s)
    BY <2>1, <1>2, <1>4, <1>5, <1>6, <1>7 DEF NothingToCheck, Kernel
  <2>2. CASE ConnectRetried(s)
    <3>1. FlyOK(fly')
      <4>1. CASE s = "tcp1"  BY <4>1, <2>2, <1>2, <1>3 DEF ConnectRetried, Seg
      <4>2. CASE s = "tcp2"  BY <4>2, <2>2, <1>2, <1>3 DEF ConnectRetried, Seg
      <4>3. CASE s = "tcp3"  BY <4>3, <2>2, <1>2, <1>3 DEF ConnectRetried, Seg
      <4>4. CASE s = "incb"  BY <4>4, <2>2, <1>2, <1>3 DEF ConnectRetried, Seg
      <4>5. QED  BY <4>1, <4>2, <4>3, <4>4, <1>10 DEF CheckedSocks
    <3>2. sock' \in [Sock -> {"closed", "idle", "wfds", "rfds"}]
      BY <2>2, <1>7 DEF ConnectRetried
    <3>3. QED
      BY <3>1, <3>2, <2>2, <1>4, <1>5, <1>6, <1>7 DEF ConnectRetried, Kernel
  <2>3. CASE ReplyReceived(s)
    <3>1. Servn(s) \in 1..3 /\ Reported(s) \in {1, 2}
      BY PubType, <1>10 DEF CheckedSocks, Servn, Reported
    <3>2. my' \in [1..3 -> {None, 1, 2}]  BY <3>1, <2>3, <1>7 DEF ReplyReceived
    <3>3. /\ FlyOK(fly')
          /\ conn' \in [Sock -> Conn \cup {"queued"}]
          /\ sock' \in [Sock -> {"closed", "idle", "wfds", "rfds"}]
      <4>1. ConnectOut(s)  BY <2>3 DEF ReplyReceived
      <4>2. FlyOK(fly')  BY <4>1, <1>2, <1>3 DEF ConnectOut, Seg
      <4>3. conn' \in [Sock -> Conn \cup {"queued"}]
        BY <4>1, <1>7 DEF ConnectOut, Conn
      <4>4. sock' \in [Sock -> {"closed", "idle", "wfds", "rfds"}]
        BY <4>1, <1>7 DEF ConnectOut
      <4>5. QED  BY <4>2, <4>3, <4>4
    <3>4. QED
      BY <3>2, <3>3, <2>3, <1>4, <1>5, <1>6, <1>7 DEF ReplyReceived, Kernel
  <2>4. CASE RuntReceived(s)
    <3>1. sock' \in [Sock -> {"closed", "idle", "wfds", "rfds"}]
      BY <2>4, <1>7 DEF RuntReceived
    <3>2. QED
      BY <3>1, <2>4, <1>2, <1>4, <1>5, <1>6, <1>7 DEF RuntReceived, Kernel
  <2>5. QED  BY <2>1, <2>2, <2>3, <2>4, <1>10 DEF CheckTcp
<1>11. CASE T3TooSoon
  <2>1. t3toosoon' \in BOOLEAN  BY <1>11 DEF T3TooSoon
  <2>2. QED  BY <2>1, <1>2, <1>4, <1>5, <1>6, <1>7, <1>11 DEF T3TooSoon, Kernel
<1>12. CASE LoopbackOut
  <2>1. FlyOK(fly')  BY <1>2, <1>3, <1>12 DEF LoopbackOut, Seg
  <2>2. sock' \in [Sock -> {"closed", "idle", "wfds", "rfds"}]
    BY <1>7, <1>12 DEF LoopbackOut
  <2>3. QED  BY <2>1, <2>2, <1>4, <1>5, <1>6, <1>7, <1>12 DEF LoopbackOut, Kernel
<1>13. CASE LoopbackIn
  <2>1. /\ sock' \in [Sock -> {"closed", "idle", "wfds", "rfds"}]
        /\ tcploop' \in BOOLEAN
    BY <1>7, <1>13 DEF LoopbackIn
  <2>2. QED  BY <2>1, <1>2, <1>4, <1>5, <1>6, <1>7, <1>13 DEF LoopbackIn, Kernel
<1>14. CASE Round
  <2>1. NetTypeOK' /\ ServerTypeOK'  BY <1>2, <1>4, <1>7, <1>14 DEF Round, Kernel
  <2>2. UNCHANGED <<sock, my, t3toosoon, tcploop>>  BY <1>14 DEF Round
  <2>3. CASE Goto("select")  BY <2>1, <2>2, <2>3, <1>5, <1>6, <1>7
  <2>4. CASE ~Goto("select")
    <3>1. timeout \in BOOLEAN /\ outcome \in {"running", "died", "verdict"}
      BY <1>1 DEF ClientTypeOK
    <3>2. /\ pc' \in {"select", "over"} /\ tries' \in 1..NTRIES
          /\ timeout' \in BOOLEAN /\ outcome' \in {"running", "died", "verdict"}
      <4>1. CASE /\ tries < NTRIES /\ tries' = tries + 1 /\ pc' = "select"
                 /\ timeout' = FALSE /\ UNCHANGED outcome
        <5>1. tries' \in 1..NTRIES
          <6>1. tries < NTRIES /\ tries' = tries + 1  BY <4>1
          <6>2. QED  BY <6>1, <1>7
        <5>2. QED  BY <5>1, <4>1, <3>1, Zenon
      <4>2. CASE /\ pc' = "over" /\ UNCHANGED <<tries, timeout>>
                 /\ outcome' = IF my[1] = None \/ my[2] = None THEN "died" ELSE "verdict"
        BY <4>2, <3>1, <1>7
      <4>3. QED  BY <4>1, <4>2, <2>4, <1>14, Zenon DEF Round
    <3>3. QED  BY <3>2, <2>1, <2>2, <1>7, Zenon DEF ClientTypeOK
  <2>5. QED  BY <2>3, <2>4
<1>15. QED  BY <1>1, <1>8, <1>9, <1>10, <1>11, <1>12, <1>13, <1>14 DEF ClientStep

LEMMA TickType == TypeOK /\ Tick => TypeOK'
<1>1. SUFFICES ASSUME TypeOK, Tick PROVE TypeOK'  OBVIOUS
<1>2. FlyOK(fly)  BY <1>1 DEF TypeOK, NetTypeOK, FlyOK
<1>3. NetTypeOK'
  <2>1. Older  BY <1>1 DEF Tick
  <2>2. FlyOK(fly')  BY <2>1, <1>2, OlderFly
  <2>3. QED  BY <2>1, <2>2, <1>1 DEF Older, TypeOK, NetTypeOK, FlyOK
<1>4. ServerTypeOK'
  <2>1. ServerTypeOK /\ TimersRun  BY <1>1 DEF Tick, TypeOK
  <2>2. Minus1(timer2) \in 0..Timeout /\ Minus1(timer3) \in 0..Wait
    BY <2>1, ServerAssumption DEF ServerTypeOK, Minus1
  <2>3. QED  BY <2>1, <2>2 DEF ServerTypeOK, TimersRun
<1>5. ClientTypeOK' /\ extra' \in 0..MaxExtra
  <2>1. UNCHANGED <<tries, sock, my, t3toosoon, tcploop, outcome>>  BY <1>1 DEF Tick
  <2>2. pc' \in {"select", "over"} \cup Range(Calls) /\ timeout' \in BOOLEAN
    <3>1. ClientTypeOK  BY <1>1 DEF TypeOK
    <3>2. \/ UNCHANGED <<pc, timeout>>
          \/ pc' = "listen" /\ timeout' = TRUE
          \/ pc' = "listen" /\ UNCHANGED timeout
      BY <1>1, Zenon DEF Tick
    <3>3. "listen" \in Range(Calls)  BY CallsRange
    <3>4. QED  BY <3>1, <3>2, <3>3, Zenon DEF ClientTypeOK
  <2>3. extra' \in 0..MaxExtra
    <3>1. extra \in 0..MaxExtra  BY <1>1 DEF TypeOK
    <3>2. UNCHANGED extra \/ (extra < MaxExtra /\ extra' = extra + 1)
      BY <1>1, Zenon DEF Tick
    <3>3. QED  BY <3>1, <3>2, ExtraAssumption
  <2>4. ClientTypeOK  BY <1>1 DEF TypeOK
  <2>5. QED  BY <2>1, <2>2, <2>3, <2>4, Zenon DEF ClientTypeOK
<1>6. QED  BY <1>3, <1>4, <1>5 DEF TypeOK

LEMMA StutterType == TypeOK /\ UNCHANGED vars => TypeOK'
<1>1. SUFFICES ASSUME TypeOK, UNCHANGED vars PROVE TypeOK'  OBVIOUS
<1>2. NetTypeOK'  BY <1>1 DEF TypeOK, NetTypeOK, vars, netVars
<1>3. ServerTypeOK'  BY <1>1 DEF TypeOK, ServerTypeOK, vars, serverVars
<1>4. ClientTypeOK'  BY <1>1, Zenon DEF TypeOK, ClientTypeOK, vars, clientVars
<1>5. QED  BY <1>1, <1>2, <1>3, <1>4 DEF TypeOK, vars

LEMMA InitType == Init => TypeOK
<1>1. SUFFICES ASSUME Init PROVE TypeOK  OBVIOUS
<1>2. NetTypeOK  BY <1>1, NetInitType DEF Init
<1>3. ServerTypeOK  BY <1>1, ServerAssumption DEF Init, ServerInit, ServerTypeOK
<1>4. ClientTypeOK
  <2>1. ClientInit  BY <1>1 DEF Init
  <2>2. sock \in [Sock -> {"closed", "idle", "wfds", "rfds"}]
    BY <2>1 DEF ClientInit, Sock, Out, In
  <2>3. tries \in 1..NTRIES  BY <2>1, TriesAssumption DEF ClientInit
  <2>4. my \in [1..3 -> {None, 1, 2}]  BY <2>1 DEF ClientInit
  <2>5. QED  BY <2>1, <2>2, <2>3, <2>4, Zenon DEF ClientInit, ClientTypeOK
<1>5. extra \in 0..MaxExtra  BY <1>1, ExtraAssumption DEF Init
<1>6. QED  BY <1>2, <1>3, <1>4, <1>5 DEF TypeOK

(* The network, the handlers and natcheck never leave their types.         *)
THEOREM TcpTypes == Spec => []TypeOK
<1>1. Init => TypeOK  BY InitType
<1>2. TypeOK /\ [Next]_vars => TypeOK'
  <2>1. SUFFICES ASSUME TypeOK, [Next]_vars PROVE TypeOK'  OBVIOUS
  <2>2. CASE ClientStep /\ UNCHANGED extra
    BY <2>1, <2>2, ClientStepType DEF TypeOK
  <2>3. CASE ServerStep /\ UNCHANGED <<clientVars, extra>>
    <3>1. NetTypeOK' /\ ServerTypeOK'  BY <2>1, <2>3, ServerStepType DEF TypeOK
    <3>2. ClientTypeOK'  BY <2>1, <2>3, Zenon DEF TypeOK, ClientTypeOK, clientVars
    <3>3. QED  BY <3>1, <3>2, <2>1, <2>3 DEF TypeOK
  <2>4. CASE NetStep /\ UNCHANGED <<serverVars, clientVars, extra>>
    <3>1. NetTypeOK'  BY <2>1, <2>4, NetStepType DEF TypeOK
    <3>2. ServerTypeOK'  BY <2>1, <2>4 DEF TypeOK, ServerTypeOK, serverVars
    <3>3. ClientTypeOK'  BY <2>1, <2>4, Zenon DEF TypeOK, ClientTypeOK, clientVars
    <3>4. QED  BY <3>1, <3>2, <3>3, <2>1, <2>4 DEF TypeOK
  <2>5. CASE Tick  BY <2>1, <2>5, TickType
  <2>6. CASE CallGivenUp /\ UNCHANGED extra
    <3>1. NetTypeOK'
      BY <2>1, <2>6 DEF TypeOK, NetTypeOK, CallGivenUp, Conn
    <3>2. ServerTypeOK'
      BY <2>1, <2>6 DEF TypeOK, ServerTypeOK, serverVars, CallGivenUp
    <3>3. ClientTypeOK'
      BY <2>1, <2>6, Zenon DEF TypeOK, ClientTypeOK, clientVars, CallGivenUp
    <3>4. QED  BY <3>1, <3>2, <3>3, <2>1, <2>6 DEF TypeOK
  <2>7. QED  BY <2>1, <2>2, <2>3, <2>4, <2>5, <2>6, StutterType DEF Next
<1>3. QED  BY <1>1, <1>2, PTL DEF Spec

-----------------------------------------------------------------------------
(* A NAT that filters: quiet until natcheck calls server 3.                *)

LEMMA QuietNet ==
  ASSUME TypeOK, QuietInv, NetStep, UNCHANGED <<serverVars, clientVars>>
  PROVE  QuietInv'
<1>1. FlyOK(fly) /\ conn \in [Sock -> Conn \cup {"queued"}]
      /\ inq \in [Sock -> {"none", "reply", "eof", "loop"}]
  BY DEF TypeOK, NetTypeOK, FlyOK
<1>2. UNCHANGED <<sock, my, t3toosoon>>  BY DEF clientVars
<1>3. UNCHANGED nat
  BY DEF NetStep, Handshake, Establish, CallArrives, CallAnswered, SimultaneousOpen,
         Opened, OpenedTwice, Hairpin, Deliver
<1>4. SUFFICES ASSUME nat.filter # "open", my[2] = None, Quiet PROVE Quiet'
  BY <1>2, <1>3 DEF QuietInv
<1>5. ASSUME NEW s, NEW S \in SUBSET Seg, Receive(s, S),
             {"syn3", "callack", "ack3", "rep3"} \cap S = {}
      PROVE  {"syn3", "callack", "ack3", "rep3"} \cap DOMAIN fly' = {}
  <2>1. DOMAIN fly' = (DOMAIN fly \ {s}) \cup S  BY <1>1, <1>5, ReceiveFly
  <2>2. QED  BY <2>1, <1>4, <1>5 DEF Quiet
<1>6. \A s \in {"syn3", "callack", "ack3", "rep3"} : \A S : ~Receive(s, S)
  BY <1>4 DEF Quiet, Receive, UnderWay
<1>7. ASSUME NEW seg \in Seg, NEW s \in {"tcp1", "tcp2"}, Handshake(seg, s) PROVE Quiet'
  <2>1. {"syn3", "callack", "ack3", "rep3"} \cap DOMAIN fly' = {}
    BY <1>5, <1>7 DEF Handshake
  <2>2. QED  BY <2>1, <1>1, <1>2, <1>4, <1>7 DEF Quiet, Handshake, Establish
<1>8. CASE CallArrives
  <2>1. ~Admits  BY <1>4 DEF Admits, Quiet
  <2>2. Receive("call", IF nat.filter = "reject" THEN {"callrst"} ELSE {})
    BY <2>1, <1>8 DEF CallArrives
  <2>3. {"syn3", "callack", "ack3", "rep3"} \cap DOMAIN fly' = {}
    BY <2>2, <1>5 DEF Seg
  <2>4. QED  BY <2>1, <2>3, <1>2, <1>4, <1>8 DEF Quiet, CallArrives
<1>9. CASE CallAnswered("callrst", "refused")
  <2>1. {"syn3", "callack", "ack3", "rep3"} \cap DOMAIN fly' = {}
    BY <1>5, <1>9 DEF CallAnswered
  <2>2. QED  BY <2>1, <1>2, <1>4, <1>9 DEF Quiet, CallAnswered
<1>10. ~CallAnswered("callack", "up") /\ ~SimultaneousOpen /\ ~OpenedTwice
       /\ ~Opened("ack3", "up") /\ ~Deliver("rep3", Callee, "reply")
  BY <1>6 DEF CallAnswered, SimultaneousOpen, OpenedTwice, Opened, Deliver
<1>11. ~Opened("rst3", "refused")
  BY <1>4 DEF Quiet, Opened
<1>12. CASE Hairpin
  <2>1. {"syn3", "callack", "ack3", "rep3"} \cap DOMAIN fly' = {}
    BY <1>5, <1>12 DEF Hairpin
  <2>2. nat.hairpin \in {"yes", "drop", "reject"}
    <3>1. nat \in Nats  BY NetAssumption DEF TypeOK, NetTypeOK
    <3>2. QED  BY <3>1, Zenon DEF Nats
  <2>3. conn'["tcp3"] = conn["tcp3"] /\ conn'["incb"] = conn["incb"]
    <3>1. CASE nat.hairpin = "yes"  BY <3>1, <1>1, <1>12, Socks DEF Hairpin
    <3>2. CASE nat.hairpin = "reject"  BY <3>2, <1>1, <1>12, Socks DEF Hairpin
    <3>3. CASE nat.hairpin = "drop"  BY <3>3, <1>1, <1>12 DEF Hairpin
    <3>4. QED  BY <2>2, <3>1, <3>2, <3>3
  <2>4. QED  BY <2>1, <2>3, <1>2, <1>4, <1>12 DEF Quiet, Hairpin
<1>13. ASSUME NEW seg \in Seg, NEW s \in {"tcp1", "tcp2", "inloop"}, NEW w,
              Deliver(seg, s, w)
       PROVE  Quiet'
  <2>1. {"syn3", "callack", "ack3", "rep3"} \cap DOMAIN fly' = {}
    BY <1>5, <1>13 DEF Deliver
  <2>2. QED  BY <2>1, <1>1, <1>2, <1>4, <1>13 DEF Quiet, Deliver
<1>14. {"syn1", "syn2", "rep1", "eof1", "rep2", "eof2", "loop"} \subseteq Seg
  BY DEF Seg
<1>15. QED
  BY <1>7, <1>8, <1>9, <1>10, <1>11, <1>12, <1>13, <1>14 DEF NetStep

LEMMA QuietServer ==
  ASSUME TypeOK, QuietInv, ServerStep, UNCHANGED clientVars
  PROVE  QuietInv'
<1>1. FlyOK(fly)  BY DEF TypeOK, NetTypeOK, FlyOK
<1>2. UNCHANGED <<nat, conn, inq, sock, my, t3toosoon>>
  BY DEF clientVars, ServerStep, ServeTcp1, ServeTcp2, GoAhead, ReadTimesOut,
         BounceTcp, Premature, Signal, Uncork, Awaited, Kept2, Kept3
<1>3. SUFFICES ASSUME Quiet PROVE Quiet'
  BY <1>2 DEF QuietInv
<1> DEFINE N == {"syn3", "callack", "ack3", "rep3"}
<1>4. ASSUME NEW s, NEW S \in SUBSET Seg, Receive(s, S), N \cap S = {}
      PROVE  N \cap DOMAIN fly' = {}
  <2>1. DOMAIN fly' = (DOMAIN fly \ {s}) \cup S  BY <1>1, <1>4, ReceiveFly
  <2>2. QED  BY <2>1, <1>3, <1>4 DEF Quiet
<1>5. ASSUME NEW S \in SUBSET Seg, Send(S), N \cap S = {}
      PROVE  N \cap DOMAIN fly' = {}
  <2>1. DOMAIN fly' = DOMAIN fly \cup S  BY <1>1, <1>5, SendFly
  <2>2. QED  BY <2>1, <1>3, <1>5 DEF Quiet
<1>6. dst # "up"  BY <1>3 DEF Quiet
<1>7. N \cap DOMAIN fly' = {}
  <2>1. CASE ServeTcp1  BY <2>1, <1>4 DEF ServeTcp1, Seg
  <2>2. CASE ServeTcp2  BY <2>2, <1>4 DEF ServeTcp2, Seg
  <2>3. CASE GoAhead  BY <2>3, <1>4 DEF GoAhead, Seg
  <2>4. CASE ReadTimesOut  BY <2>4, <1>5 DEF ReadTimesOut, Seg
  <2>5. CASE BounceTcp  BY <2>5, <1>4 DEF BounceTcp, Seg
  <2>6. CASE Premature  BY <2>6, <1>5, <1>6 DEF Premature, Seg
  <2>7. CASE Signal  BY <2>7, <1>5 DEF Signal, Seg
  <2>8. CASE Uncork  BY <2>8, <1>5 DEF Uncork, Seg
  <2>9. CASE Awaited  BY <2>9, <1>3, <1>6 DEF Awaited, Quiet
  <2>10. QED
    BY <2>1, <2>2, <2>3, <2>4, <2>5, <2>6, <2>7, <2>8, <2>9 DEF ServerStep
<1>8. dst' # "up"
  BY <1>6 DEF ServerStep, ServeTcp1, ServeTcp2, GoAhead, ReadTimesOut, BounceTcp,
              Premature, Signal, Uncork, Awaited, Kept2
<1>9. QED  BY <1>2, <1>3, <1>7, <1>8 DEF Quiet

LEMMA QuietClient ==
  ASSUME TypeOK, QuietInv, ClientStep
  PROVE  QuietInv'
<1>1. /\ FlyOK(fly) /\ conn \in [Sock -> Conn \cup {"queued"}]
      /\ sock \in [Sock -> {"closed", "idle", "wfds", "rfds"}]
      /\ my \in [1..3 -> {None, 1, 2}]
  BY DEF TypeOK, NetTypeOK, ClientTypeOK, FlyOK
<1>2. UNCHANGED <<nat, inq, dst>>
  BY DEF ClientStep, SelectReturns, ListenTcp, CheckTcp, NothingToCheck, ConnectRetried,
         ReplyReceived, RuntReceived, T3TooSoon, LoopbackOut, LoopbackIn, Round, Kernel
<1>3. SUFFICES ASSUME nat.filter # "open"
               PROVE  /\ my'[2] = None => Quiet'
                      /\ ~t3toosoon'
  BY <1>2 DEF QuietInv
<1>4. (my[2] = None => Quiet) /\ ~t3toosoon  BY <1>3 DEF QuietInv
<1> DEFINE N == {"syn3", "callack", "ack3", "rep3"}
<1>5. ASSUME Quiet, NEW S \in SUBSET Seg, Send(S), N \cap S = {}
      PROVE  N \cap DOMAIN fly' = {}
  <2>1. DOMAIN fly' = DOMAIN fly \cup S  BY <1>1, <1>5, SendFly
  <2>2. QED  BY <2>1, <1>5 DEF Quiet
<1>6. ASSUME my' = my, t3toosoon' = t3toosoon, UNCHANGED <<fly, conn>>,
             sock'["incb"] = sock["incb"]
      PROVE  (my'[2] = None => Quiet') /\ ~t3toosoon'
  BY <1>2, <1>4, <1>6 DEF Quiet
<1>7. CASE SelectReturns  BY <1>6, <1>7 DEF SelectReturns
<1>8. CASE ListenTcp
  <2>1. my' = my /\ t3toosoon' = t3toosoon /\ fly' = fly  BY <1>8 DEF ListenTcp
  <2>2. ASSUME Quiet
        PROVE  /\ conn'["tcp3"] = "none" /\ conn'["incb"] = "none"
               /\ sock'["incb"] = "closed"
    BY <2>2, <1>1, <1>8, Socks DEF ListenTcp, Quiet
  <2>3. QED  BY <2>1, <2>2, <1>2, <1>4 DEF Quiet
<1>9. ASSUME NEW s \in CheckedSocks, CheckTcp(s)
      PROVE  (my'[2] = None => Quiet') /\ ~t3toosoon'
  <2>1. t3toosoon' = t3toosoon
    BY <1>9 DEF CheckTcp, NothingToCheck, ConnectRetried, ReplyReceived, RuntReceived
  <2>2. CASE NothingToCheck(s)  BY <2>2, <1>6 DEF NothingToCheck
  <2>3. CASE ConnectRetried(s)
    <3>1. my' = my /\ conn' = conn  BY <2>3 DEF ConnectRetried
    <3>2. ASSUME Quiet
          PROVE  N \cap DOMAIN fly' = {} /\ sock'["incb"] = "closed"
      <4>1. sock["incb"] = "closed" /\ s # "incb"
        <5>1. sock[s] = "wfds"  BY <2>3, Zenon DEF ConnectRetried
        <5>2. QED  BY <5>1, <3>2 DEF Quiet
      <4>2. sock'["incb"] = "closed"
        <5>1. sock' = [sock EXCEPT ![s] = "rfds"] \/ sock' = sock
          BY <2>3, Zenon DEF ConnectRetried
        <5>2. CASE sock' = [sock EXCEPT ![s] = "rfds"]
          <6>1. sock \in [Sock -> {"closed", "idle", "wfds", "rfds"}] /\ "incb" \in Sock
            BY <1>1, Socks
          <6>2. QED  BY <5>2, <6>1, <4>1
        <5>3. CASE sock' = sock  BY <5>3, <4>1
        <5>4. QED  BY <5>1, <5>2, <5>3
      <4>3. CASE UNCHANGED fly  BY <4>2, <4>3, <3>2 DEF Quiet
      <4>4. CASE Send({"req1"}) \/ Send({"req2"}) \/ Send({})
        <5>1. /\ {"req1"} \in SUBSET Seg /\ N \cap {"req1"} = {}
              /\ {"req2"} \in SUBSET Seg /\ N \cap {"req2"} = {}
              /\ {} \in SUBSET Seg /\ N \cap {} = {}
          BY DEF Seg
        <5>2. CASE Send({"req1"})  BY <4>2, <5>1, <5>2, <3>2, <1>5
        <5>3. CASE Send({"req2"})  BY <4>2, <5>1, <5>3, <3>2, <1>5
        <5>4. CASE Send({})  BY <4>2, <5>1, <5>4, <3>2, <1>5
        <5>5. QED  BY <4>4, <5>2, <5>3, <5>4
      <4>5. (UNCHANGED fly) \/ Send({"req1"}) \/ Send({"req2"}) \/ Send({})
        <5>1. CASE s = "tcp1"  BY <5>1, <2>3 DEF ConnectRetried
        <5>2. CASE s = "tcp2"  BY <5>2, <2>3 DEF ConnectRetried
        <5>3. CASE s = "tcp3"  BY <5>3, <2>3 DEF ConnectRetried
        <5>4. QED  BY <5>1, <5>2, <5>3, <4>1, <1>9 DEF CheckedSocks
      <4>6. QED  BY <4>2, <4>3, <4>4, <4>5
    <3>3. QED  BY <2>1, <3>1, <3>2, <1>2, <1>4 DEF Quiet
  <2>4. CASE ReplyReceived(s)
    <3>1. CASE my[2] # None
      <4>1. my'[2] # None
        BY <3>1, <2>4, <1>1 DEF ReplyReceived
      <4>2. QED  BY <4>1, <2>1, <1>4
    <3>2. CASE my[2] = None /\ s = "tcp2"
      <4>1. my'[2] = Reported(s)  BY <3>2, <2>4, <1>1 DEF ReplyReceived, Servn
      <4>2. Reported(s) # None  BY <3>2, PubType DEF Reported, None
      <4>3. QED  BY <4>1, <4>2, <2>1, <1>4
    <3>3. CASE my[2] = None /\ s # "tcp2"
      <4>1. Quiet  BY <3>3, <1>4
      <4>2. s = "tcp1"
        BY <4>1, <3>3, <2>4, <1>9 DEF ReplyReceived, Quiet, CheckedSocks
      <4>3. my'[3] = my[3]  BY <4>2, <2>4, <1>1 DEF ReplyReceived, Servn
      <4>4. sock'["incb"] = sock["incb"] /\ UNCHANGED <<conn, fly>>
        BY <4>2, <2>4, <1>1, Socks DEF ReplyReceived, ConnectOut
      <4>5. QED  BY <4>1, <4>3, <4>4, <2>1, <1>2, <1>4 DEF Quiet
    <3>4. QED  BY <3>1, <3>2, <3>3
  <2>5. CASE RuntReceived(s)
    <3>1. my' = my /\ UNCHANGED <<fly, conn>>  BY <2>5 DEF RuntReceived
    <3>2. ASSUME Quiet PROVE sock'["incb"] = "closed"
      BY <3>2, <2>5, <1>1, Socks DEF RuntReceived, Quiet
    <3>3. QED  BY <3>1, <3>2, <2>1, <1>2, <1>4 DEF Quiet
  <2>6. QED  BY <2>2, <2>3, <2>4, <2>5, <1>9 DEF CheckTcp
<1>10. CASE T3TooSoon
  <2>1. my' = my /\ UNCHANGED <<fly, conn, sock>>  BY <1>10 DEF T3TooSoon
  <2>2. ~t3toosoon'  BY <1>4, <1>10 DEF T3TooSoon, Quiet
  <2>3. QED  BY <2>1, <2>2, <1>2, <1>4 DEF Quiet
<1>11. CASE LoopbackOut
  <2>1. my' = my /\ t3toosoon' = t3toosoon /\ conn' = conn  BY <1>11 DEF LoopbackOut
  <2>2. sock'["incb"] = sock["incb"]  BY <1>1, <1>11, Socks DEF LoopbackOut
  <2>3. ASSUME Quiet PROVE N \cap DOMAIN fly' = {}
    <3>1. CASE UNCHANGED fly  BY <3>1, <2>3 DEF Quiet
    <3>2. CASE Send({"loop"})  BY <3>2, <2>3, <1>5 DEF Seg
    <3>3. QED  BY <3>1, <3>2, <1>11 DEF LoopbackOut
  <2>4. QED  BY <2>1, <2>2, <2>3, <1>2, <1>4 DEF Quiet
<1>12. CASE LoopbackIn
  <2>1. sock'["incb"] = sock["incb"]  BY <1>1, <1>12, Socks DEF LoopbackIn
  <2>2. QED  BY <2>1, <1>6, <1>12 DEF LoopbackIn
<1>13. CASE Round  BY <1>6, <1>13 DEF Round
<1>14. QED
  BY <1>7, <1>8, <1>9, <1>10, <1>11, <1>12, <1>13 DEF ClientStep

(* natcheck never says of a NAT that filters unsolicited connections that  *)
(* it does not: for every delay, time limit and failing server.            *)
THEOREM SoonIsSound == Spec => []SoonMeansOpen
<1>1. Init => QuietInv
  <2>1. SUFFICES ASSUME Init PROVE QuietInv  OBVIOUS
  <2>2. {"syn3", "callack", "ack3", "rep3"} \cap DOMAIN fly = {}
    BY <2>1, InitFly DEF Init
  <2>3. /\ conn["tcp3"] = "none" /\ conn["incb"] = "none" /\ dst # "up"
        /\ inq["tcp3"] = "none" /\ inq["incb"] = "none"
    BY <2>1, Socks DEF Init, NetInit
  <2>4. sock["incb"] = "closed" /\ my[3] = None /\ ~t3toosoon
    BY <2>1, Socks DEF Init, ClientInit, In
  <2>5. QED  BY <2>2, <2>3, <2>4 DEF QuietInv, Quiet
<1>2. TypeOK /\ QuietInv /\ [Next]_vars => QuietInv'
  <2>1. SUFFICES ASSUME TypeOK, QuietInv, [Next]_vars PROVE QuietInv'  OBVIOUS
  <2>2. CASE ClientStep /\ UNCHANGED extra  BY <2>1, <2>2, QuietClient
  <2>3. CASE ServerStep /\ UNCHANGED <<clientVars, extra>>  BY <2>1, <2>3, QuietServer
  <2>4. CASE NetStep /\ UNCHANGED <<serverVars, clientVars, extra>>
    BY <2>1, <2>4, QuietNet
  <2>5. CASE Tick
    <3>1. FlyOK(fly) /\ Older  BY <2>1, <2>5 DEF Tick, TypeOK, NetTypeOK, FlyOK
    <3>2. DOMAIN fly' = DOMAIN fly /\ UNCHANGED <<nat, conn, inq, dst>>
      BY <3>1, OlderFly DEF Older
    <3>3. UNCHANGED <<sock, my, t3toosoon>>  BY <2>5 DEF Tick
    <3>4. QED  BY <3>2, <3>3, <2>1 DEF QuietInv, Quiet
  <2>6. CASE CallGivenUp /\ UNCHANGED extra
    BY <2>1, <2>6 DEF CallGivenUp, clientVars, QuietInv, Quiet
  <2>7. CASE UNCHANGED vars
    BY <2>1, <2>7 DEF vars, netVars, clientVars, QuietInv, Quiet
  <2>8. QED  BY <2>1, <2>2, <2>3, <2>4, <2>5, <2>6, <2>7 DEF Next
<1>3. QuietInv => SoonMeansOpen  BY DEF QuietInv, SoonMeansOpen
<1>4. QED  BY <1>1, <1>2, <1>3, TcpTypes, PTL DEF Spec

-----------------------------------------------------------------------------
(* Server 2's answer: held back until server 3's handler has started, and  *)
(* a handler that does not fail starts by calling the client.              *)

LEMMA HeldNet ==
  ASSUME TypeOK, HeldInv, NetStep, UNCHANGED <<serverVars, clientVars>>
  PROVE  HeldInv'
<1>1. FlyOK(fly) /\ inq \in [Sock -> {"none", "reply", "eof", "loop"}]
      /\ conn \in [Sock -> Conn \cup {"queued"}]
  BY DEF TypeOK, NetTypeOK, FlyOK
<1>2. UNCHANGED <<s3, faulty, my>>  BY DEF serverVars, clientVars
<1>3. dst # "none" => dst' # "none"
  BY DEF NetStep, Handshake, Establish, CallArrives, CallAnswered, SimultaneousOpen,
         Opened, OpenedTwice, Hairpin, Deliver
<1>4. SUFFICES ASSUME HeldBack PROVE HeldBack'  BY <1>2, <1>3 DEF HeldInv
<1> DEFINE N == {"fin3", "rep2"}
<1>5. ASSUME NEW s, NEW S \in SUBSET Seg, Receive(s, S), N \cap S = {}
      PROVE  N \cap DOMAIN fly' = {}
  <2>1. DOMAIN fly' = (DOMAIN fly \ {s}) \cup S  BY <1>1, <1>5, ReceiveFly
  <2>2. QED  BY <2>1, <1>4, <1>5 DEF HeldBack
<1>6. ~Deliver("rep2", "tcp2", "reply")
  BY <1>4 DEF HeldBack, Deliver, Receive, UnderWay
<1>7. ASSUME NEW s, NEW S \in SUBSET Seg, Receive(s, S), N \cap S = {},
             inq'["tcp2"] # "reply"
      PROVE  HeldBack'
  BY <1>2, <1>4, <1>5, <1>7 DEF HeldBack
<1>8. inq["tcp2"] # "reply"  BY <1>4 DEF HeldBack
<1>9. ASSUME NEW seg, NEW s, Handshake(seg, s) PROVE HeldBack'
  BY <1>7, <1>8, <1>9 DEF Handshake, Establish
<1>10. CASE CallArrives
  <2>1. PICK S \in {{"callack"}, {"callrst"}, {}} : Receive("call", S)
    BY <1>10 DEF CallArrives
  <2>2. S \in SUBSET Seg /\ N \cap S = {}  BY DEF Seg
  <2>3. inq' = inq  BY <1>10 DEF CallArrives, Establish
  <2>4. QED  BY <2>1, <2>2, <2>3, <1>7, <1>8
<1>11. ASSUME NEW seg, NEW t, CallAnswered(seg, t) PROVE HeldBack'
  BY <1>7, <1>8, <1>11 DEF CallAnswered
<1>12. CASE SimultaneousOpen
  BY <1>7, <1>8, <1>12 DEF SimultaneousOpen, Seg
<1>13. ASSUME NEW seg, NEW t, Opened(seg, t) PROVE HeldBack'
  BY <1>7, <1>8, <1>13 DEF Opened, Establish
<1>14. CASE OpenedTwice  BY <1>7, <1>8, <1>14 DEF OpenedTwice
<1>15. CASE Hairpin  BY <1>7, <1>8, <1>15 DEF Hairpin
<1>16. ASSUME NEW seg, NEW s \in Sock, NEW w, Deliver(seg, s, w),
              s # "tcp2" \/ w # "reply"
       PROVE  HeldBack'
  <2>1. inq'["tcp2"] # "reply"  BY <1>1, <1>8, <1>16, Socks DEF Deliver
  <2>2. QED  BY <2>1, <1>7, <1>16 DEF Deliver
<1>17. {"tcp1", "tcp2", "inloop", Callee} \subseteq Sock /\ Callee # "tcp2"
  BY Socks DEF Callee
<1>18. QED
  BY <1>6, <1>9, <1>10, <1>11, <1>12, <1>13, <1>14, <1>15, <1>16, <1>17 DEF NetStep

LEMMA HeldServer ==
  ASSUME TypeOK, HeldInv, ServerStep, UNCHANGED clientVars
  PROVE  HeldInv'
<1>1. FlyOK(fly)  BY DEF TypeOK, NetTypeOK, FlyOK
<1>2. UNCHANGED <<my, inq, faulty>>
  BY DEF clientVars, ServerStep, ServeTcp1, ServeTcp2, GoAhead, ReadTimesOut,
         BounceTcp, Premature, Signal, Uncork, Awaited, Kept2, Kept3, serverVars
<1>3. ASSUME s3' # "accept", faulty # 3 PROVE dst' # "none"
  <2>1. CASE s3 = "accept"
    BY <2>1, <1>3 DEF ServerStep, ServeTcp1, ServeTcp2, GoAhead, ReadTimesOut,
         BounceTcp, Premature, Signal, Uncork, Awaited, Kept2, serverVars
  <2>2. CASE s3 # "accept"
    <3>1. dst # "none"  BY <2>2, <1>3 DEF HeldInv
    <3>2. QED
      BY <3>1 DEF ServerStep, ServeTcp1, ServeTcp2, GoAhead, ReadTimesOut,
         BounceTcp, Premature, Signal, Uncork, Awaited, Kept2
  <2>3. QED  BY <2>1, <2>2
<1>4. SUFFICES ASSUME s3' = "accept" PROVE HeldBack'  BY <1>2, <1>3 DEF HeldInv
<1>5. s3 = "accept"
  BY <1>4 DEF ServerStep, ServeTcp1, ServeTcp2, GoAhead, ReadTimesOut,
     BounceTcp, Premature, Signal, Uncork, Awaited, Kept2, serverVars
<1>6. HeldBack  BY <1>5 DEF HeldInv
<1> DEFINE N == {"fin3", "rep2"}
<1>7. ASSUME NEW s, NEW S \in SUBSET Seg, Receive(s, S), N \cap S = {}
      PROVE  N \cap DOMAIN fly' = {}
  <2>1. DOMAIN fly' = (DOMAIN fly \ {s}) \cup S  BY <1>1, <1>7, ReceiveFly
  <2>2. QED  BY <2>1, <1>6, <1>7 DEF HeldBack
<1>8. ~GoAhead  BY <1>6 DEF GoAhead, HeldBack, Receive, UnderWay
<1>9. ~BounceTcp /\ ~Premature /\ ~Signal /\ ~Uncork /\ ~Awaited
  BY <1>4, <1>5 DEF BounceTcp, Premature, Signal, Uncork, Awaited
<1>10. N \cap DOMAIN fly' = {}
  <2>1. CASE ServeTcp1  BY <2>1, <1>7 DEF ServeTcp1, Seg
  <2>2. CASE ServeTcp2  BY <2>2, <1>7 DEF ServeTcp2, Seg
  <2>3. CASE ReadTimesOut
    <3>1. DOMAIN fly' = DOMAIN fly \cup {"eof2"}
      BY <2>3, <1>1, SendFly DEF ReadTimesOut, Seg
    <3>2. QED  BY <3>1, <1>6 DEF HeldBack
  <2>4. QED  BY <2>1, <2>2, <2>3, <1>8, <1>9 DEF ServerStep
<1>11. QED  BY <1>2, <1>6, <1>10 DEF HeldBack

LEMMA HeldClient ==
  ASSUME TypeOK, HeldInv, ClientStep
  PROVE  HeldInv'
<1>1. FlyOK(fly) /\ my \in [1..3 -> {None, 1, 2}]
  BY DEF TypeOK, NetTypeOK, ClientTypeOK, FlyOK
<1>2. UNCHANGED <<inq, dst, s3, faulty>>
  BY DEF ClientStep, SelectReturns, ListenTcp, CheckTcp, NothingToCheck, ConnectRetried,
         ReplyReceived, RuntReceived, T3TooSoon, LoopbackOut, LoopbackIn, Round, Kernel,
         serverVars
<1>3. SUFFICES ASSUME HeldBack PROVE HeldBack'  BY <1>2 DEF HeldInv
<1> DEFINE N == {"fin3", "rep2"}
<1>4. ASSUME NEW S \in SUBSET Seg, Send(S), N \cap S = {}
      PROVE  N \cap DOMAIN fly' = {}
  <2>1. DOMAIN fly' = DOMAIN fly \cup S  BY <1>1, <1>4, SendFly
  <2>2. QED  BY <2>1, <1>3, <1>4 DEF HeldBack
<1>5. ASSUME UNCHANGED fly PROVE N \cap DOMAIN fly' = {}
  BY <1>3, <1>5 DEF HeldBack
<1>6. SUFFICES N \cap DOMAIN fly' = {} /\ my'[2] = None  BY <1>2, <1>3 DEF HeldBack
<1>7. my[2] = None /\ inq["tcp2"] # "reply"  BY <1>3 DEF HeldBack
<1>8. \A c : {c} \cap N = {} => (Send({c}) /\ c \in Seg => N \cap DOMAIN fly' = {})
  BY <1>4
<1>9. ASSUME NEW s \in CheckedSocks, CheckTcp(s)
      PROVE  N \cap DOMAIN fly' = {} /\ my'[2] = None
  <2>1. CASE NothingToCheck(s)  BY <2>1, <1>5, <1>7 DEF NothingToCheck
  <2>2. CASE ConnectRetried(s)
    <3>1. my' = my  BY <2>2, Zenon DEF ConnectRetried
    <3>2. (UNCHANGED fly) \/ Send({"req1"}) \/ Send({"req2"}) \/ Send({})
      <4>1. CASE s = "tcp1"  BY <4>1, <2>2 DEF ConnectRetried
      <4>2. CASE s = "tcp2"  BY <4>2, <2>2 DEF ConnectRetried
      <4>3. CASE s = "tcp3"  BY <4>3, <2>2 DEF ConnectRetried
      <4>4. CASE s = "incb"  BY <4>4, <2>2 DEF ConnectRetried
      <4>5. QED  BY <4>1, <4>2, <4>3, <4>4, <1>9 DEF CheckedSocks
    <3>3. Send({}) => N \cap DOMAIN fly' = {}  BY <1>4
    <3>4. (Send({"req1"}) => N \cap DOMAIN fly' = {})
          /\ (Send({"req2"}) => N \cap DOMAIN fly' = {})
      BY <1>8 DEF Seg
    <3>5. QED  BY <3>1, <3>2, <3>3, <3>4, <1>5, <1>7
  <2>3. CASE ReplyReceived(s)
    <3>1. s # "tcp2"  BY <2>3, <1>7 DEF ReplyReceived
    <3>2. UNCHANGED fly  BY <3>1, <2>3 DEF ReplyReceived, ConnectOut
    <3>3. Servn(s) # 2  BY <3>1, <1>9 DEF Servn, CheckedSocks
    <3>4. my'[2] = my[2]  BY <3>3, <2>3, <1>1 DEF ReplyReceived
    <3>5. QED  BY <3>2, <3>4, <1>5, <1>7
  <2>4. CASE RuntReceived(s)  BY <2>4, <1>5, <1>7 DEF RuntReceived
  <2>5. QED  BY <2>1, <2>2, <2>3, <2>4, <1>9 DEF CheckTcp
<1>10. CASE LoopbackOut
  <2>1. my' = my /\ ((UNCHANGED fly) \/ Send({"loop"}))  BY <1>10 DEF LoopbackOut
  <2>2. Send({"loop"}) => N \cap DOMAIN fly' = {}  BY <1>8 DEF Seg
  <2>3. QED  BY <2>1, <2>2, <1>5, <1>7
<1>11. CASE SelectReturns \/ ListenTcp \/ T3TooSoon \/ LoopbackIn \/ Round
  <2>1. UNCHANGED <<fly, my>>
    BY <1>11, Zenon DEF SelectReturns, ListenTcp, T3TooSoon, LoopbackIn, Round
  <2>2. QED  BY <2>1, <1>5, <1>7
<1>12. QED  BY <1>9, <1>10, <1>11 DEF ClientStep

LEMMA HeldHolds == Spec => []HeldInv
<1>1. Init => HeldInv
  <2>1. SUFFICES ASSUME Init PROVE HeldInv  OBVIOUS
  <2>2. {"fin3", "rep2"} \cap DOMAIN fly = {}  BY <2>1, InitFly DEF Init
  <2>3. inq["tcp2"] # "reply"  BY <2>1, Socks DEF Init, NetInit
  <2>4. my[2] = None /\ s3 = "accept"  BY <2>1 DEF Init, ClientInit, ServerInit
  <2>5. QED  BY <2>2, <2>3, <2>4 DEF HeldInv, HeldBack
<1>2. TypeOK /\ HeldInv /\ [Next]_vars => HeldInv'
  <2>1. SUFFICES ASSUME TypeOK, HeldInv, [Next]_vars PROVE HeldInv'  OBVIOUS
  <2>2. CASE ClientStep /\ UNCHANGED extra  BY <2>1, <2>2, HeldClient
  <2>3. CASE ServerStep /\ UNCHANGED <<clientVars, extra>>  BY <2>1, <2>3, HeldServer
  <2>4. CASE NetStep /\ UNCHANGED <<serverVars, clientVars, extra>>
    BY <2>1, <2>4, HeldNet
  <2>5. CASE Tick
    <3>1. FlyOK(fly) /\ Older  BY <2>1, <2>5 DEF Tick, TypeOK, NetTypeOK, FlyOK
    <3>2. DOMAIN fly' = DOMAIN fly /\ UNCHANGED <<inq, dst>>
      BY <3>1, OlderFly DEF Older
    <3>3. UNCHANGED <<my, s3, faulty>>  BY <2>5 DEF Tick, TimersRun
    <3>4. QED  BY <3>2, <3>3, <2>1 DEF HeldInv, HeldBack
  <2>6. CASE CallGivenUp /\ UNCHANGED extra
    BY <2>1, <2>6 DEF CallGivenUp, clientVars, serverVars, HeldInv, HeldBack
  <2>7. CASE UNCHANGED vars
    BY <2>1, <2>7 DEF vars, netVars, serverVars, clientVars, HeldInv, HeldBack
  <2>8. QED  BY <2>1, <2>2, <2>3, <2>4, <2>5, <2>6, <2>7 DEF Next
<1>3. QED  BY <1>1, <1>2, TcpTypes, PTL DEF Spec

(* Unless server 3's handler fails, the client has been called by the time *)
(* it reads server 2's answer: whatever the delays and time limits.        *)
THEOREM AnswersComeAfterCalls == Spec => []AnsweredAfterCall
<1>1. HeldInv => AnsweredAfterCall
  BY DEF HeldInv, HeldBack, AnsweredAfterCall
<1>2. QED  BY <1>1, HeldHolds, PTL

-----------------------------------------------------------------------------
(***************************************************************************)
(* The verdicts of natcheck's TCP test, for every delay, time limit and    *)
(* number of tries that leave the conversation time to end.                *)
(***************************************************************************)

(* Server 3 hears of its call before it gives up waiting for it, server 2  *)
(* waits for server 3 long enough, and natcheck for both.  With the code's *)
(* 5 seconds, 20 seconds and 20 tries: segments take at most a second.     *)
Punctual == /\ Wait > 2 * Delay
            /\ Timeout > 4 * Delay + Wait
            /\ NTRIES > 9 * Delay + Wait

-----------------------------------------------------------------------------
(* The seconds gone, and by when each segment is sent at the latest.       *)
Now == tries - 1 + extra + (IF timeout THEN 1 ELSE 0)

Latest(s) ==
  CASE s \in {"syn1", "syn2"} -> 0
    [] s \in {"req1", "req2"} -> Delay
    [] s \in {"rep1", "bounce"} -> 2 * Delay
    [] s = "call" -> 3 * Delay
    [] s \in {"callack", "callrst"} -> 4 * Delay
    [] s = "fin3" -> 5 * Delay + Wait
    [] s = "rep2" -> 6 * Delay + Wait
    [] s \in {"syn3", "syn4"} -> 7 * Delay + Wait
    [] OTHER -> 8 * Delay + Wait

(* By when a socket is connected, and by when its data is there.           *)
UpBy(s) == CASE s \in {"tcp1", "tcp2"} -> Delay
             [] s = "tcp4" -> 8 * Delay + Wait
             [] OTHER -> 9 * Delay + Wait
DataBy(s) == CASE s = "tcp1" -> 3 * Delay
               [] s = "tcp2" -> 7 * Delay + Wait
               [] OTHER -> 9 * Delay + Wait

SegmentsInTime == \A s \in DOMAIN fly \ {"eof1", "eof2"} : Now <= Latest(s) + fly[s]
SocketsInTime ==
  /\ \A s \in Sock : sock[s] = "wfds" /\ conn[s] \in {"up", "refused"} => Now <= UpBy(s)
  /\ \A s \in Sock : sock[s] = "rfds" /\ inq[s] \in {"reply", "loop"} => Now <= DataBy(s)
  /\ \A s \in In : conn[s] = "queued" => Now <= DataBy(s)
HandlersInTime ==
  /\ s3 = "select" => Now <= 3 * Delay + Wait - timer3
  /\ s3 = "sleep" => Now <= 5 * Delay + Wait - timer3
  /\ s3 = "await" /\ dst # "syn" => Now <= 8 * Delay + Wait
InTime == (pc = "select" => ~timeout) /\ SegmentsInTime /\ SocketsInTime /\ HandlersInTime

-----------------------------------------------------------------------------
(* Server 3's call: how old it or its answer is while server 3 waits, and  *)
(* that it has arrived before server 3 goes on.                            *)
Calling ==
  /\ s3 = "accept" => dst = "none"
  /\ UnderWay("call") => /\ s3 = "select" /\ dst = "syn"
                         /\ ~UnderWay("callack") /\ ~UnderWay("callrst")
                         /\ Wait - timer3 <= fly["call"]
  /\ \A s \in {"callack", "callrst"} :
       UnderWay(s) => /\ s3 = "select" /\ dst = "syn" /\ Wait - timer3 <= Delay + fly[s]
                      /\ nat.filter = IF s = "callack" THEN "open" ELSE "reject"
  /\ s3 = "select" =>
       /\ dst # "none"
       /\ dst = "up" => Wait - timer3 <= 2 * Delay
       /\ dst = "syn" => \/ nat.filter = "drop"
                         \/ UnderWay("call")
                         \/ UnderWay(IF nat.filter = "open" THEN "callack" ELSE "callrst")
  /\ dst = "up" => nat.filter # "reject"
  /\ dst = "syn" => s3 = "select" \/ nat.filter = "drop"

(* Until server 2 answers, natcheck calls nobody else, and server 2 does   *)
(* not answer while server 3 waits for its call or sleeps.                 *)
Unasked ==
  /\ {"syn3", "ack3", "rst3", "syn4", "loop"} \cap DOMAIN fly = {}
  /\ conn["tcp3"] = "none" /\ conn["tcp4"] = "none" /\ conn["inloop"] = "none"
  /\ inq["tcp3"] = "none" /\ inq["inloop"] = "none" /\ ~tcploop
  /\ sock["tcp3"] = "idle" /\ sock["tcp4"] = "idle" /\ sock["inloop"] = "closed"
Asking ==
  /\ my[2] = None => Unasked
  /\ my[2] = None /\ (dst = "up" \/ UnderWay("callack") \/ UnderWay("rep3"))
       => conn["incb"] # "none"
  /\ s3 \in {"accept", "select", "sleep"} /\ faulty # 3 => HeldBack
  /\ faulty = 3 => s3 \in {"accept", "done"}

(* Where the conversation with working servers has come to: server 2's     *)
(* answer and the time server 2 has left, and server 1's answer.           *)
Answering ==
  /\ {"eof1", "eof2"} \cap DOMAIN fly = {} /\ \A s \in Sock : inq[s] # "eof"
  /\ s2 = "accept" => s3 = "accept" /\ ~UnderWay("bounce") /\ ~UnderWay("fin3")
  /\ UnderWay("req2") => s2 = "accept" /\ sock["tcp2"] = "rfds"
  /\ UnderWay("rep2") \/ inq["tcp2"] = "reply" \/ my[2] # None => s2 = "done"
  /\ my[2] # None => sock["tcp2"] = "closed"
  /\ s2 = "wait3" =>
       /\ UnderWay("bounce") => Timeout - timer2 <= fly["bounce"]
       /\ s3 = "select" => Timeout - timer2 <= Delay + Wait - timer3
       /\ s3 = "sleep" => Timeout - timer2 <= 3 * Delay + Wait - timer3
       /\ UnderWay("fin3") => Timeout - timer2 <= 3 * Delay + Wait + fly["fin3"]
  /\ \/ my[2] # None
     \/ /\ s2 = "accept"
        /\ \/ sock["tcp2"] = "wfds" /\ conn["tcp2"] = "syn" /\ UnderWay("syn2")
           \/ sock["tcp2"] = "wfds" /\ conn["tcp2"] = "up"
           \/ sock["tcp2"] = "rfds" /\ UnderWay("req2")
     \/ /\ s2 = "wait3" /\ sock["tcp2"] = "rfds"
        /\ (s3 = "accept" /\ UnderWay("bounce")) \/ s3 \in {"select", "sleep"} \/ UnderWay("fin3")
     \/ /\ sock["tcp2"] = "rfds"
        /\ UnderWay("rep2") \/ inq["tcp2"] = "reply"
Reporting ==
  \/ my[1] # None
  \/ sock["tcp1"] = "wfds" /\ conn["tcp1"] = "syn" /\ UnderWay("syn1")
  \/ sock["tcp1"] = "wfds" /\ conn["tcp1"] = "up"
  \/ sock["tcp1"] = "rfds" /\ (UnderWay("req1") \/ UnderWay("rep1") \/ inq["tcp1"] = "reply")

(* natcheck's connection to itself, and what no connection meets with.     *)
Hairpinning ==
  /\ conn["tcp4"] = "up" \/ conn["inloop"] # "none" => nat.hairpin = "yes"
  /\ conn["tcp4"] = "refused" => nat.hairpin = "reject"
  /\ UnderWay("loop") \/ inq["inloop"] # "none" => nat.hairpin = "yes"
  /\ \A s \in {"tcp1", "tcp2", "incb", "inloop"} : conn[s] # "refused"
  /\ \A s \in {"tcp1", "tcp2", "tcp3", "tcp4"} : conn[s] # "queued"
  /\ my[2] # None /\ nat.hairpin # "drop" =>
       \/ UnderWay("syn4") /\ sock["tcp4"] = "wfds" /\ conn["tcp4"] = "syn"
       \/ nat.hairpin = "reject" /\ sock["tcp4"] = "wfds" /\ conn["tcp4"] = "refused"
       \/ /\ nat.hairpin = "yes"
          /\ \/ sock["tcp4"] = "wfds" /\ conn["tcp4"] = "up"
             \/ UnderWay("loop") \/ inq["inloop"] = "loop" \/ tcploop
          /\ conn["inloop"] = "queued" \/ sock["inloop"] = "rfds" \/ tcploop

-----------------------------------------------------------------------------
(* What becomes of server 3's call and natcheck's, by kind of translator.  *)
(* Shut: they never meet, and natcheck's is refused.                       *)
Shut == nat.filter = "reject" \/ (nat.filter = "drop" /\ nat.symmetric)
Refusing ==
  /\ {"rep3", "ack3", "callack"} \cap DOMAIN fly = {} /\ dst # "up"
  /\ conn["tcp3"] # "up" /\ conn["incb"] = "none" /\ inq["tcp3"] = "none" /\ s3 # "sleep"
  /\ nat.filter = "reject" /\ s3 \in {"await", "done"} => dst = "refused"
  /\ my[2] # None =>
       /\ sock["tcp3"] = "wfds"
       /\ \/ conn["tcp3"] = "syn" /\ (UnderWay("syn3") \/ UnderWay("rst3"))
          \/ conn["tcp3"] = "refused"

(* Meeting: natcheck's arrives while server 3's still waits.               *)
Meeting == nat.filter = "drop" /\ ~nat.symmetric
MeetingHalfway ==
  /\ {"callack", "callrst", "rst3"} \cap DOMAIN fly = {} /\ dst # "refused"
  /\ conn["incb"] = "none" /\ conn["tcp3"] # "refused" /\ s3 # "sleep"
  /\ dst = "up" => my[2] # None
  /\ s3 = "await" => dst # "none"
  /\ s3 = "done" => dst = "up"
  /\ inq["tcp3"] = "reply" => conn["tcp3"] = "up"
  /\ my[2] # None =>
       /\ s3 \in {"await", "done"}
       /\ \/ my[3] # None
          \/ /\ \/ s3 = "await" /\ (UnderWay("syn3") \/ dst = "up")
                \/ UnderWay("rep3") \/ inq["tcp3"] = "reply"
             /\ sock["tcp3"] \in {"wfds", "rfds"}

(* Open: server 3's comes in, and has been seen when server 2 answers.     *)
CalledIn ==
  /\ conn["tcp3"] = "none" /\ sock["tcp3"] = "idle"
  /\ ~UnderWay("callrst") /\ ~UnderWay("syn3")
  /\ dst # "refused" /\ s3 # "await"
  /\ s3 = "sleep" => dst = "up"
  /\ t3toosoon \/ my[3] # None \/ inq["incb"] # "none" => conn["incb"] # "none"
  /\ \/ t3toosoon
     \/ my[2] = None /\ pc = "soon" /\ my[3] # None
     \/ /\ my[2] = None /\ s3 \in {"accept", "select", "sleep"} /\ my[3] = None
        /\ UnderWay("callack") \/ dst = "up" => conn["incb"] = "queued" \/ sock["incb"] = "rfds"
        /\ s3 = "sleep" => \/ UnderWay("rep3") /\ Wait - timer3 <= fly["rep3"]
                           \/ inq["incb"] = "reply" /\ Wait - timer3 <= Delay

(* What the addresses and the flags can have been set to.                  *)
Addresses ==
  /\ my[1] \in {None, 1} /\ my[2] \in {None, Pub(2)}
  /\ tcploop => nat.hairpin = "yes"
  /\ t3toosoon => my[3] # None

-----------------------------------------------------------------------------
(* The segments and their ages after a step.                               *)
LEMMA ReceiveAges ==
  ASSUME NEW s, NEW S, Receive(s, S)
  PROVE  /\ s \in DOMAIN fly
         /\ \A x : x \in DOMAIN fly' <=> (x \in DOMAIN fly /\ x # s) \/ x \in S
         /\ \A x : x \in DOMAIN fly /\ x # s => fly'[x] = fly[x]
         /\ \A x \in S : x \notin DOMAIN fly \/ x = s => fly'[x] = 0
<1>1. Taken(fly, s) = [x \in DOMAIN fly \ {s} |-> fly[x]]
  BY DEF Taken, Restrict
<1>2. fly' = [x \in (DOMAIN fly \ {s}) \cup S |->
               IF x \in DOMAIN fly \ {s} THEN fly[x] ELSE 0]
  BY <1>1 DEF Receive, Sent
<1>3. QED  BY <1>2 DEF Receive, UnderWay

LEMMA SendAges ==
  ASSUME NEW S, Send(S)
  PROVE  /\ \A x : x \in DOMAIN fly' <=> x \in DOMAIN fly \/ x \in S
         /\ \A x \in DOMAIN fly : fly'[x] = fly[x]
         /\ \A x \in S : x \notin DOMAIN fly => fly'[x] = 0
BY DEF Send, Sent

LEMMA OlderAges ==
  ASSUME Older
  PROVE  /\ \A x : x \in DOMAIN fly' <=> x \in DOMAIN fly
         /\ \A x \in DOMAIN fly : fly'[x] = fly[x] + 1 /\ fly[x] < Delay
BY DEF Older

(* What is known of every state, in the form the cases below need it.      *)
Known ==
  /\ Delay \in Nat /\ Wait \in Nat /\ Timeout \in Nat /\ NTRIES \in Nat
  /\ nat.filter \in {"open", "drop", "reject"} /\ nat.symmetric \in BOOLEAN
  /\ nat.hairpin \in {"yes", "drop", "reject"}
  /\ \A s \in DOMAIN fly : fly[s] \in 0..Delay
  /\ Sock = {"tcp1", "tcp2", "tcp3", "tcp4", "incb", "inloop"} /\ In = {"incb", "inloop"}
  /\ conn \in [Sock -> {"none", "syn", "up", "refused", "queued"}]
  /\ inq \in [Sock -> {"none", "reply", "eof", "loop"}]
  /\ dst \in {"none", "syn", "up", "refused"}
  /\ s2 \in {"accept", "wait3", "done"}
  /\ s3 \in {"accept", "select", "sleep", "await", "done"}
  /\ timer2 \in 0..Timeout /\ timer3 \in 0..Wait
  /\ tries \in 1..NTRIES /\ timeout \in BOOLEAN /\ extra \in Nat
  /\ sock \in [Sock -> {"closed", "idle", "wfds", "rfds"}]
  /\ my \in [1..3 -> {0, 1, 2}] /\ None = 0
  /\ t3toosoon \in BOOLEAN /\ tcploop \in BOOLEAN

LEMMA TypesKnown == TypeOK => Known
<1>1. SUFFICES ASSUME TypeOK PROVE Known  OBVIOUS
<1>2. nat \in Nats  BY <1>1, NetAssumption DEF TypeOK, NetTypeOK
<1>3. /\ nat.filter \in {"open", "drop", "reject"} /\ nat.symmetric \in BOOLEAN
      /\ nat.hairpin \in {"yes", "drop", "reject"}
  BY <1>2, Zenon DEF Nats
<1>4. Sock = {"tcp1", "tcp2", "tcp3", "tcp4", "incb", "inloop"} /\ In = {"incb", "inloop"}
  BY DEF Sock, Out, In
<1>5. Conn \cup {"queued"} = {"none", "syn", "up", "refused", "queued"}
  BY DEF Conn
<1>6. extra \in Nat  BY <1>1, ExtraAssumption DEF TypeOK
<1>7. Delay \in Nat /\ Wait \in Nat /\ Timeout \in Nat /\ NTRIES \in Nat
  BY NetAssumption, ServerAssumption, TriesAssumption
<1>8. /\ \A s \in DOMAIN fly : fly[s] \in 0..Delay
      /\ conn \in [Sock -> {"none", "syn", "up", "refused", "queued"}]
      /\ inq \in [Sock -> {"none", "reply", "eof", "loop"}]
      /\ dst \in {"none", "syn", "up", "refused"}
  BY <1>1, <1>5 DEF TypeOK, NetTypeOK, Conn
<1>9. /\ s2 \in {"accept", "wait3", "done"}
      /\ s3 \in {"accept", "select", "sleep", "await", "done"}
      /\ timer2 \in 0..Timeout /\ timer3 \in 0..Wait
  BY <1>1 DEF TypeOK, ServerTypeOK
<1>10. /\ tries \in 1..NTRIES /\ timeout \in BOOLEAN
       /\ sock \in [Sock -> {"closed", "idle", "wfds", "rfds"}]
       /\ my \in [1..3 -> {0, 1, 2}] /\ None = 0
       /\ t3toosoon \in BOOLEAN /\ tcploop \in BOOLEAN
  BY <1>1 DEF TypeOK, ClientTypeOK, None
<1> QED  BY <1>3, <1>4, <1>6, <1>7, <1>8, <1>9, <1>10, Zenon DEF Known

(* A second passes only while natcheck waits and no server has anything to *)
(* do at once.                                                             *)
LEMMA TickFacts ==
  ASSUME Known, Tick, pc' # "over"
  PROVE  /\ pc = "select" /\ pc' = "listen" /\ ~Ready /\ ServersWait
         /\ \A x : x \in DOMAIN fly' <=> x \in DOMAIN fly
         /\ \A x \in DOMAIN fly : fly'[x] = fly[x] + 1 /\ fly[x] < Delay
         /\ UNCHANGED <<nat, conn, inq, dst, s2, s3, faulty, sock, my, t3toosoon, tcploop>>
         /\ timer2 > 0 => timer2' = timer2 - 1
         /\ timer3 > 0 => timer3' = timer3 - 1
         /\ ~timeout => Now' = Now + 1
BY OlderAges DEF Known, Tick, At, TimersRun, Minus1, Older, Now

LEMMA NowKept ==
  ASSUME Known, pc' # "over",
         \/ ClientStep /\ UNCHANGED extra
         \/ UNCHANGED <<clientVars, extra>>
  PROVE  Now' = Now /\ Now \in Int
<1> USE DEF Known
<1>1. Now \in Int  BY DEF Now
<1>2. CASE UNCHANGED <<clientVars, extra>>
  BY <1>1, <1>2 DEF Now, clientVars
<1>3. CASE ClientStep /\ UNCHANGED extra
  <2>1. CASE Round
    BY <1>1, <1>3, <2>1 DEF Round, Now, Goto
  <2>2. CASE ~Round
    <3>1. UNCHANGED <<tries, timeout>>
      BY <1>3, <2>2 DEF ClientStep, SelectReturns, ListenTcp, T3TooSoon, LoopbackOut,
         LoopbackIn, CheckTcp, NothingToCheck, ConnectRetried, ReplyReceived, RuntReceived,
         Goto, Die
    <3> QED  BY <1>1, <1>3, <3>1 DEF Now
  <2> QED  BY <2>1, <2>2
<1> QED  BY <1>2, <1>3

LEMMA CallingStep ==
  ASSUME TypeOK, Punctual, Asking, Calling, Next, pc' # "over"
  PROVE  Calling'
<1>1. Known  BY TypesKnown
<1> USE <1>1 DEF Known
<1>2. CASE ClientStep /\ UNCHANGED extra
  <2>1. CASE SelectReturns \/ ListenTcp \/ T3TooSoon \/ LoopbackIn \/ Round
    BY <2>1 DEF SelectReturns, At, Goto, Kernel, serverVars, ListenTcp, T3TooSoon,
      LoopbackIn, Round, Calling, UnderWay
  <2>2. CASE LoopbackOut
    BY <2>2, SendAges DEF LoopbackOut, At, Goto, Die, Kernel, serverVars, Calling,
      UnderWay
  <2>3. ASSUME NEW s \in CheckedSocks, CheckTcp(s) PROVE Calling'
    <3> s \in {"tcp1", "tcp2", "tcp3", "incb"}  BY DEF CheckedSocks
    <3>1. CASE NothingToCheck(s) \/ RuntReceived(s)
      BY <3>1 DEF NothingToCheck, At, Goto, NextCall, Kernel, serverVars, RuntReceived,
        Calling, UnderWay
    <3>2. CASE ConnectRetried(s) \/ ReplyReceived(s)
      BY <3>2, SendAges DEF ConnectRetried, At, Goto, Die, NextCall, Kernel, serverVars,
        ReplyReceived, ConnectOut, CalledBack, Servn, Reported, Calling, UnderWay
    <3> QED  BY <2>3, <3>1, <3>2 DEF CheckTcp
  <2> QED  BY <1>2, <2>1, <2>2, <2>3 DEF ClientStep
<1>3. CASE ServerStep /\ UNCHANGED <<clientVars, extra>>
  <2> USE <1>3 DEF clientVars
  <2>1. CASE ServeTcp1 \/ ServeTcp2 \/ GoAhead \/ BounceTcp
    BY <2>1, ReceiveAges DEF ServeTcp1, serverVars, ServeTcp2, Kept2, GoAhead, BounceTcp,
      Kept3, Calling, UnderWay
  <2>2. CASE ReadTimesOut \/ Premature \/ Uncork \/ Awaited
    BY <2>2, SendAges DEF ReadTimesOut, Kept2, Premature, Kept3, Uncork, Awaited, Calling,
      UnderWay
  <2>3. CASE Signal
    BY <2>3, SendAges DEF Signal, Kept3, Punctual, Calling, UnderWay
  <2> QED  BY <2>1, <2>2, <2>3 DEF ServerStep
<1>4. CASE NetStep /\ UNCHANGED <<serverVars, clientVars, extra>>
  <2> USE <1>4 DEF serverVars, clientVars
  <2>1. CASE Handshake("syn1", "tcp1") \/ Handshake("syn2", "tcp2") \/
        CallAnswered("callack", "up") \/ CallAnswered("callrst", "refused") \/
        Opened("ack3", "up") \/ Opened("rst3", "refused") \/ OpenedTwice \/ Hairpin \/
        Deliver("rep1", "tcp1", "reply")
    BY <2>1, ReceiveAges DEF Handshake, Establish, CallAnswered, Opened, OpenedTwice,
      Hairpin, Deliver, Calling, UnderWay
  <2>2. CASE CallArrives
    BY <2>2, ReceiveAges DEF CallArrives, Admits, Establish, Asking, Unasked, HeldBack,
      Calling, UnderWay
  <2>3. CASE SimultaneousOpen
    BY <2>3, ReceiveAges DEF SimultaneousOpen, Meets, Asking, Unasked, HeldBack, Calling,
      UnderWay
  <2>4. CASE Deliver("eof1", "tcp1", "eof") \/ Deliver("rep2", "tcp2", "reply") \/
        Deliver("eof2", "tcp2", "eof") \/ Deliver("rep3", Callee, "reply") \/
        Deliver("loop", "inloop", "loop")
    BY <2>4, ReceiveAges DEF Deliver, Callee, CalledBack, Calling, UnderWay
  <2> QED
    BY <2>1, <2>2, <2>3, <2>4 DEF NetStep
<1>5. CASE Tick
  BY <1>5, TickFacts DEF ServersWait, Calling, UnderWay
<1> QED  BY <1>2, <1>3, <1>4, <1>5 DEF Next, CallGivenUp, At, clientVars

LEMMA AskingStep ==
  ASSUME TypeOK, Punctual, HeldInv, Calling, Asking, Next, pc' # "over"
  PROVE  Asking'
<1>1. Known  BY TypesKnown
<1> USE <1>1 DEF Known
<1>2. CASE ClientStep /\ UNCHANGED extra
  <2>1. CASE SelectReturns \/ ListenTcp \/ T3TooSoon \/ LoopbackIn \/ Round
    BY <2>1 DEF SelectReturns, At, Goto, Kernel, serverVars, ListenTcp, T3TooSoon,
      LoopbackIn, Round, Asking, Unasked, HeldBack, UnderWay
  <2>2. CASE LoopbackOut
    BY <2>2, SendAges DEF LoopbackOut, At, Goto, Die, Kernel, serverVars, Asking, Unasked,
      HeldBack, UnderWay
  <2>3. ASSUME NEW s \in CheckedSocks, CheckTcp(s) PROVE Asking'
    <3> s \in {"tcp1", "tcp2", "tcp3", "incb"}  BY DEF CheckedSocks
    <3>1. CASE NothingToCheck(s) \/ RuntReceived(s)
      BY <3>1 DEF NothingToCheck, At, Goto, NextCall, Kernel, serverVars, RuntReceived,
        Asking, Unasked, HeldBack, UnderWay
    <3>2. CASE ConnectRetried(s)
      BY <3>2, SendAges DEF ConnectRetried, At, Goto, Die, NextCall, Kernel, serverVars,
        Asking, Unasked, HeldBack, UnderWay
    <3>3. CASE ReplyReceived(s)
      BY <3>3, SendAges DEF ReplyReceived, ConnectOut, CalledBack, At, Servn, Reported,
        Goto, NextCall, Kernel, serverVars, Pub, HeldInv, Asking, Unasked, HeldBack,
        UnderWay
    <3> QED  BY <2>3, <3>1, <3>2, <3>3 DEF CheckTcp
  <2> QED  BY <1>2, <2>1, <2>2, <2>3 DEF ClientStep
<1>3. CASE ServerStep /\ UNCHANGED <<clientVars, extra>>
  <2> USE <1>3 DEF clientVars
  <2>1. CASE ServeTcp1 \/ ServeTcp2 \/ GoAhead \/ BounceTcp
    BY <2>1, ReceiveAges DEF ServeTcp1, serverVars, ServeTcp2, Kept2, GoAhead, BounceTcp,
      Kept3, Asking, Unasked, HeldBack, UnderWay
  <2>2. CASE ReadTimesOut \/ Signal \/ Uncork \/ Awaited
    BY <2>2, SendAges DEF ReadTimesOut, Kept2, Signal, Kept3, Uncork, Awaited, Asking,
      Unasked, HeldBack, UnderWay
  <2>3. CASE Premature
    BY <2>3, SendAges DEF Premature, Kept3, Calling, Asking, Unasked, HeldBack, UnderWay
  <2> QED  BY <2>1, <2>2, <2>3 DEF ServerStep
<1>4. CASE NetStep /\ UNCHANGED <<serverVars, clientVars, extra>>
  <2> USE <1>4 DEF serverVars, clientVars
  <2>1. CASE Handshake("syn1", "tcp1") \/ Handshake("syn2", "tcp2") \/
        CallAnswered("callrst", "refused") \/ SimultaneousOpen \/ Opened("ack3", "up") \/
        Opened("rst3", "refused") \/ OpenedTwice \/ Hairpin \/ Deliver("rep1", "tcp1",
        "reply")
    BY <2>1, ReceiveAges DEF Handshake, Establish, CallAnswered, SimultaneousOpen, Meets,
      Opened, OpenedTwice, Hairpin, Deliver, Asking, Unasked, HeldBack, UnderWay
  <2>2. CASE CallArrives
    BY <2>2, ReceiveAges DEF CallArrives, Admits, Establish, Calling, Asking, Unasked,
      HeldBack, UnderWay
  <2>3. CASE CallAnswered("callack", "up")
    BY <2>3, ReceiveAges DEF CallAnswered, Calling, Asking, Unasked, HeldBack, UnderWay
  <2>4. CASE Deliver("eof1", "tcp1", "eof") \/ Deliver("rep2", "tcp2", "reply") \/
        Deliver("eof2", "tcp2", "eof") \/ Deliver("rep3", Callee, "reply") \/
        Deliver("loop", "inloop", "loop")
    BY <2>4, ReceiveAges DEF Deliver, Callee, CalledBack, Asking, Unasked, HeldBack,
      UnderWay
  <2> QED
    BY <2>1, <2>2, <2>3, <2>4 DEF NetStep
<1>5. CASE Tick
  BY <1>5, TickFacts DEF Asking, Unasked, HeldBack, UnderWay
<1> QED  BY <1>2, <1>3, <1>4, <1>5 DEF Next, CallGivenUp, At, clientVars

LEMMA ReportingStep ==
  ASSUME TypeOK, Punctual, faulty = 0, Answering, Reporting, Next, pc' # "over"
  PROVE  Reporting'
<1>1. Known  BY TypesKnown
<1> USE <1>1 DEF Known
<1>2. CASE ClientStep /\ UNCHANGED extra
  <2>1. CASE SelectReturns \/ ListenTcp \/ T3TooSoon \/ LoopbackIn \/ Round
    BY <2>1 DEF SelectReturns, At, Goto, Kernel, serverVars, ListenTcp, T3TooSoon,
      LoopbackIn, Round, Reporting, UnderWay
  <2>2. CASE LoopbackOut
    BY <2>2, SendAges DEF LoopbackOut, At, Goto, Die, Kernel, serverVars, Reporting,
      UnderWay
  <2>3. ASSUME NEW s \in CheckedSocks, CheckTcp(s) PROVE Reporting'
    <3> s \in {"tcp1", "tcp2", "tcp3", "incb"}  BY DEF CheckedSocks
    <3>1. CASE NothingToCheck(s)
      BY <3>1 DEF NothingToCheck, At, Goto, NextCall, Kernel, serverVars, Reporting,
        UnderWay
    <3>2. CASE ConnectRetried(s)
      BY <3>2, SendAges DEF ConnectRetried, At, Goto, Die, NextCall, Kernel, serverVars,
        Reporting, UnderWay
    <3>3. CASE ReplyReceived(s)
      BY <3>3, SendAges DEF ReplyReceived, ConnectOut, CalledBack, At, Servn, Reported,
        Goto, NextCall, Kernel, serverVars, Pub, Reporting, UnderWay
    <3>4. CASE RuntReceived(s)
      BY <3>4 DEF RuntReceived, At, Goto, NextCall, Kernel, serverVars, Answering,
        Reporting, UnderWay
    <3> QED  BY <2>3, <3>1, <3>2, <3>3, <3>4 DEF CheckTcp
  <2> QED  BY <1>2, <2>1, <2>2, <2>3 DEF ClientStep
<1>3. CASE ServerStep /\ UNCHANGED <<clientVars, extra>>
  <2> USE <1>3 DEF clientVars
  <2>1. CASE ServeTcp1 \/ ServeTcp2 \/ GoAhead \/ BounceTcp
    BY <2>1, ReceiveAges DEF ServeTcp1, serverVars, ServeTcp2, Kept2, GoAhead, BounceTcp,
      Kept3, Reporting, UnderWay
  <2>2. CASE ReadTimesOut \/ Premature \/ Signal \/ Uncork \/ Awaited
    BY <2>2, SendAges DEF ReadTimesOut, Kept2, Premature, Kept3, Signal, Uncork, Awaited,
      Reporting, UnderWay
  <2> QED  BY <2>1, <2>2 DEF ServerStep
<1>4. CASE NetStep /\ UNCHANGED <<serverVars, clientVars, extra>>
  <2> USE <1>4 DEF serverVars, clientVars
  <2>1. CASE Handshake("syn1", "tcp1") \/ Handshake("syn2", "tcp2") \/ CallArrives \/
        CallAnswered("callack", "up") \/ CallAnswered("callrst", "refused") \/
        SimultaneousOpen \/ Opened("ack3", "up") \/ Opened("rst3", "refused") \/ OpenedTwice
    BY <2>1, ReceiveAges DEF Handshake, Establish, CallArrives, Admits, CallAnswered,
      SimultaneousOpen, Meets, Opened, OpenedTwice, Reporting, UnderWay
  <2>2. CASE Hairpin \/ Deliver("rep1", "tcp1", "reply") \/ Deliver("rep2", "tcp2",
        "reply") \/ Deliver("eof2", "tcp2", "eof") \/ Deliver("rep3", Callee, "reply") \/
        Deliver("loop", "inloop", "loop")
    BY <2>2, ReceiveAges DEF Hairpin, Deliver, Callee, CalledBack, Reporting, UnderWay
  <2>3. CASE Deliver("eof1", "tcp1", "eof")
    BY <2>3, ReceiveAges DEF Deliver, Answering, Reporting, UnderWay
  <2> QED
    BY <2>1, <2>2, <2>3 DEF NetStep
<1>5. CASE Tick
  BY <1>5, TickFacts DEF Reporting, UnderWay
<1> QED  BY <1>2, <1>3, <1>4, <1>5 DEF Next, CallGivenUp, At, clientVars

LEMMA AnsweringStep ==
  ASSUME TypeOK, Punctual, faulty = 0, HeldInv, Calling, Asking, Hairpinning, Answering, Next, pc' # "over"
  PROVE  Answering'
<1>1. Known  BY TypesKnown
<1> USE <1>1 DEF Known
<1>2. CASE ClientStep /\ UNCHANGED extra
  <2>1. CASE SelectReturns \/ T3TooSoon \/ LoopbackIn \/ Round
    BY <2>1 DEF SelectReturns, At, Goto, Kernel, serverVars, T3TooSoon, LoopbackIn, Round,
      Answering, UnderWay
  <2>2. CASE ListenTcp
    BY <2>2 DEF ListenTcp, At, Goto, Kernel, serverVars, Hairpinning, Answering, UnderWay
  <2>3. CASE LoopbackOut
    BY <2>3, SendAges DEF LoopbackOut, At, Goto, Die, Kernel, serverVars, Answering,
      UnderWay
  <2>4. ASSUME NEW s \in CheckedSocks, CheckTcp(s) PROVE Answering'
    <3> s \in {"tcp1", "tcp2", "tcp3", "incb"}  BY DEF CheckedSocks
    <3>1. CASE NothingToCheck(s) \/ RuntReceived(s)
      BY <3>1 DEF NothingToCheck, At, Goto, NextCall, Kernel, serverVars, RuntReceived,
        Answering, UnderWay
    <3>2. CASE ConnectRetried(s)
      BY <3>2, SendAges DEF ConnectRetried, At, Goto, Die, NextCall, Kernel, serverVars,
        Answering, UnderWay
    <3>3. CASE ReplyReceived(s)
      BY <3>3, SendAges DEF ReplyReceived, ConnectOut, CalledBack, At, Servn, Reported,
        Goto, NextCall, Kernel, serverVars, Pub, Asking, HeldBack, Answering, UnderWay
    <3> QED  BY <2>4, <3>1, <3>2, <3>3 DEF CheckTcp
  <2> QED  BY <1>2, <2>1, <2>2, <2>3, <2>4 DEF ClientStep
<1>3. CASE ServerStep /\ UNCHANGED <<clientVars, extra>>
  <2> USE <1>3 DEF clientVars
  <2>1. CASE ServeTcp1 \/ ServeTcp2 \/ GoAhead \/ BounceTcp
    BY <2>1, ReceiveAges DEF ServeTcp1, serverVars, ServeTcp2, Kept2, GoAhead, BounceTcp,
      Kept3, Answering, UnderWay
  <2>2. CASE ReadTimesOut
    BY <2>2, SendAges DEF ReadTimesOut, Kept2, Punctual, Asking, HeldBack, Answering,
      UnderWay
  <2>3. CASE Premature
    BY <2>3, SendAges DEF Premature, Kept3, Calling, Answering, UnderWay
  <2>4. CASE Signal \/ Uncork \/ Awaited
    BY <2>4, SendAges DEF Signal, Kept3, Uncork, Awaited, Answering, UnderWay
  <2> QED  BY <2>1, <2>2, <2>3, <2>4 DEF ServerStep
<1>4. CASE NetStep /\ UNCHANGED <<serverVars, clientVars, extra>>
  <2> USE <1>4 DEF serverVars, clientVars
  <2>1. CASE Handshake("syn1", "tcp1") \/ Handshake("syn2", "tcp2") \/ CallArrives \/
        CallAnswered("callack", "up") \/ CallAnswered("callrst", "refused") \/
        SimultaneousOpen \/ Opened("ack3", "up") \/ Opened("rst3", "refused") \/ OpenedTwice
    BY <2>1, ReceiveAges DEF Handshake, Establish, CallArrives, Admits, CallAnswered,
      SimultaneousOpen, Meets, Opened, OpenedTwice, Answering, UnderWay
  <2>2. CASE Hairpin \/ Deliver("rep1", "tcp1", "reply") \/ Deliver("eof1", "tcp1",
        "eof") \/ Deliver("rep2", "tcp2", "reply") \/ Deliver("eof2", "tcp2", "eof") \/
        Deliver("rep3", Callee, "reply") \/ Deliver("loop", "inloop", "loop")
    BY <2>2, ReceiveAges DEF Hairpin, Deliver, Callee, CalledBack, Answering, UnderWay
  <2> QED
    BY <2>1, <2>2 DEF NetStep
<1>5. CASE Tick
  BY <1>5, TickFacts DEF ServersWait, Answering, UnderWay
<1> QED  BY <1>2, <1>3, <1>4, <1>5 DEF Next, CallGivenUp, At, clientVars

LEMMA HairpinningStep ==
  ASSUME TypeOK, Punctual, Asking, Hairpinning, Next, pc' # "over"
  PROVE  Hairpinning'
<1>1. Known  BY TypesKnown
<1> USE <1>1 DEF Known
<1>2. CASE ClientStep /\ UNCHANGED extra
  <2>1. CASE SelectReturns \/ ListenTcp \/ T3TooSoon \/ LoopbackIn \/ Round
    BY <2>1 DEF SelectReturns, At, Goto, Kernel, serverVars, ListenTcp, T3TooSoon,
      LoopbackIn, Round, Hairpinning, UnderWay
  <2>2. CASE LoopbackOut
    BY <2>2, SendAges DEF LoopbackOut, At, Goto, Die, Kernel, serverVars, Hairpinning,
      UnderWay
  <2>3. ASSUME NEW s \in CheckedSocks, CheckTcp(s) PROVE Hairpinning'
    <3> s \in {"tcp1", "tcp2", "tcp3", "incb"}  BY DEF CheckedSocks
    <3>1. CASE NothingToCheck(s) \/ RuntReceived(s)
      BY <3>1 DEF NothingToCheck, At, Goto, NextCall, Kernel, serverVars, RuntReceived,
        Hairpinning, UnderWay
    <3>2. CASE ConnectRetried(s)
      BY <3>2, SendAges DEF ConnectRetried, At, Goto, Die, NextCall, Kernel, serverVars,
        Hairpinning, UnderWay
    <3>3. CASE ReplyReceived(s)
      BY <3>3, SendAges DEF ReplyReceived, ConnectOut, CalledBack, At, Servn, Reported,
        Goto, NextCall, Kernel, serverVars, Pub, Asking, Unasked, Hairpinning, UnderWay
    <3> QED  BY <2>3, <3>1, <3>2, <3>3 DEF CheckTcp
  <2> QED  BY <1>2, <2>1, <2>2, <2>3 DEF ClientStep
<1>3. CASE ServerStep /\ UNCHANGED <<clientVars, extra>>
  <2> USE <1>3 DEF clientVars
  <2>1. CASE ServeTcp1 \/ ServeTcp2 \/ GoAhead \/ BounceTcp
    BY <2>1, ReceiveAges DEF ServeTcp1, serverVars, ServeTcp2, Kept2, GoAhead, BounceTcp,
      Kept3, Hairpinning, UnderWay
  <2>2. CASE ReadTimesOut \/ Premature \/ Signal \/ Uncork \/ Awaited
    BY <2>2, SendAges DEF ReadTimesOut, Kept2, Premature, Kept3, Signal, Uncork, Awaited,
      Hairpinning, UnderWay
  <2> QED  BY <2>1, <2>2 DEF ServerStep
<1>4. CASE NetStep /\ UNCHANGED <<serverVars, clientVars, extra>>
  <2> USE <1>4 DEF serverVars, clientVars
  <2>1. CASE Handshake("syn1", "tcp1") \/ Handshake("syn2", "tcp2") \/ CallArrives \/
        CallAnswered("callack", "up") \/ CallAnswered("callrst", "refused") \/
        SimultaneousOpen \/ Opened("ack3", "up") \/ Opened("rst3", "refused") \/ OpenedTwice
    BY <2>1, ReceiveAges DEF Handshake, Establish, CallArrives, Admits, CallAnswered,
      SimultaneousOpen, Meets, Opened, OpenedTwice, Hairpinning, UnderWay
  <2>2. CASE Hairpin \/ Deliver("rep1", "tcp1", "reply") \/ Deliver("eof1", "tcp1",
        "eof") \/ Deliver("rep2", "tcp2", "reply") \/ Deliver("eof2", "tcp2", "eof") \/
        Deliver("rep3", Callee, "reply") \/ Deliver("loop", "inloop", "loop")
    BY <2>2, ReceiveAges DEF Hairpin, Deliver, Callee, CalledBack, Hairpinning, UnderWay
  <2> QED
    BY <2>1, <2>2 DEF NetStep
<1>5. CASE Tick
  BY <1>5, TickFacts DEF Hairpinning, UnderWay
<1> QED  BY <1>2, <1>3, <1>4, <1>5 DEF Next, CallGivenUp, At, clientVars

LEMMA RefusingStep ==
  ASSUME TypeOK, Punctual, faulty = 0, Shut, Calling, Asking, Hairpinning, Refusing, Next, pc' # "over"
  PROVE  Refusing'
<1>1. Known  BY TypesKnown
<1> USE <1>1 DEF Known
<1>2. CASE ClientStep /\ UNCHANGED extra
  <2>1. CASE SelectReturns \/ T3TooSoon \/ LoopbackIn \/ Round
    BY <2>1 DEF SelectReturns, At, Goto, Kernel, serverVars, T3TooSoon, LoopbackIn, Round,
      Refusing, Shut, UnderWay
  <2>2. CASE ListenTcp
    BY <2>2 DEF ListenTcp, At, Goto, Kernel, serverVars, Hairpinning, Refusing, Shut,
      UnderWay
  <2>3. CASE LoopbackOut
    BY <2>3, SendAges DEF LoopbackOut, At, Goto, Die, Kernel, serverVars, Refusing, Shut,
      UnderWay
  <2>4. ASSUME NEW s \in CheckedSocks, CheckTcp(s) PROVE Refusing'
    <3> s \in {"tcp1", "tcp2", "tcp3", "incb"}  BY DEF CheckedSocks
    <3>1. CASE NothingToCheck(s) \/ RuntReceived(s)
      BY <3>1 DEF NothingToCheck, At, Goto, NextCall, Kernel, serverVars, RuntReceived,
        Refusing, Shut, UnderWay
    <3>2. CASE ConnectRetried(s)
      BY <3>2, SendAges DEF ConnectRetried, At, Goto, Die, NextCall, Kernel, serverVars,
        Refusing, Shut, UnderWay
    <3>3. CASE ReplyReceived(s)
      BY <3>3, SendAges DEF ReplyReceived, ConnectOut, CalledBack, At, Servn, Reported,
        Goto, NextCall, Kernel, serverVars, Pub, Asking, Unasked, HeldBack, Refusing, Shut,
        UnderWay
    <3> QED  BY <2>4, <3>1, <3>2, <3>3 DEF CheckTcp
  <2> QED  BY <1>2, <2>1, <2>2, <2>3, <2>4 DEF ClientStep
<1>3. CASE ServerStep /\ UNCHANGED <<clientVars, extra>>
  <2> USE <1>3 DEF clientVars
  <2>1. CASE ServeTcp1 \/ ServeTcp2 \/ GoAhead \/ BounceTcp
    BY <2>1, ReceiveAges DEF ServeTcp1, serverVars, ServeTcp2, Kept2, GoAhead, BounceTcp,
      Kept3, Refusing, Shut, UnderWay
  <2>2. CASE ReadTimesOut \/ Premature \/ Uncork \/ Awaited
    BY <2>2, SendAges DEF ReadTimesOut, Kept2, Premature, Kept3, Uncork, Awaited,
      Refusing, Shut, UnderWay
  <2>3. CASE Signal
    BY <2>3, SendAges DEF Signal, Kept3, Calling, Punctual, Refusing, Shut, UnderWay
  <2> QED  BY <2>1, <2>2, <2>3 DEF ServerStep
<1>4. CASE NetStep /\ UNCHANGED <<serverVars, clientVars, extra>>
  <2> USE <1>4 DEF serverVars, clientVars
  <2>1. CASE Handshake("syn1", "tcp1") \/ Handshake("syn2", "tcp2") \/
        CallAnswered("callack", "up") \/ CallAnswered("callrst", "refused") \/
        Opened("ack3", "up") \/ Opened("rst3", "refused") \/ OpenedTwice \/ Hairpin \/
        Deliver("rep1", "tcp1", "reply")
    BY <2>1, ReceiveAges DEF Handshake, Establish, CallAnswered, Opened, OpenedTwice,
      Hairpin, Deliver, Refusing, Shut, UnderWay
  <2>2. CASE CallArrives
    BY <2>2, ReceiveAges DEF CallArrives, Admits, Establish, Calling, Asking, Unasked,
      HeldBack, Refusing, Shut, UnderWay
  <2>3. CASE SimultaneousOpen
    BY <2>3, ReceiveAges DEF SimultaneousOpen, Meets, Calling, Asking, Unasked, HeldBack,
      Refusing, Shut, UnderWay
  <2>4. CASE Deliver("eof1", "tcp1", "eof") \/ Deliver("rep2", "tcp2", "reply") \/
        Deliver("eof2", "tcp2", "eof") \/ Deliver("rep3", Callee, "reply") \/
        Deliver("loop", "inloop", "loop")
    BY <2>4, ReceiveAges DEF Deliver, Callee, CalledBack, Refusing, Shut, UnderWay
  <2> QED
    BY <2>1, <2>2, <2>3, <2>4 DEF NetStep
<1>5. CASE Tick
  BY <1>5, TickFacts DEF Refusing, Shut, UnderWay
<1> QED  BY <1>2, <1>3, <1>4, <1>5 DEF Next, CallGivenUp, At, clientVars

LEMMA MeetingStep ==
  ASSUME TypeOK, Punctual, faulty = 0, Meeting, Calling, Asking, Answering,
         MeetingHalfway, Next, pc' # "over"
  PROVE  MeetingHalfway'
<1>1. Known  BY TypesKnown
<1> USE <1>1 DEF Known
<1>2. CASE ClientStep /\ UNCHANGED extra
  <2>1. CASE SelectReturns \/ ListenTcp \/ T3TooSoon \/ LoopbackIn \/ Round
    BY <2>1 DEF SelectReturns, At, Goto, Kernel, serverVars, ListenTcp, T3TooSoon,
      LoopbackIn, Round, MeetingHalfway, Meeting, UnderWay
  <2>2. CASE LoopbackOut
    BY <2>2, SendAges DEF LoopbackOut, At, Goto, Die, Kernel, serverVars, MeetingHalfway,
      Meeting, UnderWay
  <2>3. ASSUME NEW s \in CheckedSocks, CheckTcp(s) PROVE MeetingHalfway'
    <3> s \in {"tcp1", "tcp2", "tcp3", "incb"}  BY DEF CheckedSocks
    <3>1. CASE NothingToCheck(s)
      BY <3>1 DEF NothingToCheck, At, Goto, NextCall, Kernel, serverVars, MeetingHalfway,
        Meeting, UnderWay
    <3>2. CASE ConnectRetried(s)
      BY <3>2, SendAges DEF ConnectRetried, At, Goto, Die, NextCall, Kernel, serverVars,
        MeetingHalfway, Meeting, UnderWay
    <3>3. CASE ReplyReceived(s)
      BY <3>3, SendAges DEF ReplyReceived, ConnectOut, CalledBack, At, Servn, Reported,
        Goto, NextCall, Kernel, serverVars, Pub, Asking, Unasked, HeldBack, MeetingHalfway,
        Meeting, UnderWay
    <3>4. CASE RuntReceived(s)
      BY <3>4 DEF RuntReceived, At, Goto, NextCall, Kernel, serverVars, Answering,
        MeetingHalfway, Meeting, UnderWay
    <3> QED  BY <2>3, <3>1, <3>2, <3>3, <3>4 DEF CheckTcp
  <2> QED  BY <1>2, <2>1, <2>2, <2>3 DEF ClientStep
<1>3. CASE ServerStep /\ UNCHANGED <<clientVars, extra>>
  <2> USE <1>3 DEF clientVars
  <2>1. CASE ServeTcp1 \/ ServeTcp2 \/ GoAhead \/ BounceTcp
    BY <2>1, ReceiveAges DEF ServeTcp1, serverVars, ServeTcp2, Kept2, GoAhead, BounceTcp,
      Kept3, MeetingHalfway, Meeting, UnderWay
  <2>2. CASE ReadTimesOut \/ Premature \/ Signal \/ Uncork \/ Awaited
    BY <2>2, SendAges DEF ReadTimesOut, Kept2, Premature, Kept3, Signal, Uncork, Awaited,
      MeetingHalfway, Meeting, UnderWay
  <2> QED  BY <2>1, <2>2 DEF ServerStep
<1>4. CASE NetStep /\ UNCHANGED <<serverVars, clientVars, extra>>
  <2> USE <1>4 DEF serverVars, clientVars
  <2>1. CASE Handshake("syn1", "tcp1") \/ Handshake("syn2", "tcp2") \/
        CallAnswered("callack", "up") \/ CallAnswered("callrst", "refused") \/
        Opened("ack3", "up") \/ Opened("rst3", "refused") \/ OpenedTwice \/ Hairpin \/
        Deliver("rep1", "tcp1", "reply")
    BY <2>1, ReceiveAges DEF Handshake, Establish, CallAnswered, Opened, OpenedTwice,
      Hairpin, Deliver, MeetingHalfway, Meeting, UnderWay
  <2>2. CASE CallArrives
    BY <2>2, ReceiveAges DEF CallArrives, Admits, Establish, Calling, Asking, Unasked,
      HeldBack, MeetingHalfway, Meeting, UnderWay
  <2>3. CASE SimultaneousOpen
    BY <2>3, ReceiveAges DEF SimultaneousOpen, Meets, Calling, Asking, Unasked, HeldBack,
      MeetingHalfway, Meeting, UnderWay
  <2>4. CASE Deliver("eof1", "tcp1", "eof") \/ Deliver("rep2", "tcp2", "reply") \/
        Deliver("eof2", "tcp2", "eof") \/ Deliver("rep3", Callee, "reply") \/
        Deliver("loop", "inloop", "loop")
    BY <2>4, ReceiveAges DEF Deliver, Callee, CalledBack, MeetingHalfway, Meeting,
      UnderWay
  <2> QED
    BY <2>1, <2>2, <2>3, <2>4 DEF NetStep
<1>5. CASE Tick
  BY <1>5, TickFacts DEF MeetingHalfway, Meeting, UnderWay
<1> QED  BY <1>2, <1>3, <1>4, <1>5 DEF Next, CallGivenUp, At, clientVars

LEMMA CalledInStep ==
  ASSUME TypeOK, Punctual, faulty = 0, nat.filter = "open", Calling, Asking,
         Answering, CalledIn, Next, pc' # "over"
  PROVE  CalledIn'
<1>1. Known  BY TypesKnown
<1> USE <1>1 DEF Known
<1>2. CASE ClientStep /\ UNCHANGED extra
  <2>1. CASE SelectReturns \/ LoopbackIn \/ Round
    BY <2>1 DEF SelectReturns, At, Goto, Kernel, serverVars, LoopbackIn, Round, CalledIn,
      UnderWay
  <2>2. CASE ListenTcp
    BY <2>2 DEF ListenTcp, At, Goto, Kernel, serverVars, CalledIn, UnderWay
  <2>3. CASE T3TooSoon
    BY <2>3 DEF T3TooSoon, At, Goto, Kernel, serverVars, CalledIn, UnderWay
  <2>4. CASE LoopbackOut
    BY <2>4, SendAges DEF LoopbackOut, At, Goto, Die, Kernel, serverVars, CalledIn,
      UnderWay
  <2>5. ASSUME NEW s \in CheckedSocks, CheckTcp(s) PROVE CalledIn'
    <3> s \in {"tcp1", "tcp2", "tcp3", "incb"}  BY DEF CheckedSocks
    <3>1. CASE NothingToCheck(s)
      BY <3>1 DEF NothingToCheck, At, Goto, NextCall, Kernel, serverVars, CalledIn,
        UnderWay
    <3>2. CASE ConnectRetried(s)
      BY <3>2, SendAges DEF ConnectRetried, At, Goto, Die, NextCall, Kernel, serverVars,
        CalledIn, UnderWay
    <3>3. CASE ReplyReceived(s)
      BY <3>3, SendAges DEF ReplyReceived, ConnectOut, CalledBack, At, Servn, Reported,
        Goto, NextCall, Kernel, serverVars, Pub, Asking, Unasked, HeldBack, CalledIn,
        UnderWay
    <3>4. CASE RuntReceived(s)
      BY <3>4 DEF RuntReceived, At, Goto, NextCall, Kernel, serverVars, Answering,
        CalledIn, UnderWay
    <3> QED  BY <2>5, <3>1, <3>2, <3>3, <3>4 DEF CheckTcp
  <2> QED  BY <1>2, <2>1, <2>2, <2>3, <2>4, <2>5 DEF ClientStep
<1>3. CASE ServerStep /\ UNCHANGED <<clientVars, extra>>
  <2> USE <1>3 DEF clientVars
  <2>1. CASE ServeTcp1 \/ ServeTcp2 \/ GoAhead \/ BounceTcp
    BY <2>1, ReceiveAges DEF ServeTcp1, serverVars, ServeTcp2, Kept2, GoAhead, BounceTcp,
      Kept3, CalledIn, UnderWay
  <2>2. CASE ReadTimesOut \/ Premature \/ Awaited
    BY <2>2, SendAges DEF ReadTimesOut, Kept2, Premature, Kept3, Awaited, CalledIn,
      UnderWay
  <2>3. CASE Signal
    BY <2>3, SendAges DEF Signal, Kept3, Calling, Punctual, CalledIn, UnderWay
  <2>4. CASE Uncork
    BY <2>4, SendAges DEF Uncork, Kept3, Punctual, CalledIn, UnderWay
  <2> QED  BY <2>1, <2>2, <2>3, <2>4 DEF ServerStep
<1>4. CASE NetStep /\ UNCHANGED <<serverVars, clientVars, extra>>
  <2> USE <1>4 DEF serverVars, clientVars
  <2>1. CASE Handshake("syn1", "tcp1") \/ Handshake("syn2", "tcp2") \/ CallArrives \/
        CallAnswered("callack", "up") \/ CallAnswered("callrst", "refused") \/
        SimultaneousOpen \/ Opened("ack3", "up") \/ Opened("rst3", "refused") \/ OpenedTwice
    BY <2>1, ReceiveAges DEF Handshake, Establish, CallArrives, Admits, CallAnswered,
      SimultaneousOpen, Meets, Opened, OpenedTwice, CalledIn, UnderWay
  <2>2. CASE Hairpin \/ Deliver("rep1", "tcp1", "reply") \/ Deliver("eof1", "tcp1",
        "eof") \/ Deliver("rep2", "tcp2", "reply") \/ Deliver("eof2", "tcp2", "eof") \/
        Deliver("loop", "inloop", "loop")
    BY <2>2, ReceiveAges DEF Hairpin, Deliver, CalledIn, UnderWay
  <2>3. CASE Deliver("rep3", Callee, "reply")
    BY <2>3, ReceiveAges DEF Deliver, Callee, CalledBack, Asking, CalledIn, UnderWay
  <2> QED
    BY <2>1, <2>2, <2>3 DEF NetStep
<1>5. CASE Tick
  BY <1>5, TickFacts DEF Ready, ServersWait, CalledIn, UnderWay
<1> QED  BY <1>2, <1>3, <1>4, <1>5 DEF Next, CallGivenUp, At, clientVars

LEMMA AddressesStep ==
  ASSUME TypeOK, Next, Addresses, Asking, Hairpinning, pc' # "over"
  PROVE  Addresses'
<1>1. Known  BY TypesKnown
<1> USE <1>1 DEF Known
<1>2. CASE ClientStep /\ UNCHANGED extra
  <2>1. CASE SelectReturns \/ ListenTcp \/ T3TooSoon \/ Round
    BY <2>1 DEF SelectReturns, At, Goto, Kernel, serverVars, ListenTcp, T3TooSoon, Round,
      Addresses, Pub
  <2>2. CASE LoopbackOut
    BY <2>2, SendAges DEF LoopbackOut, At, Goto, Die, Kernel, serverVars, Addresses, Pub
  <2>3. CASE LoopbackIn
    BY <2>3 DEF LoopbackIn, At, Goto, Kernel, serverVars, Hairpinning, Addresses, Pub
  <2>4. ASSUME NEW s \in CheckedSocks, CheckTcp(s) PROVE Addresses'
    <3> s \in {"tcp1", "tcp2", "tcp3", "incb"}  BY DEF CheckedSocks
    <3>1. CASE NothingToCheck(s) \/ RuntReceived(s)
      BY <3>1 DEF NothingToCheck, At, Goto, NextCall, Kernel, serverVars, RuntReceived,
        Addresses, Pub
    <3>2. CASE ConnectRetried(s)
      BY <3>2, SendAges DEF ConnectRetried, At, Goto, Die, NextCall, Kernel, serverVars,
        Addresses, Pub
    <3>3. CASE ReplyReceived(s)
      BY <3>3, SendAges DEF ReplyReceived, ConnectOut, CalledBack, At, Servn, Reported,
        Goto, NextCall, Kernel, serverVars, Asking, Addresses, Pub
    <3> QED  BY <2>4, <3>1, <3>2, <3>3 DEF CheckTcp
  <2> QED  BY <1>2, <2>1, <2>2, <2>3, <2>4 DEF ClientStep
<1>3. CASE ServerStep /\ UNCHANGED <<clientVars, extra>>
  <2> USE <1>3 DEF clientVars
  <2>1. CASE ServeTcp1 \/ ServeTcp2 \/ GoAhead \/ BounceTcp
    BY <2>1, ReceiveAges DEF ServeTcp1, serverVars, ServeTcp2, Kept2, GoAhead, BounceTcp,
      Kept3, Addresses, Pub
  <2>2. CASE ReadTimesOut \/ Premature \/ Signal \/ Uncork \/ Awaited
    BY <2>2, SendAges DEF ReadTimesOut, Kept2, Premature, Kept3, Signal, Uncork, Awaited,
      Addresses, Pub
  <2> QED  BY <2>1, <2>2 DEF ServerStep
<1>4. CASE NetStep /\ UNCHANGED <<serverVars, clientVars, extra>>
  <2> USE <1>4 DEF serverVars, clientVars
  <2>1. CASE Handshake("syn1", "tcp1") \/ Handshake("syn2", "tcp2") \/ CallArrives \/
        CallAnswered("callack", "up") \/ CallAnswered("callrst", "refused") \/
        SimultaneousOpen \/ Opened("ack3", "up") \/ Opened("rst3", "refused") \/ OpenedTwice
    BY <2>1, ReceiveAges DEF Handshake, Establish, CallArrives, Admits, CallAnswered,
      SimultaneousOpen, Meets, Opened, OpenedTwice, Addresses, Pub
  <2>2. CASE Hairpin \/ Deliver("rep1", "tcp1", "reply") \/ Deliver("eof1", "tcp1",
        "eof") \/ Deliver("rep2", "tcp2", "reply") \/ Deliver("eof2", "tcp2", "eof") \/
        Deliver("rep3", Callee, "reply") \/ Deliver("loop", "inloop", "loop")
    BY <2>2, ReceiveAges DEF Hairpin, Deliver, Callee, CalledBack, Addresses, Pub
  <2> QED
    BY <2>1, <2>2 DEF NetStep
<1>5. CASE Tick
  BY <1>5, TickFacts DEF Addresses, Pub
<1> QED  BY <1>2, <1>3, <1>4, <1>5 DEF Next, CallGivenUp, At, clientVars

LEMMA SegmentsStep ==
  ASSUME TypeOK, Punctual, Calling, Asking, InTime, Next, pc' # "over"
  PROVE  SegmentsInTime'
<1>1. Known  BY TypesKnown
<1> USE <1>1 DEF Known
<1>2. CASE ClientStep /\ UNCHANGED extra
  <2> Now' = Now /\ Now \in Int  BY <1>2, NowKept
  <2>1. CASE SelectReturns \/ ListenTcp \/ T3TooSoon \/ LoopbackIn \/ Round
    BY <2>1 DEF SelectReturns, At, Goto, Kernel, serverVars, ListenTcp, T3TooSoon,
      LoopbackIn, Round, InTime, SegmentsInTime, Latest
  <2>2. CASE LoopbackOut
    BY <2>2, SendAges DEF LoopbackOut, At, Goto, Die, Kernel, serverVars, SocketsInTime,
      UpBy, InTime, SegmentsInTime, Latest
  <2>3. ASSUME NEW s \in CheckedSocks, CheckTcp(s) PROVE SegmentsInTime'
    <3> s \in {"tcp1", "tcp2", "tcp3", "incb"}  BY DEF CheckedSocks
    <3>1. CASE NothingToCheck(s) \/ RuntReceived(s)
      BY <3>1 DEF NothingToCheck, At, Goto, NextCall, Kernel, serverVars, RuntReceived,
        InTime, SegmentsInTime, Latest
    <3>2. CASE ConnectRetried(s)
      BY <3>2, SendAges DEF ConnectRetried, At, Goto, Die, NextCall, Kernel, serverVars,
        SocketsInTime, UpBy, InTime, SegmentsInTime, Latest
    <3>3. CASE ReplyReceived(s)
      BY <3>3, SendAges DEF ReplyReceived, ConnectOut, CalledBack, At, Servn, Reported,
        Goto, NextCall, Kernel, serverVars, SocketsInTime, DataBy, InTime, SegmentsInTime,
        Latest
    <3> QED  BY <2>3, <3>1, <3>2, <3>3 DEF CheckTcp
  <2> QED  BY <1>2, <2>1, <2>2, <2>3 DEF ClientStep
<1>3. CASE ServerStep /\ UNCHANGED <<clientVars, extra>>
  <2> USE <1>3 DEF clientVars
  <2> Now' = Now /\ Now \in Int  BY NowKept
  <2>1. CASE ServeTcp1 \/ ServeTcp2 \/ GoAhead \/ BounceTcp
    BY <2>1, ReceiveAges DEF ServeTcp1, serverVars, ServeTcp2, Kept2, GoAhead, BounceTcp,
      Kept3, InTime, SegmentsInTime, Latest
  <2>2. CASE ReadTimesOut
    BY <2>2, SendAges DEF ReadTimesOut, Kept2, InTime, SegmentsInTime, Latest
  <2>3. CASE Premature
    BY <2>3, SendAges DEF Premature, Kept3, HandlersInTime, Calling, InTime,
      SegmentsInTime, Latest
  <2>4. CASE Signal
    BY <2>4, SendAges DEF Signal, Kept3, HandlersInTime, InTime, SegmentsInTime, Latest
  <2>5. CASE Uncork
    BY <2>5, SendAges DEF Uncork, Kept3, HandlersInTime, InTime, SegmentsInTime, Latest
  <2>6. CASE Awaited
    BY <2>6, SendAges DEF Awaited, Kept3, HandlersInTime, InTime, SegmentsInTime, Latest
  <2> QED  BY <2>1, <2>2, <2>3, <2>4, <2>5, <2>6 DEF ServerStep
<1>4. CASE NetStep /\ UNCHANGED <<serverVars, clientVars, extra>>
  <2> USE <1>4 DEF serverVars, clientVars
  <2> Now' = Now /\ Now \in Int  BY NowKept
  <2>1. CASE Handshake("syn1", "tcp1") \/ Handshake("syn2", "tcp2") \/ CallArrives \/
        CallAnswered("callack", "up") \/ CallAnswered("callrst", "refused") \/
        SimultaneousOpen \/ Opened("ack3", "up") \/ Opened("rst3", "refused") \/ OpenedTwice
    BY <2>1, ReceiveAges DEF Handshake, Establish, CallArrives, Admits, CallAnswered,
      SimultaneousOpen, Meets, Opened, OpenedTwice, InTime, SegmentsInTime, Latest
  <2>2. CASE Hairpin \/ Deliver("rep1", "tcp1", "reply") \/ Deliver("eof1", "tcp1",
        "eof") \/ Deliver("rep2", "tcp2", "reply") \/ Deliver("eof2", "tcp2", "eof") \/
        Deliver("rep3", Callee, "reply") \/ Deliver("loop", "inloop", "loop")
    BY <2>2, ReceiveAges DEF Hairpin, Deliver, Callee, CalledBack, InTime, SegmentsInTime,
      Latest
  <2> QED
    BY <2>1, <2>2 DEF NetStep
<1>5. CASE Tick
  BY <1>5, TickFacts DEF Now, InTime, SegmentsInTime, Latest
<1> QED  BY <1>2, <1>3, <1>4, <1>5 DEF Next, CallGivenUp, At, clientVars

LEMMA SocketsStep ==
  ASSUME TypeOK, Punctual, Hairpinning, InTime, Next, pc' # "over"
  PROVE  SocketsInTime'
<1>1. Known  BY TypesKnown
<1> USE <1>1 DEF Known
<1>2. CASE ClientStep /\ UNCHANGED extra
  <2> Now' = Now /\ Now \in Int  BY <1>2, NowKept
  <2>1. CASE SelectReturns \/ T3TooSoon \/ LoopbackIn \/ Round
    BY <2>1 DEF SelectReturns, At, Goto, Kernel, serverVars, T3TooSoon, LoopbackIn, Round,
      InTime, SocketsInTime, UpBy, DataBy
  <2>2. CASE ListenTcp
    BY <2>2 DEF ListenTcp, At, Goto, Kernel, serverVars, Hairpinning, InTime,
      SocketsInTime, UpBy, DataBy
  <2>3. CASE LoopbackOut
    BY <2>3, SendAges DEF LoopbackOut, At, Goto, Die, Kernel, serverVars, InTime,
      SocketsInTime, UpBy, DataBy
  <2>4. ASSUME NEW s \in CheckedSocks, CheckTcp(s) PROVE SocketsInTime'
    <3> s \in {"tcp1", "tcp2", "tcp3", "incb"}  BY DEF CheckedSocks
    <3>1. CASE NothingToCheck(s) \/ RuntReceived(s)
      BY <3>1 DEF NothingToCheck, At, Goto, NextCall, Kernel, serverVars, RuntReceived,
        InTime, SocketsInTime, UpBy, DataBy
    <3>2. CASE ConnectRetried(s) \/ ReplyReceived(s)
      BY <3>2, SendAges DEF ConnectRetried, At, Goto, Die, NextCall, Kernel, serverVars,
        ReplyReceived, ConnectOut, CalledBack, Servn, Reported, InTime, SocketsInTime, UpBy,
        DataBy
    <3> QED  BY <2>4, <3>1, <3>2 DEF CheckTcp
  <2> QED  BY <1>2, <2>1, <2>2, <2>3, <2>4 DEF ClientStep
<1>3. CASE ServerStep /\ UNCHANGED <<clientVars, extra>>
  <2> USE <1>3 DEF clientVars
  <2> Now' = Now /\ Now \in Int  BY NowKept
  <2>1. CASE ServeTcp1 \/ ServeTcp2 \/ GoAhead \/ BounceTcp
    BY <2>1, ReceiveAges DEF ServeTcp1, serverVars, ServeTcp2, Kept2, GoAhead, BounceTcp,
      Kept3, InTime, SocketsInTime, UpBy, DataBy
  <2>2. CASE ReadTimesOut \/ Premature \/ Signal \/ Uncork \/ Awaited
    BY <2>2, SendAges DEF ReadTimesOut, Kept2, Premature, Kept3, Signal, Uncork, Awaited,
      InTime, SocketsInTime, UpBy, DataBy
  <2> QED  BY <2>1, <2>2 DEF ServerStep
<1>4. CASE NetStep /\ UNCHANGED <<serverVars, clientVars, extra>>
  <2> USE <1>4 DEF serverVars, clientVars
  <2> Now' = Now /\ Now \in Int  BY NowKept
  <2>1. CASE Handshake("syn1", "tcp1")
    BY <2>1, ReceiveAges DEF Handshake, Establish, SegmentsInTime, Latest, InTime,
      SocketsInTime, UpBy, DataBy
  <2>2. CASE Handshake("syn2", "tcp2")
    BY <2>2, ReceiveAges DEF Handshake, Establish, SegmentsInTime, Latest, InTime,
      SocketsInTime, UpBy, DataBy
  <2>3. CASE CallArrives
    BY <2>3, ReceiveAges DEF CallArrives, Admits, Establish, SegmentsInTime, Latest,
      InTime, SocketsInTime, UpBy, DataBy
  <2>4. CASE CallAnswered("callack", "up")
    BY <2>4, ReceiveAges DEF CallAnswered, SegmentsInTime, Latest, InTime, SocketsInTime,
      UpBy, DataBy
  <2>5. CASE CallAnswered("callrst", "refused")
    BY <2>5, ReceiveAges DEF CallAnswered, SegmentsInTime, Latest, InTime, SocketsInTime,
      UpBy, DataBy
  <2>6. CASE SimultaneousOpen
    BY <2>6, ReceiveAges DEF SimultaneousOpen, Meets, SegmentsInTime, Latest, InTime,
      SocketsInTime, UpBy, DataBy
  <2>7. CASE Opened("ack3", "up")
    BY <2>7, ReceiveAges DEF Opened, Establish, SegmentsInTime, Latest, InTime,
      SocketsInTime, UpBy, DataBy
  <2>8. CASE Opened("rst3", "refused")
    BY <2>8, ReceiveAges DEF Opened, Establish, SegmentsInTime, Latest, InTime,
      SocketsInTime, UpBy, DataBy
  <2>9. CASE OpenedTwice
    BY <2>9, ReceiveAges DEF OpenedTwice, SegmentsInTime, Latest, InTime, SocketsInTime,
      UpBy, DataBy
  <2>10. CASE Hairpin
    BY <2>10, ReceiveAges DEF Hairpin, SegmentsInTime, Latest, InTime, SocketsInTime,
      UpBy, DataBy
  <2>11. CASE Deliver("rep1", "tcp1", "reply")
    BY <2>11, ReceiveAges DEF Deliver, SegmentsInTime, Latest, InTime, SocketsInTime,
      UpBy, DataBy
  <2>12. CASE Deliver("eof1", "tcp1", "eof")
    BY <2>12, ReceiveAges DEF Deliver, SegmentsInTime, Latest, InTime, SocketsInTime,
      UpBy, DataBy
  <2>13. CASE Deliver("rep2", "tcp2", "reply")
    BY <2>13, ReceiveAges DEF Deliver, SegmentsInTime, Latest, InTime, SocketsInTime,
      UpBy, DataBy
  <2>14. CASE Deliver("eof2", "tcp2", "eof")
    BY <2>14, ReceiveAges DEF Deliver, SegmentsInTime, Latest, InTime, SocketsInTime,
      UpBy, DataBy
  <2>15. CASE Deliver("rep3", Callee, "reply")
    BY <2>15, ReceiveAges DEF Deliver, Callee, CalledBack, SegmentsInTime, Latest, InTime,
      SocketsInTime, UpBy, DataBy
  <2>16. CASE Deliver("loop", "inloop", "loop")
    BY <2>16, ReceiveAges DEF Deliver, SegmentsInTime, Latest, InTime, SocketsInTime,
      UpBy, DataBy
  <2> QED
    BY <2>1, <2>2, <2>3, <2>4, <2>5, <2>6, <2>7, <2>8, <2>9, <2>10, <2>11, <2>12, <2>13,
      <2>14, <2>15, <2>16 DEF NetStep
<1>5. CASE Tick
  BY <1>5, TickFacts DEF Ready, Now, InTime, SocketsInTime, UpBy, DataBy
<1> QED  BY <1>2, <1>3, <1>4, <1>5 DEF Next, CallGivenUp, At, clientVars

LEMMA HandlersStep ==
  ASSUME TypeOK, Punctual, Calling, InTime, Next, pc' # "over"
  PROVE  HandlersInTime'
<1>1. Known  BY TypesKnown
<1> USE <1>1 DEF Known
<1>2. CASE ClientStep /\ UNCHANGED extra
  <2> Now' = Now /\ Now \in Int  BY <1>2, NowKept
  <2>1. CASE SelectReturns \/ ListenTcp \/ T3TooSoon \/ LoopbackIn \/ Round
    BY <2>1 DEF SelectReturns, At, Goto, Kernel, serverVars, ListenTcp, T3TooSoon,
      LoopbackIn, Round, InTime, HandlersInTime
  <2>2. CASE LoopbackOut
    BY <2>2, SendAges DEF LoopbackOut, At, Goto, Die, Kernel, serverVars, InTime,
      HandlersInTime
  <2>3. ASSUME NEW s \in CheckedSocks, CheckTcp(s) PROVE HandlersInTime'
    <3> s \in {"tcp1", "tcp2", "tcp3", "incb"}  BY DEF CheckedSocks
    <3>1. CASE NothingToCheck(s) \/ RuntReceived(s)
      BY <3>1 DEF NothingToCheck, At, Goto, NextCall, Kernel, serverVars, RuntReceived,
        InTime, HandlersInTime
    <3>2. CASE ConnectRetried(s) \/ ReplyReceived(s)
      BY <3>2, SendAges DEF ConnectRetried, At, Goto, Die, NextCall, Kernel, serverVars,
        ReplyReceived, ConnectOut, CalledBack, Servn, Reported, InTime, HandlersInTime
    <3> QED  BY <2>3, <3>1, <3>2 DEF CheckTcp
  <2> QED  BY <1>2, <2>1, <2>2, <2>3 DEF ClientStep
<1>3. CASE ServerStep /\ UNCHANGED <<clientVars, extra>>
  <2> USE <1>3 DEF clientVars
  <2> Now' = Now /\ Now \in Int  BY NowKept
  <2>1. CASE ServeTcp1 \/ ServeTcp2 \/ GoAhead
    BY <2>1, ReceiveAges DEF ServeTcp1, serverVars, ServeTcp2, Kept2, GoAhead, InTime,
      HandlersInTime
  <2>2. CASE ReadTimesOut \/ Signal \/ Uncork \/ Awaited
    BY <2>2, SendAges DEF ReadTimesOut, Kept2, Signal, Kept3, Uncork, Awaited, InTime,
      HandlersInTime
  <2>3. CASE BounceTcp
    BY <2>3, ReceiveAges DEF BounceTcp, Kept3, SegmentsInTime, Latest, InTime,
      HandlersInTime
  <2>4. CASE Premature
    BY <2>4, SendAges DEF Premature, Kept3, Calling, SegmentsInTime, Latest, InTime,
      HandlersInTime
  <2> QED  BY <2>1, <2>2, <2>3, <2>4 DEF ServerStep
<1>4. CASE NetStep /\ UNCHANGED <<serverVars, clientVars, extra>>
  <2> USE <1>4 DEF serverVars, clientVars
  <2> Now' = Now /\ Now \in Int  BY NowKept
  <2>1. CASE Handshake("syn1", "tcp1") \/ Handshake("syn2", "tcp2") \/ CallArrives \/
        Opened("ack3", "up") \/ Opened("rst3", "refused") \/ OpenedTwice \/ Hairpin \/
        Deliver("rep1", "tcp1", "reply") \/ Deliver("eof1", "tcp1", "eof")
    BY <2>1, ReceiveAges DEF Handshake, Establish, CallArrives, Admits, Opened,
      OpenedTwice, Hairpin, Deliver, InTime, HandlersInTime
  <2>2. CASE CallAnswered("callack", "up")
    BY <2>2, ReceiveAges DEF CallAnswered, Calling, SegmentsInTime, Latest, InTime,
      HandlersInTime
  <2>3. CASE CallAnswered("callrst", "refused")
    BY <2>3, ReceiveAges DEF CallAnswered, Calling, SegmentsInTime, Latest, InTime,
      HandlersInTime
  <2>4. CASE SimultaneousOpen
    BY <2>4, ReceiveAges DEF SimultaneousOpen, Meets, SegmentsInTime, Latest, InTime,
      HandlersInTime
  <2>5. CASE Deliver("rep2", "tcp2", "reply") \/ Deliver("eof2", "tcp2", "eof") \/
        Deliver("rep3", Callee, "reply") \/ Deliver("loop", "inloop", "loop")
    BY <2>5, ReceiveAges DEF Deliver, Callee, CalledBack, InTime, HandlersInTime
  <2> QED
    BY <2>1, <2>2, <2>3, <2>4, <2>5 DEF NetStep
<1>5. CASE Tick
  BY <1>5, TickFacts DEF ServersWait, Now, InTime, HandlersInTime
<1> QED  BY <1>2, <1>3, <1>4, <1>5 DEF Next, CallGivenUp, At, clientVars

-----------------------------------------------------------------------------
(* The invariant: while natcheck runs, the conversation is on its course;  *)
(* after that the verdict is as it should be.                              *)
Course ==
  /\ outcome = "running"
  /\ InTime /\ Calling /\ Asking /\ Hairpinning /\ Addresses
  /\ faulty = 0 => /\ Answering /\ Reporting
                   /\ Shut => Refusing
                   /\ Meeting => MeetingHalfway
                   /\ nat.filter = "open" => CalledIn
Right == OpenIsSoon /\ VerdictUnlessRefused /\ OtherVerdicts
VerdictInv == IF pc = "over" THEN outcome # "running" /\ Right ELSE Course

LEMMA CourseInit == TypeOK /\ Init => Course
<1>1. SUFFICES ASSUME TypeOK, Init PROVE Course  OBVIOUS
<1>2. Known  BY <1>1, TypesKnown
<1>3. DOMAIN fly = {"syn1", "syn2"} /\ \A s \in DOMAIN fly : fly[s] = 0
  BY <1>1 DEF Init, NetInit
<1>4. /\ conn["tcp1"] = "syn" /\ conn["tcp2"] = "syn"
      /\ \A s \in {"tcp3", "tcp4", "incb", "inloop"} : conn[s] = "none"
      /\ \A s \in Sock : inq[s] = "none"
      /\ dst = "none"
  BY <1>1, <1>2 DEF Init, NetInit, Known
<1>5. s2 = "accept" /\ s3 = "accept" /\ timer2 = 0 /\ timer3 = 0
  BY <1>1 DEF Init, ServerInit
<1>6. /\ sock["tcp1"] = "wfds" /\ sock["tcp2"] = "wfds"
      /\ sock["tcp3"] = "idle" /\ sock["tcp4"] = "idle"
      /\ sock["incb"] = "closed" /\ sock["inloop"] = "closed"
  BY <1>1, <1>2 DEF Init, ClientInit, Known
<1>7. /\ pc = "select" /\ tries = 1 /\ timeout = FALSE /\ extra = 0
      /\ my[1] = None /\ my[2] = None /\ my[3] = None
      /\ t3toosoon = FALSE /\ tcploop = FALSE /\ outcome = "running"
  BY <1>1 DEF Init, ClientInit
<1> USE <1>2, <1>3, <1>4, <1>5, <1>6, <1>7 DEF Known, UnderWay
<1>8. InTime
  BY DEF InTime, SegmentsInTime, SocketsInTime, HandlersInTime, Latest, Now
<1>9. Calling  BY DEF Calling
<1>10. Asking  BY DEF Asking, Unasked, HeldBack
<1>11. Hairpinning  BY DEF Hairpinning
<1>12. Addresses  BY DEF Addresses
<1>13. Answering  BY DEF Answering
<1>14. Reporting  BY DEF Reporting
<1>15. Refusing  BY DEF Refusing
<1>16. MeetingHalfway  BY DEF MeetingHalfway
<1>17. CalledIn  BY DEF CalledIn
<1> QED  BY <1>8, <1>9, <1>10, <1>11, <1>12, <1>13, <1>14, <1>15, <1>16, <1>17 DEF Course

LEMMA CourseKept ==
  ASSUME TypeOK, Punctual, HeldInv, Course, Next, pc' # "over"
  PROVE  Course'
<1>1. UNCHANGED <<nat, faulty, outcome>>
  <2>1. CASE ClientStep /\ UNCHANGED extra
    BY <2>1 DEF ClientStep, SelectReturns, ListenTcp, T3TooSoon, LoopbackOut, LoopbackIn,
       Round, CheckTcp, NothingToCheck, ConnectRetried, ReplyReceived, RuntReceived,
       Goto, Die, Kernel, serverVars
  <2>2. CASE ServerStep /\ UNCHANGED <<clientVars, extra>>
    BY <2>2 DEF ServerStep, ServeTcp1, ServeTcp2, GoAhead, ReadTimesOut, BounceTcp,
       Premature, Signal, Uncork, Awaited, Kept2, Kept3, serverVars, clientVars
  <2>3. CASE NetStep /\ UNCHANGED <<serverVars, clientVars, extra>>
    BY <2>3 DEF NetStep, Handshake, CallArrives, CallAnswered, SimultaneousOpen, Opened,
       OpenedTwice, Hairpin, Deliver, Establish, serverVars, clientVars
  <2>4. CASE Tick  BY <2>4 DEF Tick, Older, TimersRun
  <2> QED  BY <2>1, <2>2, <2>3, <2>4 DEF Next, CallGivenUp, At, clientVars
<1>2. Shut' = Shut /\ Meeting' = Meeting  BY <1>1 DEF Shut, Meeting
<1>3. pc = "select" => ~timeout  BY DEF Course, InTime
<1>4. pc' = "select" => ~timeout'
  <2>1. CASE ClientStep /\ UNCHANGED extra
    BY <1>3, <2>1 DEF ClientStep, SelectReturns, ListenTcp, T3TooSoon, LoopbackOut, LoopbackIn,
       Round, CheckTcp, NothingToCheck, ConnectRetried, ReplyReceived, RuntReceived,
       Goto, Die, CheckedSocks, NextCall
  <2>2. CASE UNCHANGED clientVars  BY <1>3, <2>2 DEF clientVars
  <2>3. CASE Tick  BY <2>3 DEF Tick, At
  <2> QED  BY <2>1, <2>2, <2>3 DEF Next, CallGivenUp, At, clientVars
<1>5. InTime'
  BY <1>4, SegmentsStep, SocketsStep, HandlersStep DEF Course, InTime
<1>6. Calling' /\ Asking' /\ Hairpinning' /\ Addresses'
  BY CallingStep, AskingStep, HairpinningStep, AddressesStep DEF Course
<1>7. ASSUME faulty = 0
      PROVE  /\ Answering' /\ Reporting'
             /\ Shut => Refusing'
             /\ Meeting => MeetingHalfway'
             /\ nat.filter = "open" => CalledIn'
  BY <1>7, AnsweringStep, ReportingStep, RefusingStep, MeetingStep, CalledInStep DEF Course
<1> QED  BY <1>1, <1>2, <1>5, <1>6, <1>7 DEF Course

LEMMA CourseStutter == Course /\ UNCHANGED vars => Course'
BY DEF vars, netVars, serverVars, clientVars, Course, InTime, SegmentsInTime, SocketsInTime,
   HandlersInTime, Now, Calling, Asking, Unasked, HeldBack, Answering, Reporting, Hairpinning,
   Refusing, Shut, MeetingHalfway, Meeting, CalledIn, Addresses, Pub, UnderWay

(* The end of a run: natcheck dies of a refused connection, or the tries   *)
(* are over and everything that was to come has come.                      *)
LEMMA CourseEnds ==
  ASSUME TypeOK, Punctual, Course, Next, pc' = "over", pc # "over"
  PROVE  outcome' # "running" /\ Right'
<1>1. Known  BY TypesKnown
<1> USE <1>1 DEF Known
<1>2. /\ UNCHANGED <<nat, faulty, my, t3toosoon, tcploop>>
      /\ \/ Round /\ timeout /\ tries = NTRIES
         \/ \E s \in CheckedSocks : sock[s] = "wfds" /\ conn[s] = "refused" /\ outcome' = "died"
         \/ sock["tcp4"] = "wfds" /\ conn["tcp4"] = "refused" /\ outcome' = "died"
  <2>1. CASE ClientStep /\ UNCHANGED extra
    <3>1. CASE Round  BY <3>1 DEF Round, Goto, Kernel, serverVars
    <3>2. CASE LoopbackOut  BY <3>2 DEF LoopbackOut, Goto, Die, Kernel, serverVars
    <3>3. ASSUME NEW s \in CheckedSocks, CheckTcp(s)
          PROVE  /\ UNCHANGED <<nat, faulty, my, t3toosoon, tcploop>>
                 /\ sock[s] = "wfds" /\ conn[s] = "refused" /\ outcome' = "died"
      BY <3>3 DEF CheckedSocks, CheckTcp, NothingToCheck, ConnectRetried, ReplyReceived,
         RuntReceived, NextCall, Goto, Die, Kernel, serverVars
    <3> QED
      BY <2>1, <3>1, <3>2, <3>3
      DEF ClientStep, SelectReturns, ListenTcp, T3TooSoon, LoopbackIn, Goto
  <2>2. CASE Tick  BY <2>2 DEF Tick, At
  <2> QED  BY <2>1, <2>2 DEF Next, CallGivenUp, At, clientVars
<1>3. ASSUME NEW s \in CheckedSocks, sock[s] = "wfds", conn[s] = "refused"
      PROVE  s = "tcp3"
  BY <1>3 DEF Course, Hairpinning, CheckedSocks
<1>4. ASSUME NEW s \in CheckedSocks \cup {"tcp4"},
             sock[s] = "wfds", conn[s] = "refused", outcome' = "died"
      PROVE  outcome' # "running" /\ Right'
  <2>1. nat.hairpin = "reject" \/ (conn["tcp3"] = "refused" /\ sock["tcp3"] = "wfds")
    BY <1>2, <1>3, <1>4 DEF Course, Hairpinning
  <2>2. faulty = 0 => ~ConnectionsMade
    BY <2>1 DEF Course, Shut, Meeting, MeetingHalfway, CalledIn, ConnectionsMade
  <2> QED
    BY <1>2, <1>4, <2>2 DEF Right, OpenIsSoon, VerdictUnlessRefused, OtherVerdicts, Printed,
       ConnectionsMade
<1>5. CASE Round /\ timeout /\ tries = NTRIES
  <2>1. outcome' = IF my[1] = None \/ my[2] = None THEN "died" ELSE "verdict"
    BY <1>5 DEF Round, Goto
  <2>2. Now >= NTRIES  BY <1>5 DEF Now
  <2>3. \A s \in DOMAIN fly \ {"eof1", "eof2"} : Latest(s) > 8 * Delay + Wait
    BY <2>2 DEF Course, InTime, SegmentsInTime, Punctual, Latest, Now
  <2>4. DOMAIN fly \subseteq {"eof1", "eof2"}
    BY <2>3 DEF Latest
  <2>5. /\ \A s \in Sock : sock[s] = "wfds" => conn[s] \notin {"up", "refused"}
        /\ \A s \in Sock : sock[s] = "rfds" => inq[s] \notin {"reply", "loop"}
        /\ \A s \in In : conn[s] # "queued"
        /\ s3 \notin {"select", "sleep"} /\ (s3 = "await" => dst = "syn")
    BY <2>2 DEF Course, InTime, SocketsInTime, HandlersInTime, UpBy, DataBy, Punctual, Now
  <2>6. my[2] # None => (tcploop <=> nat.hairpin = "yes") /\ nat.hairpin # "reject"
    BY <2>4, <2>5 DEF Course, Hairpinning, Addresses, UnderWay
  <2>7. my[1] # None /\ my[2] # None => (my[1] = my[2] <=> ~nat.symmetric)
    BY DEF Course, Addresses, Pub, None
  <2>8. ASSUME faulty = 0
        PROVE  /\ my[1] # None /\ my[2] # None /\ ~Shut /\ my[3] # None
               /\ nat.filter = "open" => t3toosoon
    <3>1. my[1] # None  BY <2>4, <2>5, <2>8 DEF Course, Reporting, UnderWay
    <3>2. my[2] # None  BY <2>4, <2>5, <2>8 DEF Course, Answering, UnderWay
    <3>3. ~Shut  BY <2>4, <2>5, <2>8, <3>2 DEF Course, Refusing, UnderWay
    <3>4. nat.filter = "open" => t3toosoon /\ my[3] # None
      BY <2>8, <3>2 DEF Course, CalledIn, Addresses
    <3>5. Meeting => my[3] # None
      BY <2>4, <2>5, <2>8, <3>2 DEF Course, MeetingHalfway, UnderWay
    <3> QED  BY <3>1, <3>2, <3>3, <3>4, <3>5 DEF Shut, Meeting
  <2>9. OpenIsSoon'
    BY <1>2, <2>8 DEF OpenIsSoon, Filtered
  <2>10. VerdictUnlessRefused'
    BY <1>2, <2>1, <2>6, <2>8 DEF VerdictUnlessRefused, Printed, ConnectionsMade, Shut,
       SimultaneousOpenYes
  <2>11. OtherVerdicts'
    BY <1>2, <2>1, <2>6, <2>7 DEF OtherVerdicts, Printed, ConsistentTranslation
  <2> QED  BY <2>1, <2>9, <2>10, <2>11 DEF Right
<1> QED  BY <1>2, <1>4, <1>5

LEMMA RightFrame ==
  ASSUME UNCHANGED <<nat, faulty, clientVars>>, Right
  PROVE  Right'
BY DEF Right, OpenIsSoon, VerdictUnlessRefused, OtherVerdicts, Printed, Filtered,
   ConnectionsMade, SimultaneousOpenYes, ConsistentTranslation, clientVars

LEMMA RightKept ==
  ASSUME pc = "over", outcome # "running", Right, Next
  PROVE  pc' = "over" /\ outcome' # "running" /\ Right'
<1>1. UNCHANGED <<nat, faulty, clientVars>>
  <2>1. ~ ClientStep
    BY DEF ClientStep, SelectReturns, ListenTcp, T3TooSoon, LoopbackOut, LoopbackIn, Round,
       CheckTcp, NothingToCheck, ConnectRetried, ReplyReceived, RuntReceived, At, CheckedSocks
  <2>2. CASE ServerStep /\ UNCHANGED <<clientVars, extra>>
    BY <2>2 DEF ServerStep, ServeTcp1, ServeTcp2, GoAhead, ReadTimesOut, BounceTcp,
       Premature, Signal, Uncork, Awaited, Kept2, Kept3, serverVars
  <2>3. CASE NetStep /\ UNCHANGED <<serverVars, clientVars, extra>>
    BY <2>3 DEF NetStep, Handshake, CallArrives, CallAnswered, SimultaneousOpen, Opened,
       OpenedTwice, Hairpin, Deliver, Establish, serverVars
  <2>4. CASE Tick  BY <2>4 DEF Tick, At, Older, TimersRun, clientVars
  <2> QED  BY <2>1, <2>2, <2>3, <2>4 DEF Next, CallGivenUp, serverVars
<1>2. Right'  BY <1>1, RightFrame
<1> QED  BY <1>1, <1>2 DEF clientVars

(* The three verdicts together, of every behaviour of the TCP test.        *)
LEMMA VerdictsHold ==
  ASSUME Punctual
  PROVE  Spec => [](OpenIsSoon /\ VerdictUnlessRefused /\ OtherVerdicts)
<1>1. Init => VerdictInv
  BY InitType, CourseInit DEF VerdictInv, Init, ClientInit
<1>2. TypeOK /\ HeldInv /\ VerdictInv /\ [Next]_vars => VerdictInv'
  <2>1. SUFFICES ASSUME TypeOK, HeldInv, VerdictInv, [Next]_vars PROVE VerdictInv'
    OBVIOUS
  <2>2. CASE UNCHANGED vars
    BY <2>1, <2>2, CourseStutter, RightFrame
    DEF VerdictInv, vars, netVars, serverVars, clientVars
  <2>3. CASE Next /\ pc = "over"  BY <2>1, <2>3, RightKept DEF VerdictInv
  <2>4. CASE Next /\ pc # "over" /\ pc' = "over"
    BY <2>1, <2>4, CourseEnds DEF VerdictInv
  <2>5. CASE Next /\ pc # "over" /\ pc' # "over"
    BY <2>1, <2>5, CourseKept DEF VerdictInv
  <2> QED  BY <2>1, <2>2, <2>3, <2>4, <2>5
<1>3. VerdictInv => OpenIsSoon /\ VerdictUnlessRefused /\ OtherVerdicts
  BY DEF VerdictInv, Right, Course, OpenIsSoon, VerdictUnlessRefused, OtherVerdicts, Printed
<1> QED  BY <1>1, <1>2, <1>3, TcpTypes, HeldHolds, PTL DEF Spec

(* A translator that lets server 3's call through is reported as one that  *)
(* does, if the servers work.                                              *)
THEOREM FilteringIsReported ==
  ASSUME Punctual PROVE Spec => []OpenIsSoon
BY VerdictsHold, PTL

(* With working servers, natcheck prints its verdict unless a connection   *)
(* of its own is refused, and then it reports the simultaneous open.       *)
THEOREM VerdictIsReached ==
  ASSUME Punctual PROVE Spec => []VerdictUnlessRefused
BY VerdictsHold, PTL

(* What natcheck prints of mappings and hairpins is what the translator    *)
(* does, whether the servers work or not.                                  *)
THEOREM TranslationIsReported ==
  ASSUME Punctual PROVE Spec => []OtherVerdicts
BY VerdictsHold, PTL
=============================================================================
