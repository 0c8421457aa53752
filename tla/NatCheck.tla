------------------------------ MODULE NatCheck ------------------------------
(***************************************************************************)
(* natcheck, TCP: the main loop's select, the calls that follow each of    *)
(* its returns (listentcp, checktcp, checkloopback), and the verdict.      *)
(***************************************************************************)
EXTENDS NatServer

CONSTANT NTRIES
ASSUME TriesAssumption == NTRIES \in Nat \ {0}

VARIABLES
  pc,        \* the next call of the loop; "over" after die()
  tries,     \* i
  timeout,   \* select returned 0
  sock,      \* each socket variable: -1, open, or open and in an fd_set
  my,        \* myt1, myt2, myt3
  t3toosoon, tcploop,
  outcome    \* what natcheck has ended with
clientVars == <<pc, tries, timeout, sock, my, t3toosoon, tcploop, outcome>>

Calls == <<"listen", "tcp1", "tcp2", "tcp3", "incb", "soon", "loopback", "inloop", "round">>
None == 0

ClientTypeOK ==
  /\ pc \in {"select", "over"} \cup Range(Calls)
  /\ tries \in 1..NTRIES /\ timeout \in BOOLEAN
  /\ sock \in [Sock -> {"closed", "idle", "wfds", "rfds"}]
  /\ my \in [1..3 -> {None, 1, 2}]
  /\ t3toosoon \in BOOLEAN /\ tcploop \in BOOLEAN
  /\ outcome \in {"running", "died", "verdict"}

ClientInit ==
  /\ pc = "select" /\ tries = 1 /\ timeout = FALSE
  /\ sock = [s \in Sock |-> CASE s \in {"tcp1", "tcp2"} -> "wfds"
                              [] s \in {"tcp3", "tcp4"} -> "idle"
                              [] s \in In -> "closed"]
  /\ my = [n \in 1..3 |-> None]
  /\ t3toosoon = FALSE /\ tcploop = FALSE /\ outcome = "running"

At(c) == pc = c
Goto(c) == pc' = c /\ UNCHANGED <<tries, timeout, outcome>>
Die == pc' = "over" /\ outcome' = "died" /\ UNCHANGED <<tries, timeout>>
Kernel == <<nat, inq, dst, serverVars>>

Ready == \/ \E s \in In : conn[s] = "queued"
         \/ \E s \in Sock : sock[s] = "wfds" /\ conn[s] \in {"up", "refused"}
         \/ \E s \in Sock : sock[s] = "rfds" /\ inq[s] # "none"

SelectReturns ==
  /\ At("select") /\ Ready /\ Goto("listen")
  /\ UNCHANGED <<sock, my, t3toosoon, tcploop, fly, conn, Kernel>>

(* Only server 3 and natcheck itself connect to tcp0, once each: the       *)
(* branches that close a second connection are never taken.                *)
ListenTcp ==
  /\ At("listen") /\ Goto("tcp1")
  /\ sock' = [s \in Sock |-> IF conn[s] = "queued" THEN "rfds" ELSE sock[s]]
  /\ conn' = [s \in Sock |-> IF conn[s] = "queued" THEN "up" ELSE conn[s]]
  /\ UNCHANGED <<my, t3toosoon, tcploop, fly, Kernel>>

-----------------------------------------------------------------------------
(* checktcp(n, s), and the call after it.                                  *)
Servn(s) == CASE s = "tcp1" -> 1 [] s = "tcp2" -> 2 [] s \in {"tcp3", "incb"} -> 3
NextCall(s) == CASE s = "tcp1" -> "tcp2" [] s = "tcp2" -> "tcp3"
                 [] s = "tcp3" -> "incb" [] s = "incb" -> "soon"
CheckedSocks == {"tcp1", "tcp2", "tcp3", "incb"}

NothingToCheck(s) ==
  /\ At(s)
  /\ \/ sock[s] \in {"closed", "idle"}
     \/ sock[s] = "wfds" /\ conn[s] = "syn"
     \/ sock[s] = "rfds" /\ inq[s] = "none"
  /\ Goto(NextCall(s))
  /\ UNCHANGED <<sock, my, t3toosoon, tcploop, fly, conn, Kernel>>

ConnectRetried(s) ==
  /\ At(s) /\ sock[s] = "wfds"
  /\ \/ /\ conn[s] = "up" /\ Goto(NextCall(s))
        /\ sock' = [sock EXCEPT ![s] = "rfds"]
        /\ Send(CASE s = "tcp1" -> {"req1"} [] s = "tcp2" -> {"req2"} [] s \in {"tcp3", "incb"} -> {})
     \/ conn[s] = "refused" /\ Die /\ UNCHANGED <<sock, fly>>
  /\ UNCHANGED <<my, t3toosoon, tcploop, conn, Kernel>>

(* Mutant: tcp3 is not put into wfds.                                      *)
ForgetsTcp3(s) ==
  IF s = "tcp2" /\ my[2] = None
  THEN /\ sock' = [sock EXCEPT !["tcp2"] = "closed", !["tcp4"] = "wfds"]
       /\ conn' = [conn EXCEPT !["tcp4"] = "syn", !["tcp3"] = IF CalledBack THEN @ ELSE "syn"]
       /\ Send({"syn4"} \cup IF CalledBack THEN {} ELSE {"syn3"})
  ELSE sock' = [sock EXCEPT ![s] = "closed"] /\ UNCHANGED <<conn, fly>>
(* Server 2's reply sets off the connection to server 3, unless server 3's *)
(* own is there (EADDRINUSE), and the one to the reported address.         *)
ConnectOut(s) ==
  IF s = "tcp2" /\ my[2] = None
  THEN /\ sock' = [sock EXCEPT !["tcp2"] = "closed", !["tcp4"] = "wfds",
                               !["tcp3"] = IF CalledBack THEN @ ELSE "wfds"]
       /\ conn' = [conn EXCEPT !["tcp4"] = "syn", !["tcp3"] = IF CalledBack THEN @ ELSE "syn"]
       /\ Send({"syn4"} \cup IF CalledBack THEN {} ELSE {"syn3"})
  ELSE sock' = [sock EXCEPT ![s] = "closed"] /\ UNCHANGED <<conn, fly>>
(* Server 3 was told the address server 2 saw.                             *)
Reported(s) == Pub(IF s = "tcp1" THEN 1 ELSE 2)
ReplyReceived(s) ==
  /\ At(s) /\ sock[s] = "rfds" /\ inq[s] = "reply"
  /\ my' = [my EXCEPT ![Servn(s)] = IF @ = None THEN Reported(s) ELSE @]
  /\ ConnectOut(s) /\ Goto(NextCall(s))
  /\ UNCHANGED <<t3toosoon, tcploop, Kernel>>
(* Mutant: a socket at its end of stream stays in rfds.                    *)
RuntKept(s) ==
  /\ At(s) /\ sock[s] = "rfds" /\ inq[s] = "eof" /\ Goto(NextCall(s))
  /\ UNCHANGED <<sock, my, t3toosoon, tcploop, fly, conn, Kernel>>
(* A runt, as an end of stream is: closeit.                                *)
RuntReceived(s) ==
  /\ At(s) /\ sock[s] = "rfds" /\ inq[s] = "eof"
  /\ sock' = [sock EXCEPT ![s] = "closed"] /\ Goto(NextCall(s))
  /\ UNCHANGED <<my, t3toosoon, tcploop, fly, conn, Kernel>>

CheckTcp(s) == NothingToCheck(s) \/ ConnectRetried(s) \/ ReplyReceived(s) \/ RuntReceived(s)

-----------------------------------------------------------------------------
(* Mutant: any callback counts.                                            *)
AnyCallback ==
  /\ At("soon") /\ Goto("loopback")
  /\ t3toosoon' = (t3toosoon \/ my[3] # None)
  /\ UNCHANGED <<sock, my, tcploop, fly, conn, Kernel>>
(* A callback from server 3 before the response from server 2.             *)
T3TooSoon ==
  /\ At("soon") /\ Goto("loopback")
  /\ t3toosoon' = (t3toosoon \/ (my[3] # None /\ my[2] = None))
  /\ UNCHANGED <<sock, my, tcploop, fly, conn, Kernel>>

(* Mutant: the socket is closed before the loopback request is sent.       *)
ClosedUnsent ==
  /\ At("loopback")
  /\ \/ /\ sock["tcp4"] = "wfds" /\ conn["tcp4"] = "up"
        /\ Goto("inloop") /\ sock' = [sock EXCEPT !["tcp4"] = "closed"]
     \/ /\ sock["tcp4"] = "wfds" /\ conn["tcp4"] = "refused"
        /\ Die /\ UNCHANGED sock
     \/ /\ sock["tcp4"] # "wfds" \/ conn["tcp4"] = "syn"
        /\ Goto("inloop") /\ UNCHANGED sock
  /\ UNCHANGED <<my, t3toosoon, tcploop, fly, conn, Kernel>>
(* checkloopback: the outgoing connection, then the incoming one.          *)
LoopbackOut ==
  /\ At("loopback")
  /\ \/ /\ sock["tcp4"] = "wfds" /\ conn["tcp4"] = "up"
        /\ Goto("inloop") /\ Send({"loop"}) /\ sock' = [sock EXCEPT !["tcp4"] = "closed"]
     \/ /\ sock["tcp4"] = "wfds" /\ conn["tcp4"] = "refused"
        /\ Die /\ UNCHANGED <<sock, fly>>
     \/ /\ sock["tcp4"] # "wfds" \/ conn["tcp4"] = "syn"
        /\ Goto("inloop") /\ UNCHANGED <<sock, fly>>
  /\ UNCHANGED <<my, t3toosoon, tcploop, conn, Kernel>>
LoopbackIn ==
  /\ At("inloop") /\ Goto("round")
  /\ IF sock["inloop"] = "rfds" /\ inq["inloop"] # "none"
     THEN tcploop' = TRUE /\ sock' = [sock EXCEPT !["inloop"] = "closed"]
     ELSE UNCHANGED <<sock, tcploop>>
  /\ UNCHANGED <<my, t3toosoon, fly, conn, Kernel>>

(* while (!timeout), the next try, and after the last one the verdict.     *)
Round ==
  /\ At("round")
  /\ \/ ~timeout /\ Goto("select")
     \/ /\ timeout /\ tries < NTRIES /\ tries' = tries + 1
        /\ pc' = "select" /\ timeout' = FALSE /\ UNCHANGED outcome
     \/ /\ timeout /\ tries = NTRIES /\ pc' = "over" /\ UNCHANGED <<tries, timeout>>
        /\ outcome' = IF my[1] = None \/ my[2] = None THEN "died" ELSE "verdict"
  /\ UNCHANGED <<sock, my, t3toosoon, tcploop, fly, conn, Kernel>>

ClientStep == \/ SelectReturns \/ ListenTcp \/ T3TooSoon
              \/ LoopbackOut \/ LoopbackIn \/ Round
              \/ \E s \in CheckedSocks : CheckTcp(s)

(* What natcheck prints.                                                   *)
Printed == outcome = "verdict"
ConsistentTranslation == my[1] = my[2]
SimultaneousOpenYes == my[3] # None
Filtered == ~t3toosoon
=============================================================================
