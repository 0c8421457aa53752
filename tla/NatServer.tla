----------------------------- MODULE NatServer ------------------------------
(***************************************************************************)
(* natserver, TCP: servetcp of servers 1 and 2 and bouncetcp of server 3.  *)
(* Each connection is handled by a process of its own, so a handler is a   *)
(* state (s2, s3) and the timer it waits under, in seconds.                *)
(***************************************************************************)
EXTENDS NatNet

CONSTANTS Wait,     \* bouncetcp's 5 seconds
          Timeout,  \* settimeouts' 20 seconds
          Faults    \* which server may fail: 0 for none
ASSUME ServerAssumption == /\ Wait \in Nat \ {0}
                           /\ Timeout \in Nat \ {0}
                           /\ Faults \subseteq 0..3

VARIABLES s2, s3, timer2, timer3,
          faulty    \* the server whose handler fails in this run
serverVars == <<s2, s3, timer2, timer3, faulty>>

ServerTypeOK ==
  /\ s2 \in {"accept", "wait3", "done"}
  /\ s3 \in {"accept", "select", "sleep", "await", "done"}
  /\ timer2 \in 0..Timeout /\ timer3 \in 0..Wait
  /\ faulty \in Faults

ServerInit == /\ s2 = "accept" /\ s3 = "accept" /\ timer2 = 0 /\ timer3 = 0
              /\ faulty \in Faults

Kept2 == UNCHANGED <<nat, conn, inq, dst, s3, timer3, faulty>>
Kept3 == UNCHANGED <<nat, conn, inq, s2, timer2, faulty>>

(* servetcp of server 1: the address the connection came from.  perrordie  *)
(* ends a handler without an answer.                                       *)
ServeTcp1 ==
  /\ Receive("req1", IF faulty = 1 THEN {"eof1"} ELSE {"rep1"})
  /\ UNCHANGED <<nat, conn, inq, dst, serverVars>>

(* Mutant: server 2 answers without waiting for server 3.                  *)
AnswersAtOnce ==
  /\ s2 = "accept" /\ Receive("req2", {"bounce", "rep2"})
  /\ s2' = "done" /\ UNCHANGED timer2 /\ Kept2
(* servetcp of server 2: the bounce request first, then the wait for       *)
(* server 3 to close.                                                      *)
ServeTcp2 ==
  /\ s2 = "accept"
  /\ \/ faulty # 2 /\ Receive("req2", {"bounce"}) /\ s2' = "wait3" /\ timer2' = Timeout
     \/ faulty = 2 /\ Receive("req2", {"eof2"}) /\ s2' = "done" /\ UNCHANGED timer2
  /\ Kept2
GoAhead ==
  /\ Receive("fin3", IF s2 = "wait3" THEN {"rep2"} ELSE {})
  /\ s2' = "done" /\ UNCHANGED timer2 /\ Kept2
ReadTimesOut ==
  /\ s2 = "wait3" /\ timer2 = 0 /\ Send({"eof2"})
  /\ s2' = "done" /\ UNCHANGED timer2 /\ Kept2

(* bouncetcp: the nonblocking connect to the client.  The handler of a     *)
(* failing server 3 exits before it, or its machine is gone.               *)
BounceTcp ==
  /\ s3 = "accept"
  /\ \/ faulty # 3 /\ Receive("bounce", {"call"})
        /\ s3' = "select" /\ timer3' = Wait /\ dst' = "syn"
     \/ /\ faulty = 3
        /\ Receive("bounce", {"fin3"}) \/ Receive("bounce", {})
        /\ s3' = "done" /\ UNCHANGED <<timer3, dst>>
  /\ Kept3

(* Mutant: no sleep after a premature connection.                          *)
UncorksAtOnce ==
  /\ s3 = "select"
  /\ \/ dst = "up" /\ Send({"rep3", "fin3"})
     \/ dst = "refused" /\ Send({"fin3"})
  /\ s3' = "done" /\ UNCHANGED <<timer3, dst>> /\ Kept3
(* The select of 5 seconds: a connection, or an error, is premature; write *)
(* fails on the error, and exit closes server 2's connection.              *)
Premature ==
  /\ s3 = "select"
  /\ \/ dst = "up" /\ Send({"rep3"}) /\ s3' = "sleep" /\ timer3' = Wait
     \/ dst = "refused" /\ Send({"fin3"}) /\ s3' = "done" /\ UNCHANGED timer3
  /\ UNCHANGED dst /\ Kept3
Signal ==
  /\ s3 = "select" /\ dst = "syn" /\ timer3 = 0 /\ Send({"fin3"})
  /\ s3' = "await" /\ UNCHANGED <<timer3, dst>> /\ Kept3
Uncork ==
  /\ s3 = "sleep" /\ timer3 = 0 /\ Send({"fin3"})
  /\ s3' = "done" /\ UNCHANGED <<timer3, dst>> /\ Kept3
(* The select without a time limit, and the write.                         *)
Awaited ==
  /\ s3 = "await"
  /\ \/ dst = "up" /\ Send({"rep3"})
     \/ dst = "refused" /\ UNCHANGED fly
  /\ s3' = "done" /\ UNCHANGED <<timer3, dst>> /\ Kept3

ServerStep == \/ ServeTcp1 \/ ServeTcp2 \/ GoAhead \/ ReadTimesOut
              \/ BounceTcp \/ Premature \/ Signal \/ Uncork \/ Awaited

(* A handler that waits for the clock alone, or for the other end.         *)
ServersWait ==
  /\ s2 = "wait3" => timer2 > 0
  /\ s3 = "select" => dst = "syn" /\ timer3 > 0
  /\ s3 = "sleep" => timer3 > 0
  /\ s3 = "await" => dst = "syn"
(* Mutant: a timer runs on below zero.                                     *)
RunsOn(t) == t - 1
Minus1(t) == IF t > 0 THEN t - 1 ELSE 0
TimersRun == timer2' = Minus1(timer2) /\ timer3' = Minus1(timer3) /\ UNCHANGED <<s2, s3, faulty>>
=============================================================================
