------------------------------ MODULE NatNet -------------------------------
(***************************************************************************)
(* The network natcheck measures: the NAT in front of it, the TCP segments *)
(* under way and the kernels' connection states at both ends.  External:   *)
(* modelled from the calls natcheck.c and natserver.c make and the errno   *)
(* values they tell apart.  A segment is under way for at most Delay       *)
(* seconds.                                                                *)
(***************************************************************************)
EXTENDS Integers, Functions

CONSTANTS Delay, NatKinds

(* What the translator does with a connection nobody inside has asked for, *)
(* with one from inside to its own public address, and whether it gives a  *)
(* local port one public port per destination.                             *)
Nats == [filter : {"open", "drop", "reject"},
         hairpin : {"yes", "drop", "reject"},
         symmetric : BOOLEAN]
ASSUME NetAssumption == Delay \in Nat /\ NatKinds \subseteq Nats

(* "call": server 3's SYN to the client; "fin3": server 3 closes server    *)
(* 2's connection; "eof...": a server's process ends without an answer.    *)
Seg == {"syn1", "req1", "rep1", "eof1",
        "syn2", "req2", "rep2", "eof2",
        "bounce", "fin3", "call", "callack", "callrst", "rep3",
        "syn3", "ack3", "rst3", "syn4", "loop"}

Out == {"tcp1", "tcp2", "tcp3", "tcp4"}  \* sockets natcheck connects
In  == {"incb", "inloop"}                \* sockets natcheck accepts
Sock == Out \cup In
Conn == {"none", "syn", "up", "refused"}

VARIABLES
  nat,      \* the translator in front of natcheck
  fly,      \* the segments under way, each with its age in seconds
  conn,     \* the kernel's state of each socket of natcheck
  inq,      \* what each of them has received and not delivered
  dst       \* the kernel's state of server 3's socket to the client
netVars == <<nat, fly, conn, inq, dst>>

NetTypeOK ==
  /\ nat \in NatKinds
  /\ DOMAIN fly \subseteq Seg /\ \A s \in DOMAIN fly : fly[s] \in 0..Delay
  /\ conn \in [Sock -> Conn \cup {"queued"}]
  /\ inq \in [Sock -> {"none", "reply", "eof", "loop"}]
  /\ dst \in Conn

NetInit ==
  /\ nat \in NatKinds
  /\ fly = [s \in {"syn1", "syn2"} |-> 0]
  /\ conn = [s \in Sock |-> IF s \in {"tcp1", "tcp2"} THEN "syn" ELSE "none"]
  /\ inq = [s \in Sock |-> "none"]
  /\ dst = "none"

(* The address server n sees, and the one server 3 is told to call.        *)
Pub(n) == IF nat.symmetric THEN n ELSE 1

UnderWay(s) == s \in DOMAIN fly
Sent(f, S) == [s \in DOMAIN f \cup S |-> IF s \in DOMAIN f THEN f[s] ELSE 0]
Taken(f, s) == Restrict(f, DOMAIN f \ {s})
Send(S) == fly' = Sent(fly, S)
Receive(s, S) == UnderWay(s) /\ fly' = Sent(Taken(fly, s), S)

(* Server 3's connection is the client's already: the addresses are taken. *)
CalledBack == conn["incb"] # "none"

-----------------------------------------------------------------------------
Establish(s, t) == conn' = [conn EXCEPT ![s] = t] /\ UNCHANGED <<nat, inq, dst>>

(* Servers 1 and 2 listen: the handshake is one segment.                   *)
Handshake(seg, s) == Receive(seg, {}) /\ Establish(s, "up")

(* Server 3's SYN reaches the translator: an outgoing attempt of tcp3      *)
(* through the same mapping lets it in as much as a permissive filter      *)
(* does.  Inside, an attempt to server 3 takes it, else the listen socket. *)
Admits == nat.filter = "open" \/ (conn["tcp3"] # "none" /\ ~nat.symmetric)
CallArrives ==
  \/ /\ Admits /\ Receive("call", {"callack"})
     /\ IF conn["tcp3"] \in {"syn", "up"} THEN Establish("tcp3", "up")
                                        ELSE Establish("incb", "queued")
  \/ /\ ~Admits /\ Receive("call", IF nat.filter = "reject" THEN {"callrst"} ELSE {})
     /\ UNCHANGED <<nat, conn, inq, dst>>
CallAnswered(s, t) ==
  /\ Receive(s, {})
  /\ dst' = IF dst = "syn" THEN t ELSE dst
  /\ UNCHANGED <<nat, conn, inq>>

(* The client's SYN reaches server 3, which has no listening socket: it    *)
(* meets an attempt to the address it comes from, or is refused.           *)
Meets == dst \in {"syn", "up"} /\ ~nat.symmetric
SimultaneousOpen ==
  /\ Receive("syn3", IF Meets THEN {"ack3"} ELSE {"rst3"})
  /\ dst' = IF Meets THEN "up" ELSE dst
  /\ UNCHANGED <<nat, conn, inq>>
Opened(s, t) ==
  /\ Receive(s, {})
  /\ conn["tcp3"] = "syn" /\ Establish("tcp3", t)
OpenedTwice ==
  /\ Receive("ack3", {}) /\ conn["tcp3"] # "syn"
  /\ UNCHANGED <<nat, conn, inq, dst>>

(* natcheck's connection to its own public address.                        *)
Hairpin ==
  /\ Receive("syn4", {})
  /\ conn' = CASE nat.hairpin = "yes" -> [conn EXCEPT !["tcp4"] = "up", !["inloop"] = "queued"]
               [] nat.hairpin = "reject" -> [conn EXCEPT !["tcp4"] = "refused"]
               [] nat.hairpin = "drop" -> conn
  /\ UNCHANGED <<nat, inq, dst>>

(* Data and ends of stream; server 3's go to the socket it is connected to.*)
Deliver(seg, s, what) ==
  /\ Receive(seg, {})
  /\ inq' = [inq EXCEPT ![s] = what]
  /\ conn' = IF s = "tcp3" THEN [conn EXCEPT ![s] = "up"] ELSE conn
  /\ UNCHANGED <<nat, dst>>
Callee == IF CalledBack THEN "incb" ELSE "tcp3"

NetStep ==
  \/ Handshake("syn1", "tcp1")
  \/ Handshake("syn2", "tcp2")
  \/ CallArrives
  \/ CallAnswered("callack", "up")
  \/ CallAnswered("callrst", "refused")
  \/ SimultaneousOpen
  \/ Opened("ack3", "up")
  \/ Opened("rst3", "refused")
  \/ OpenedTwice
  \/ Hairpin
  \/ Deliver("rep1", "tcp1", "reply")
  \/ Deliver("eof1", "tcp1", "eof")
  \/ Deliver("rep2", "tcp2", "reply")
  \/ Deliver("eof2", "tcp2", "eof")
  \/ Deliver("rep3", Callee, "reply")
  \/ Deliver("loop", "inloop", "loop")

(* A second passes: everything under way gets older.                       *)
Older == /\ \A s \in DOMAIN fly : fly[s] < Delay
         /\ fly' = [s \in DOMAIN fly |-> fly[s] + 1]
         /\ UNCHANGED <<nat, conn, inq, dst>>
=============================================================================
