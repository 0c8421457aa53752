------------------------------- MODULE P2PNet -------------------------------
(***************************************************************************)
(* The UDP network and the address translators between the programs of     *)
(* P2P/: what proto.h fixes (the kinds of datagram and their sizes) and    *)
(* what the sockets calls of P2PServer.cpp and P2PClient.cpp rely on.      *)
(*                                                                         *)
(* An address stands for one socket, hence for one process: a client that  *)
(* exits and is started again is another Peer with the same name.          *)
(***************************************************************************)
EXTENDS Naturals, Sequences, SequencesExt

CONSTANTS
  Peer,        \* the addresses (ip, port) of the client processes
  Server,      \* the address of the server
  Name,        \* user names
  NameOf,      \* the name each client process is given by its user
  None,        \* "no peer", and the node that is read from a foreign datagram
  Open,        \* peers whose translator lets every datagram in
  InOrder,     \* TRUE: a path never reorders datagrams
  Lossy        \* TRUE: a path may lose datagrams

ASSUME AddressesDistinct == /\ Server \notin Peer /\ None \notin Peer
                            /\ None # Server
ASSUME NamesDistinct == Name \cap (Peer \cup {None}) = {}
ASSUME EveryPeerNamed == NameOf \in [Peer -> Name]
ASSUME NetFlags == /\ Open \subseteq Peer
                   /\ InOrder \in BOOLEAN /\ Lossy \in BOOLEAN

Addr == Peer \cup {Server}

VARIABLES
  up,          \* the addresses whose socket is open
  net,         \* net[s][d]: the datagrams on the path from s to d, oldest first
  hole         \* hole[p]: the addresses p has sent to, which its NAT lets in

netVars == <<up, net, hole>>

(* proto.h: requests to the server, its replies, and the peers' messages.  *)
(* "COUNT" is the bare int and "NODE" the bare stUserListNode of a reply,  *)
(* "BODY" the text that follows a P2PMESSAGE header, "ERROR" what a        *)
(* recvfrom that returns SOCKET_ERROR left behind.                         *)
Request == {"LOGIN", "LOGOUT", "P2PTRANS", "GETALLUSER"}
Reply   == {"GETALLUSER", "COUNT", "NODE", "P2PSOMEONEWANTTOCALLYOU"}
PeerMsg == {"P2PMESSAGE", "BODY", "P2PMESSAGEACK", "P2PTRASH"}

(* who: the user a request names, the peer a node or a call holds; num: a  *)
(* COUNT's value or the number of the message a BODY carries.              *)
Datagram == {m \in [kind : Request \cup Reply \cup PeerMsg,
                    who  : Peer \cup Name \cup {None},
                    num  : Nat] :
               m.kind \in {"NODE", "P2PSOMEONEWANTTOCALLYOU", "BODY"}
                 => m.who \in Peer}
Paths == [Addr -> [Addr -> Seq(Datagram)]]

Dgram(kind, who, num) == [kind |-> kind, who |-> who, num |-> num]

NetTypeOK == /\ up \in SUBSET Addr
             /\ net \in Paths
             /\ hole \in [Peer -> SUBSET Addr]

NetInit == /\ up = Addr
           /\ net = [s \in Addr |-> [d \in Addr |-> <<>>]]
           /\ hole = [p \in Peer |-> {}]

(* sendto: nothing reaches a socket that is closed; sending to d opens the *)
(* sender's own translator for what d answers.                             *)
Sent(n, s, d, ms) ==
  IF d \in up THEN [n EXCEPT ![s][d] = @ \o ms] ELSE n
Opened(s, ds) == [p \in Peer |-> IF p = s THEN hole[p] \cup ds ELSE hole[p]]

Passes(s, d) == \/ d \in {Server} \cup Open
                \/ d \in Peer /\ s \in hole[d]

(* The datagrams at d's socket that the next recvfrom may return.          *)
Receivable(s, d) ==
  IF Passes(s, d)
  THEN IF InOrder THEN DOMAIN net[s][d] \cap {1} ELSE DOMAIN net[s][d]
  ELSE {}

Taken(s, d, i) == [net EXCEPT ![s][d] = RemoveAt(@, i)]

(* A datagram is lost on a lossy path, or where the translator of its      *)
(* receiver has no hole for its sender; there too a path that never        *)
(* reorders hands them over in their order.                                *)
Drop(s, d, i) ==
  /\ i \in DOMAIN net[s][d]
  /\ Lossy \/ (~Passes(s, d) /\ (InOrder => i = 1))
  /\ net' = Taken(s, d, i)
  /\ UNCHANGED <<up, hole>>

(* The socket of a is closed: what was waiting in it is gone.              *)
Closed(n, a) == [s \in Addr |-> [d \in Addr |-> IF d = a THEN <<>> ELSE n[s][d]]]

Quiet == \A s, d \in Addr : net[s][d] = <<>>

=============================================================================
