----------------------------- MODULE P2PProofs ------------------------------
(***************************************************************************)
(* Theorems about P2P: its types, that the server's list is the directory  *)
(* of P2PDirectory when no two processes have the same name, and that no   *)
(* answer is counted twice.                                                *)
(***************************************************************************)
EXTENDS P2P, SequenceTheorems, FiniteSetTheorems, TLAPS

-----------------------------------------------------------------------------
(***************************************************************************)
(* Removing from and appending to a sequence.                              *)
(***************************************************************************)
(* Removing a position shifts what follows it.                             *)
LEMMA RemoveAtShifts ==
  ASSUME NEW S, NEW q \in Seq(S), NEW i \in DOMAIN q
  PROVE  /\ RemoveAt(q, i) \in Seq(S)
         /\ Len(RemoveAt(q, i)) = Len(q) - 1
         /\ \A j \in 1..Len(q)-1 :
              RemoveAt(q, i)[j] = IF j < i THEN q[j] ELSE q[j+1]
<1>1. i \in 1..Len(q) /\ Len(q) \in Nat
  BY LenProperties
<1> DEFINE l == SubSeq(q, 1, i-1)
           r == SubSeq(q, i+1, Len(q))
<1>2. /\ l \in Seq(S) /\ Len(l) = i-1
      /\ \A j \in 1..i-1 : l[j] = q[j]
  BY <1>1, SubSeqProperties, ElementOfSeq, SMTT(30)
<1>3. /\ r \in Seq(S) /\ Len(r) = Len(q)-i
      /\ \A j \in 1..Len(q)-i : r[j] = q[i+j]
  BY <1>1, SubSeqProperties, ElementOfSeq, SMTT(30)
<1> HIDE DEF l, r
<1>4. /\ l \o r \in Seq(S)
      /\ Len(l \o r) = Len(l) + Len(r)
      /\ \A j \in 1..Len(l)+Len(r) :
           (l \o r)[j] = IF j <= Len(l) THEN l[j] ELSE r[j - Len(l)]
  BY <1>2, <1>3, ConcatProperties
<1>5. RemoveAt(q, i) = l \o r
  BY DEF RemoveAt, l, r
<1>6. Len(l \o r) = Len(q) - 1
  BY <1>1, <1>2, <1>3, <1>4
<1>7. ASSUME NEW j \in 1..Len(q)-1
      PROVE  (l \o r)[j] = IF j < i THEN q[j] ELSE q[j+1]
  <2>1. j \in 1..Len(l)+Len(r)
    BY <1>1, <1>2, <1>3
  <2>2. CASE j < i
    BY <1>1, <1>2, <1>4, <2>1, <2>2
  <2>3. CASE j >= i
    <3>1. j - Len(l) \in 1..Len(q)-i /\ ~(j <= Len(l)) /\ i + (j - Len(l)) = j+1
      BY <1>1, <1>2, <2>3
    <3> QED
      BY <1>1, <1>3, <1>4, <2>1, <2>3, <3>1
  <2>4. j < i \/ j >= i
    BY <1>1
  <2> QED
    BY <2>2, <2>3, <2>4
<1> QED
  BY <1>4, <1>5, <1>6, <1>7

(* What is left after a removal was there before it.                       *)
LEMMA RemoveAtRange ==
  ASSUME NEW S, NEW q \in Seq(S), NEW i \in DOMAIN q
  PROVE  Range(RemoveAt(q, i)) \subseteq Range(q)
<1>1. DOMAIN q = 1..Len(q) /\ Len(q) \in Nat
  BY LenProperties
<1>2. DOMAIN RemoveAt(q, i) = 1..Len(q)-1
  BY RemoveAtShifts, LenProperties
<1>3. \A j \in 1..Len(q)-1 : \E k \in 1..Len(q) : RemoveAt(q, i)[j] = q[k]
  <2> SUFFICES ASSUME NEW j \in 1..Len(q)-1
               PROVE  \E k \in 1..Len(q) : RemoveAt(q, i)[j] = q[k]
    OBVIOUS
  <2>1. j \in 1..Len(q) /\ j+1 \in 1..Len(q)
    BY <1>1
  <2>2. RemoveAt(q, i)[j] = IF j < i THEN q[j] ELSE q[j+1]
    BY RemoveAtShifts
  <2> QED
    BY <2>1, <2>2
<1> QED
  BY <1>1, <1>2, <1>3 DEF Range

(* From a list without duplicates a removal takes exactly one member out.  *)
LEMMA RemoveAtUnique ==
  ASSUME NEW S, NEW q \in Seq(S), NEW i \in DOMAIN q,
         \A j, k \in DOMAIN q : q[j] = q[k] => j = k
  PROVE  /\ Range(RemoveAt(q, i)) = Range(q) \ {q[i]}
         /\ \A j, k \in DOMAIN RemoveAt(q, i) :
              RemoveAt(q, i)[j] = RemoveAt(q, i)[k] => j = k
<1> DEFINE t == RemoveAt(q, i)
<1>1. DOMAIN q = 1..Len(q) /\ Len(q) \in Nat
  BY LenProperties
<1>2. /\ DOMAIN t = 1..Len(q)-1
      /\ \A j \in 1..Len(q)-1 : t[j] = IF j < i THEN q[j] ELSE q[j+1]
  <2>1. /\ t \in Seq(S) /\ Len(t) = Len(q)-1
        /\ \A j \in 1..Len(q)-1 : t[j] = IF j < i THEN q[j] ELSE q[j+1]
    BY RemoveAtShifts
  <2> QED
    BY <2>1, LenProperties
<1> HIDE DEF t
<1>3. Range(t) \subseteq Range(q) \ {q[i]}
  BY <1>1, <1>2 DEF Range
<1>4. ASSUME NEW x \in Range(q) \ {q[i]} PROVE x \in Range(t)
  <2>1. PICK j \in 1..Len(q) : x = q[j] /\ j # i
    BY <1>1, <1>4 DEF Range
  <2>2. CASE j < i
    BY <1>1, <1>2, <2>1, <2>2 DEF Range
  <2>3. CASE j > i
    <3>1. j-1 \in 1..Len(q)-1 /\ t[j-1] = q[j]
      BY <1>1, <1>2, <2>1, <2>3
    <3> QED
      BY <1>2, <2>1, <3>1 DEF Range
  <2> QED
    BY <1>1, <2>1, <2>2, <2>3
<1>5. \A j, k \in DOMAIN t : t[j] = t[k] => j = k
  BY <1>1, <1>2
<1> QED
  BY <1>3, <1>4, <1>5 DEF t

(* Appending adds one member.                                              *)
LEMMA AppendRange ==
  ASSUME NEW S, NEW q \in Seq(S), NEW e \in S
  PROVE  Range(Append(q, e)) = Range(q) \cup {e}
BY AppendProperties, LenProperties, SMTT(30) DEF Range

-----------------------------------------------------------------------------
(* The network: what sending and receiving leave on the paths.             *)

(* A path keeps what it had and gains at most what was sent on it.         *)
LEMMA SentPaths ==
  ASSUME NEW n \in Paths, NEW s \in Addr, NEW d, NEW ms \in Seq(Datagram),
         up \in SUBSET Addr
  PROVE  /\ Sent(n, s, d, ms) \in Paths
         /\ \A x, y \in Addr :
              Sent(n, s, d, ms)[x][y] = IF x = s /\ y = d /\ d \in up
                                        THEN n[x][y] \o ms ELSE n[x][y]
<1>1. CASE d \notin up
  BY <1>1 DEF Sent
<1>2. CASE d \in up
  <2>1. d \in Addr /\ n[s][d] \in Seq(Datagram)
    BY <1>2 DEF Paths
  <2>2. n[s][d] \o ms \in Seq(Datagram)
    BY <2>1, ConcatProperties
  <2>3. Sent(n, s, d, ms) = [n EXCEPT ![s] = [n[s] EXCEPT ![d] = n[s][d] \o ms]]
    BY <1>2, <2>1 DEF Sent, Paths
  <2> QED
    BY <1>2, <2>1, <2>2, <2>3, SMTT(30) DEF Paths
<1> QED
  BY <1>1, <1>2

LEMMA TakenPaths ==
  ASSUME net \in Paths, NEW s \in Addr, NEW d \in Addr, NEW i \in DOMAIN net[s][d]
  PROVE  /\ Taken(s, d, i) \in Paths
         /\ \A x, y \in Addr : Taken(s, d, i)[x][y] =
              IF x = s /\ y = d THEN RemoveAt(net[x][y], i) ELSE net[x][y]
         /\ net[s][d][i] \in Datagram
<1>1. net[s][d] \in Seq(Datagram)
  BY DEF Paths
<1>2. RemoveAt(net[s][d], i) \in Seq(Datagram)
  BY <1>1, RemoveAtShifts
<1>3. Taken(s, d, i) = [net EXCEPT ![s] = [net[s] EXCEPT ![d] = RemoveAt(net[s][d], i)]]
  BY DEF Taken, Paths
<1>4. net[s][d][i] \in Datagram
  BY <1>1, ElementOfSeq, LenProperties
<1> QED
  BY <1>2, <1>3, <1>4, SMTT(30) DEF Paths

LEMMA ClosedPaths ==
  ASSUME NEW n \in Paths, NEW a
  PROVE  /\ Closed(n, a) \in Paths
         /\ \A x, y \in Addr :
              Closed(n, a)[x][y] = IF y = a THEN <<>> ELSE n[x][y]
BY EmptySeq DEF Paths, Closed

(* The datagrams the programs send are datagrams.                          *)
LEMMA DgramType ==
  ASSUME NEW kind \in Request \cup Reply \cup PeerMsg,
         NEW who \in Peer \cup Name \cup {None}, NEW num \in Nat,
         kind \in {"NODE", "P2PSOMEONEWANTTOCALLYOU", "BODY"} => who \in Peer
  PROVE  /\ Dgram(kind, who, num) \in Datagram
         /\ Dgram(kind, who, num).kind = kind
         /\ Dgram(kind, who, num).who = who
         /\ Dgram(kind, who, num).num = num
BY DEF Dgram, Datagram

LEMMA ListingType ==
  ASSUME NEW l \in Seq(Peer)
  PROVE  Listing(l) \in Seq(Datagram)
<1> DEFINE nodes == [i \in DOMAIN l |-> Dgram("NODE", l[i], 0)]
<1>1. DOMAIN l = 1..Len(l) /\ Len(l) \in Nat
  BY LenProperties
<1>2. \A i \in 1..Len(l) : l[i] \in Peer
  BY ElementOfSeq
<1>3. \A i \in 1..Len(l) : Dgram("NODE", l[i], 0) \in Datagram
  BY <1>2, DgramType DEF Reply
<1>4. nodes \in [1..Len(l) -> Datagram]
  BY <1>1, <1>3
<1>5. nodes \in Seq(Datagram)
  BY <1>1, <1>4, SeqDef
<1>6. Dgram("COUNT", None, Len(l)) \in Datagram
  BY <1>1, DgramType DEF Reply
<1>7. <<Dgram("COUNT", None, Len(l))>> \in Seq(Datagram)
  BY <1>6
<1> HIDE DEF nodes
<1> QED
  BY <1>5, <1>7, ConcatProperties DEF Listing, nodes

-----------------------------------------------------------------------------
(* Types.                                                                  *)

(* In the retry loop the target is known, and while a round is under way   *)
(* it is not the last plus one: what keeps retry within MAXRETRY.          *)
RoundInv ==
  \A c \in Peer :
    /\ pc[c] \in {"send", "text", "poll", "lastsleep", "pause"} => target[c] \in Peer
    /\ pc[c] \in {"text", "poll", "lastsleep", "pause"} => retry[c] < MAXRETRY
TypeInv == TypeOK /\ RoundInv

LEMMA TransmitType ==
  ASSUME NetTypeOK, NEW c \in Peer, NEW d \in Addr, NEW ms \in Seq(Datagram),
         Transmit(c, d, ms)
  PROVE  NetTypeOK'
<1>1. net' \in Paths
  BY SentPaths DEF NetTypeOK, Transmit, Addr
<1>2. hole' \in [Peer -> SUBSET Addr]
  BY DEF NetTypeOK, Transmit, Opened
<1> QED
  BY <1>1, <1>2 DEF NetTypeOK, Transmit

(* What a round sends to the target: the header or the text.               *)
LEMMA RoundSends ==
  ASSUME TypeInv, NEW c \in Peer, SendHeader(c) \/ SendText(c)
  PROVE  \E m \in Datagram : /\ m.kind \in {"P2PMESSAGE", "BODY"}
                              /\ <<m>> \in Seq(Datagram)
                              /\ Transmit(c, target[c], <<m>>)
<1>1. sends[c] \in Nat
  BY DEF TypeInv, TypeOK, ClientTypeOK
<1>2. /\ Dgram("P2PMESSAGE", None, 0) \in Datagram
      /\ Dgram("P2PMESSAGE", None, 0).kind = "P2PMESSAGE"
  BY DgramType DEF PeerMsg
<1>3. /\ Dgram("BODY", c, sends[c]) \in Datagram
      /\ Dgram("BODY", c, sends[c]).kind = "BODY"
  BY <1>1, DgramType DEF PeerMsg
<1>4. CASE SendHeader(c)
  <2> DEFINE m == Dgram("P2PMESSAGE", None, 0)
  <2>1. Transmit(c, target[c], <<m>>)
    BY <1>4 DEF SendHeader
  <2>2. m \in Datagram /\ m.kind = "P2PMESSAGE"
    BY <1>2
  <2> HIDE DEF m
  <2> QED  BY <2>1, <2>2
<1>5. CASE SendText(c)
  <2> DEFINE m == Dgram("BODY", c, sends[c])
  <2>1. Transmit(c, target[c], <<m>>)
    BY <1>5 DEF SendText
  <2>2. m \in Datagram /\ m.kind = "BODY"
    BY <1>3
  <2> HIDE DEF m
  <2> QED  BY <2>1, <2>2
<1> QED  BY <1>4, <1>5

LEMMA ServerTypes ==
  ASSUME TypeInv, NEW c \in Peer, ServerNext(c), UNCHANGED clientVars
  PROVE  TypeInv'
<1> PICK i \in Receivable(c, Server) :
          \/ Login(c, i) \/ Logout(c, i) \/ P2PTrans(c, i)
          \/ GetAllUser(c, i) \/ ServerIgnores(c, i)
  BY DEF ServerNext
<1>1. i \in DOMAIN net[c][Server]
  BY DEF Receivable
<1>2. /\ c \in Addr /\ Server \in Addr /\ up \in SUBSET Addr
      /\ net \in Paths /\ hole \in [Peer -> SUBSET Addr]
      /\ ClientList \in Seq(Peer)
  BY DEF TypeInv, TypeOK, NetTypeOK, ServerTypeOK, Addr
<1>3. /\ Taken(c, Server, i) \in Paths
      /\ net[c][Server][i] \in Datagram
  BY <1>1, <1>2, TakenPaths
<1>4. ClientTypeOK' /\ RoundInv'
  BY DEF TypeInv, TypeOK, ClientTypeOK, RoundInv, clientVars, threadVars,
         sendVars, userVars, history
<1>5. NetTypeOK' /\ ServerTypeOK'
  <2>1. CASE Login(c, i)
    <3>1. ClientList' \in Seq(Peer)
      BY <1>2, <2>1, AppendProperties DEF Login
    <3>2. Listing(ClientList') \in Seq(Datagram)
      BY <3>1, ListingType
    <3>3. net' \in Paths
      BY <1>2, <1>3, <2>1, <3>2, SentPaths DEF Login
    <3> QED
      BY <1>2, <2>1, <3>1, <3>3 DEF Login, NetTypeOK, ServerTypeOK
  <2>2. CASE Logout(c, i)
    <3>2. ClientList' \in Seq(Peer)
      BY <1>2, <2>2, RemoveAtShifts DEF Logout
    <3> QED
      BY <1>2, <1>3, <2>2, <3>2 DEF Logout, NetTypeOK, ServerTypeOK
  <2>3. CASE P2PTrans(c, i)
    <3> DEFINE call == <<Dgram("P2PSOMEONEWANTTOCALLYOU", c, 0)>>
               found == Matches(ClientList, net[c][Server][i].who)
    <3>1. call \in Seq(Datagram)
      <4>1. Dgram("P2PSOMEONEWANTTOCALLYOU", c, 0) \in Datagram
        BY DgramType DEF Reply
      <4> QED
        BY <4>1
    <3>2. net' \in Paths
      <4>1. CASE found # {}
        <5>1. PICK k \in DOMAIN ClientList :
                net' = Sent(Taken(c, Server, i), Server, ClientList[k], call)
          BY <2>3, <4>1 DEF P2PTrans
        <5> HIDE DEF call
        <5> QED
          BY <1>2, <1>3, <3>1, <5>1, SentPaths
      <4>2. CASE found = {}
        BY <1>2, <2>3, <4>2, ClosedPaths DEF P2PTrans, NetTypeOK
      <4> QED
        BY <4>1, <4>2
    <3>3. up' \in SUBSET Addr
      BY <1>2, <2>3 DEF P2PTrans
    <3> QED
      BY <1>2, <2>3, <3>2, <3>3 DEF P2PTrans, NetTypeOK, ServerTypeOK
  <2>4. CASE GetAllUser(c, i)
    <3>1. <<Dgram("GETALLUSER", None, 0)>> \in Seq(Datagram)
      BY DgramType DEF Reply
    <3>2. <<Dgram("GETALLUSER", None, 0)>> \o Listing(ClientList) \in Seq(Datagram)
      BY <1>2, <3>1, ListingType, ConcatProperties
    <3>3. net' \in Paths
      BY <1>2, <1>3, <2>4, <3>2, SentPaths DEF GetAllUser
    <3> QED
      BY <1>2, <2>4, <3>3 DEF GetAllUser, NetTypeOK, ServerTypeOK
  <2>5. CASE ServerIgnores(c, i)
    BY <1>2, <1>3, <2>5 DEF ServerIgnores, NetTypeOK, ServerTypeOK
  <2> QED
    BY <2>1, <2>2, <2>3, <2>4, <2>5
<1> QED
  BY <1>4, <1>5 DEF TypeInv, TypeOK

(* The main thread and the user's commands.                                *)
LEMMA MainTypes ==
  ASSUME TypeInv, NEW c \in Peer, Command(c) \/ Main(c), UNCHANGED ClientList
  PROVE  TypeInv'
<1> USE DEF At, Goto, RoundInv, ClientTypeOK, MainPc, history, userVars,
            sendVars, threadVars
<1>1. /\ NetTypeOK /\ ServerTypeOK /\ ClientTypeOK /\ RoundInv
      /\ c \in Addr /\ Server \in Addr /\ Peer \subseteq Addr
      /\ up \in SUBSET Addr /\ net \in Paths /\ hole \in [Peer -> SUBSET Addr]
      /\ MAXRETRY \in Nat \ {0}
  BY ClientBounds DEF TypeInv, TypeOK, NetTypeOK, Addr
<1>2. ServerTypeOK'
  BY <1>1 DEF ServerTypeOK
<1>3. CASE SendLogin(c)
  <2>1. Dgram("LOGIN", NameOf[c], 0) \in Datagram
    BY EveryPeerNamed, DgramType DEF Request
  <2>2. NetTypeOK'
    <3>1. <<Dgram("LOGIN", NameOf[c], 0)>> \in Seq(Datagram)
      BY <2>1
    <3> QED
      BY <1>1, <1>3, <3>1, TransmitType DEF SendLogin
  <2>3. ClientTypeOK' /\ RoundInv'
    BY <1>1, <1>3 DEF SendLogin
  <2> QED
    BY <1>2, <2>2, <2>3 DEF TypeInv, TypeOK
<1>4. CASE Exit(c)
  <2> DEFINE n == Sent(net, c, Server, <<Dgram("LOGOUT", NameOf[c], 0)>>)
  <2>1. Dgram("LOGOUT", NameOf[c], 0) \in Datagram
    BY EveryPeerNamed, DgramType DEF Request
  <2>2. n \in Paths
    <3>1. <<Dgram("LOGOUT", NameOf[c], 0)>> \in Seq(Datagram)
      BY <2>1
    <3> QED
      BY <1>1, <3>1, SentPaths
  <2> HIDE DEF n
  <2>3. NetTypeOK'
    BY <1>1, <1>4, <2>2, ClosedPaths DEF Exit, Terminate, Opened, NetTypeOK, n
  <2>4. ClientTypeOK' /\ RoundInv'
    BY <1>1, <1>4 DEF Exit, Terminate, RecvPc
  <2> QED
    BY <1>2, <2>3, <2>4 DEF TypeInv, TypeOK
<1>5. CASE GetUsers(c)
  <2>1. Dgram("GETALLUSER", None, 0) \in Datagram
    BY DgramType DEF Request
  <2>2. NetTypeOK'
    <3>1. <<Dgram("GETALLUSER", None, 0)>> \in Seq(Datagram)
      BY <2>1
    <3> QED
      BY <1>1, <1>5, <3>1, TransmitType DEF GetUsers
  <2>3. getus' \in [Peer -> Nat]
    BY <1>1, <1>5 DEF GetUsers
  <2>4. ClientTypeOK' /\ RoundInv'
    BY <1>1, <1>5, <2>3 DEF GetUsers
  <2> QED
    BY <1>2, <2>2, <2>4 DEF TypeInv, TypeOK
<1>6. ASSUME NEW name \in Name \ {NameOf[c]}, SendCommand(c, name)
      PROVE  TypeInv'
  <2>1. NetTypeOK'
    BY <1>1, <1>6 DEF SendCommand, netVars, NetTypeOK
  <2>2. sends' \in [Peer -> Nat]
    BY <1>1, <1>6 DEF SendCommand
  <2>3. ClientTypeOK' /\ RoundInv'
    BY <1>1, <1>6, <2>2 DEF SendCommand
  <2> QED
    BY <1>2, <2>1, <2>3 DEF TypeInv, TypeOK
<1>7. CASE FindUser(c)
  <2>1. NetTypeOK'
    BY <1>1, <1>7 DEF FindUser, netVars, NetTypeOK
  <2>2. \A k \in DOMAIN list[c] : list[c][k] \in Peer \cup {None}
    BY <1>1, LenProperties, ElementOfSeq
  <2>3. PICK k \in Matching(c) : target' = [target EXCEPT ![c] = list[c][k]]
    BY <1>7 DEF FindUser
  <2>4. list[c][k] \in Peer
    BY <2>2 DEF Matching
  <2>5. target' \in [Peer -> Peer \cup {None}] /\ target'[c] \in Peer
    BY <1>1, <2>3, <2>4
  <2>6. retry' \in [Peer -> 0..MAXRETRY]
    <3>1. 0 \in 0..MAXRETRY
      BY <1>1
    <3>2. retry' = [retry EXCEPT ![c] = 0]
      BY <1>7 DEF FindUser
    <3> QED
      BY <1>1, <3>1, <3>2
  <2>7. pc' = [pc EXCEPT ![c] = "send"]
    BY <1>7 DEF FindUser
  <2>10. UNCHANGED <<rpc, list, left, RecvedACK, wanted, sends, getus, shown, eaten, okays>>
    BY <1>7 DEF FindUser
  <2>8. ClientTypeOK'
    BY <1>1, <2>5, <2>6, <2>7, <2>10
  <2>9. RoundInv'
    BY <1>1, <1>7, <2>3, <2>4, <2>7 DEF FindUser
  <2> QED
    BY <1>2, <2>1, <2>8, <2>9 DEF TypeInv, TypeOK
<1>14. CASE NotFound(c)
  <2>1. NetTypeOK'
    BY <1>1, <1>14 DEF NotFound, netVars, NetTypeOK
  <2>2. ClientTypeOK' /\ RoundInv'
    BY <1>1, <1>14 DEF NotFound
  <2> QED
    BY <1>2, <2>1, <2>2 DEF TypeInv, TypeOK
<1>8. CASE SendHeader(c)
  <2>1. Dgram("P2PMESSAGE", None, 0) \in Datagram
    BY DgramType DEF PeerMsg
  <2>2. target[c] \in Addr
    BY <1>1, <1>8 DEF SendHeader
  <2>3. NetTypeOK'
    <3>1. <<Dgram("P2PMESSAGE", None, 0)>> \in Seq(Datagram)
      BY <2>1
    <3> QED
      BY <1>1, <1>8, <2>2, <3>1, TransmitType DEF SendHeader
  <2>4. ClientTypeOK' /\ RoundInv'
    BY <1>1, <1>8 DEF SendHeader
  <2> QED
    BY <1>2, <2>3, <2>4 DEF TypeInv, TypeOK
<1>15. CASE SendText(c)
  <2>1. Dgram("BODY", c, sends[c]) \in Datagram
    BY <1>1, DgramType DEF PeerMsg
  <2>2. target[c] \in Addr
    BY <1>1, <1>15 DEF SendText
  <2>3. NetTypeOK'
    <3>1. <<Dgram("BODY", c, sends[c])>> \in Seq(Datagram)
      BY <2>1
    <3> QED
      BY <1>1, <1>15, <2>2, <3>1, TransmitType DEF SendText
  <2>4. ClientTypeOK' /\ RoundInv'
    BY <1>1, <1>15 DEF SendText
  <2> QED
    BY <1>2, <2>3, <2>4 DEF TypeInv, TypeOK
<1>9. CASE GiveUp(c)
  <2>1. NetTypeOK'
    BY <1>1, <1>9 DEF GiveUp, netVars, NetTypeOK
  <2>2. ClientTypeOK' /\ RoundInv'
    BY <1>1, <1>9 DEF GiveUp
  <2> QED
    BY <1>2, <2>1, <2>2 DEF TypeInv, TypeOK
<1>10. CASE SeeACK(c)
  <2>1. NetTypeOK'
    BY <1>1, <1>10 DEF SeeACK, netVars, NetTypeOK
  <2>2. okays' \in [Peer -> Nat]
    BY <1>1, <1>10 DEF SeeACK
  <2>3. ClientTypeOK' /\ RoundInv'
    BY <1>1, <1>10, <2>2 DEF SeeACK
  <2> QED
    BY <1>2, <2>1, <2>3 DEF TypeInv, TypeOK
<1>11. CASE MissACK(c)
  <2>1. NetTypeOK'
    BY <1>1, <1>11 DEF MissACK, netVars, NetTypeOK
  <2>2. ClientTypeOK' /\ RoundInv'
    BY <1>1, <1>11 DEF MissACK
  <2> QED
    BY <1>2, <2>1, <2>2 DEF TypeInv, TypeOK
<1>12. CASE AskServer(c)
  <2>1. Dgram("P2PTRANS", wanted[c], 0) \in Datagram
    BY <1>1, DgramType DEF Request
  <2>2. NetTypeOK'
    <3>1. <<Dgram("P2PTRANS", wanted[c], 0)>> \in Seq(Datagram)
      BY <2>1
    <3> QED
      BY <1>1, <1>12, <3>1, TransmitType DEF AskServer
  <2>3. ClientTypeOK' /\ RoundInv'
    BY <1>1, <1>12 DEF AskServer
  <2> QED
    BY <1>2, <2>2, <2>3 DEF TypeInv, TypeOK
<1>13. CASE Retry(c)
  <2>1. NetTypeOK'
    BY <1>1, <1>13 DEF Retry, netVars, NetTypeOK
  <2>2. retry' \in [Peer -> 0..MAXRETRY]
    BY <1>1, <1>13, SMTT(30) DEF Retry
  <2>3. ClientTypeOK' /\ RoundInv'
    BY <1>1, <1>13, <2>2 DEF Retry
  <2> QED
    BY <1>2, <2>1, <2>3 DEF TypeInv, TypeOK
<1> QED
  BY <1>3, <1>4, <1>5, <1>6, <1>7, <1>8, <1>9, <1>10, <1>11, <1>12, <1>13,
     <1>14, <1>15 DEF Command, Main

(* A datagram the receive thread reads, or its failure.                    *)
LEMMA ReadType ==
  ASSUME NEW r \in Datagram \cup {Failed}
  PROVE  /\ IsInt(r) => IntOf(r) \in Nat
         /\ NodeOf(r) \in Peer \cup {None}
         /\ TypeOf(r) = "P2PSOMEONEWANTTOCALLYOU" => r.who \in Peer
         /\ r.kind = "BODY" => r.who \in Peer
         /\ r.num \in Nat
BY DEF IsInt, IntOf, NodeOf, TypeOf, Failed, Dgram, Datagram

LEMMA RecvTypes ==
  ASSUME TypeInv, NEW c \in Peer, NEW s \in Addr \cup {None}, NEW n \in Paths,
         NEW r \in Datagram \cup {Failed}, r = Failed \/ s \in Addr,
         Recv(c, s, r, n), UNCHANGED ClientList
  PROVE  TypeInv'
<1> USE DEF At, Goto, RoundInv, ClientTypeOK, MainPc, RecvPc, history,
            userVars, sendVars, threadVars, LoggedIn
<1>1. /\ NetTypeOK /\ ServerTypeOK /\ ClientTypeOK /\ RoundInv
      /\ c \in Addr /\ Peer \subseteq Addr
      /\ up \in SUBSET Addr /\ net \in Paths /\ hole \in [Peer -> SUBSET Addr]
  BY DEF TypeInv, TypeOK, NetTypeOK, Addr
<1>2. ServerTypeOK'
  BY <1>1 DEF ServerTypeOK
<1>3. Closed(n, c) \in Paths /\ up \ {c} \in SUBSET Addr
  BY <1>1, ClosedPaths
<1>4. /\ IsInt(r) => IntOf(r) \in Nat
      /\ NodeOf(r) \in Peer \cup {None}
      /\ TypeOf(r) = "P2PSOMEONEWANTTOCALLYOU" => r.who \in Peer
      /\ r.kind = "BODY" => r.who \in Peer
      /\ r.num \in Nat
  BY ReadType
<1>5. Append(list[c], NodeOf(r)) \in Seq(Peer \cup {None})
  BY <1>1, <1>4, AppendProperties
<1>6. CASE RecvLoginCount(c, r, n)
  <2>1. NetTypeOK'
    BY <1>1, <1>3, <1>6 DEF RecvLoginCount, Terminate, NetTypeOK
  <2>2. left' \in [Peer -> Nat]
    BY <1>1, <1>4, <1>6 DEF RecvLoginCount
  <2>3. pc' \in [Peer -> MainPc] /\ rpc' \in [Peer -> RecvPc]
    BY <1>1, <1>6 DEF RecvLoginCount, Terminate
  <2>4. ClientTypeOK'
    BY <1>1, <1>6, <2>2, <2>3 DEF RecvLoginCount
  <2>5. RoundInv'
    BY <1>1, <1>6 DEF RecvLoginCount, Terminate
  <2> QED
    BY <1>2, <2>1, <2>4, <2>5 DEF TypeInv, TypeOK
<1>7. CASE RecvLoginNode(c, r, n)
  <2>1. NetTypeOK'
    BY <1>1, <1>7 DEF RecvLoginNode, NetTypeOK
  <2>2. left' \in [Peer -> Nat]
    BY <1>1, <1>7 DEF RecvLoginNode
  <2>3. list' \in [Peer -> Seq(Peer \cup {None})]
    BY <1>1, <1>5, <1>7 DEF RecvLoginNode
  <2>4. pc' \in [Peer -> MainPc] /\ rpc' \in [Peer -> RecvPc]
    BY <1>1, <1>7 DEF RecvLoginNode
  <2>5. ClientTypeOK'
    BY <1>1, <1>7, <2>2, <2>3, <2>4 DEF RecvLoginNode
  <2>6. RoundInv'
    BY <1>1, <1>7 DEF RecvLoginNode
  <2> QED
    BY <1>2, <2>1, <2>5, <2>6 DEF TypeInv, TypeOK
<1>8. CASE RecvHeader(c, r, n)
  <2>1. NetTypeOK'
    <3>1. CASE TypeOf(r) = "P2PSOMEONEWANTTOCALLYOU"
      <4>1. Dgram("P2PTRASH", None, 0) \in Datagram
        BY DgramType DEF PeerMsg
      <4>2. <<Dgram("P2PTRASH", None, 0)>> \in Seq(Datagram)
        BY <4>1
      <4>3. /\ net' = Sent(n, c, r.who, <<Dgram("P2PTRASH", None, 0)>>)
            /\ hole' = Opened(c, {r.who})
        BY <1>8, <3>1 DEF RecvHeader
      <4>4. net' \in Paths
        BY <1>1, <4>2, <4>3, SentPaths
      <4>5. hole' \in [Peer -> SUBSET Addr]
        BY <1>1, <1>4, <3>1, <4>3 DEF Opened
      <4> QED
        BY <1>1, <1>8, <4>4, <4>5 DEF RecvHeader, NetTypeOK
    <3>2. CASE TypeOf(r) # "P2PSOMEONEWANTTOCALLYOU"
      BY <1>1, <1>8, <3>2 DEF RecvHeader, NetTypeOK
    <3> QED
      BY <3>1, <3>2
  <2>2. ClientTypeOK' /\ RoundInv'
    BY <1>1, <1>8 DEF RecvHeader
  <2> QED
    BY <1>2, <2>1, <2>2 DEF TypeInv, TypeOK
<1>9. CASE RecvText(c, s, r, n)
  <2>1. NetTypeOK'
    <3>1. Dgram("P2PMESSAGEACK", None, 0) \in Datagram
      BY DgramType DEF PeerMsg
    <3>2. <<Dgram("P2PMESSAGEACK", None, 0)>> \in Seq(Datagram)
      BY <3>1
    <3>3. Sent(n, c, s, <<Dgram("P2PMESSAGEACK", None, 0)>>) \in Paths
      BY <1>1, <3>2, SentPaths
    <3>4. s \in Addr => Opened(c, {s}) \in [Peer -> SUBSET Addr]
      BY <1>1 DEF Opened
    <3> QED
      BY <1>1, <1>3, <1>9, <3>3, <3>4 DEF RecvText, Terminate, NetTypeOK
  <2>2. shown' \in [Peer -> SUBSET (Peer \X Nat)]
    <3>1. \/ shown' = shown
          \/ /\ r.kind = "BODY"
             /\ shown' = [shown EXCEPT ![c] = shown[c] \cup {<<r.who, r.num>>}]
      BY <1>1, <1>9 DEF RecvText
    <3>2. r.kind = "BODY" => shown[c] \cup {<<r.who, r.num>>} \in SUBSET (Peer \X Nat)
      <4>1. shown[c] \in SUBSET (Peer \X Nat)
        BY <1>1
      <4>2. r.kind = "BODY" => <<r.who, r.num>> \in Peer \X Nat
        BY <1>4
      <4> QED
        BY <4>1, <4>2
    <3> QED
      BY <1>1, <3>1, <3>2, ZenonT(30)
  <2>3. eaten' \in [Peer -> Nat]
    <3>1. \/ eaten' = eaten
          \/ eaten' = [p \in Peer |-> IF p = s THEN eaten[p] + 1 ELSE eaten[p]]
      BY <1>9 DEF RecvText
    <3>2. \A p \in Peer : eaten[p] \in Nat /\ eaten[p] + 1 \in Nat
      BY <1>1
    <3> QED
      BY <1>1, <3>1, <3>2
  <2>4. pc' \in [Peer -> MainPc] /\ rpc' \in [Peer -> RecvPc]
    BY <1>1, <1>9, ZenonT(30) DEF RecvText, Terminate
  <2>5. ClientTypeOK'
    BY <1>1, <1>9, <2>2, <2>3, <2>4 DEF RecvText
  <2>6. RoundInv'
    BY <1>1, <1>9 DEF RecvText, Terminate
  <2> QED
    BY <1>2, <2>1, <2>5, <2>6 DEF TypeInv, TypeOK
<1>10. CASE RecvUserCount(c, r, n)
  <2>1. NetTypeOK'
    BY <1>1, <1>3, <1>10 DEF RecvUserCount, Terminate, NetTypeOK
  <2>2. list' \in [Peer -> Seq(Peer \cup {None})]
    <3>1. <<>> \in Seq(Peer \cup {None})
      BY EmptySeq
    <3> QED
      BY <1>1, <1>10, <3>1, ZenonT(30) DEF RecvUserCount
  <2>3. left' \in [Peer -> Nat]
    BY <1>1, <1>4, <1>10, ZenonT(30) DEF RecvUserCount
  <2>4. pc' \in [Peer -> MainPc] /\ rpc' \in [Peer -> RecvPc]
    BY <1>1, <1>10 DEF RecvUserCount, Terminate
  <2>5. ClientTypeOK'
    BY <1>1, <1>10, <2>2, <2>3, <2>4 DEF RecvUserCount
  <2>6. RoundInv'
    BY <1>1, <1>10 DEF RecvUserCount, Terminate
  <2> QED
    BY <1>2, <2>1, <2>5, <2>6 DEF TypeInv, TypeOK
<1>11. CASE RecvUserNode(c, r, n)
  <2>1. NetTypeOK'
    BY <1>1, <1>11 DEF RecvUserNode, NetTypeOK
  <2>2. left' \in [Peer -> Nat]
    BY <1>1, <1>11 DEF RecvUserNode
  <2>3. list' \in [Peer -> Seq(Peer \cup {None})]
    BY <1>1, <1>5, <1>11 DEF RecvUserNode
  <2>4. ClientTypeOK' /\ RoundInv'
    BY <1>1, <1>11, <2>2, <2>3 DEF RecvUserNode
  <2> QED
    BY <1>2, <2>1, <2>4 DEF TypeInv, TypeOK
<1> QED
  BY <1>6, <1>7, <1>8, <1>9, <1>10, <1>11 DEF Recv

LEMMA TypesInit == Init => TypeInv
<1> SUFFICES ASSUME Init PROVE TypeInv
  OBVIOUS
<1> USE DEF Init, NetInit, ServerInit, ClientInit
<1>1. NetTypeOK
  BY EmptySeq DEF NetTypeOK, Paths
<1>2. ServerTypeOK
  BY EmptySeq DEF ServerTypeOK
<1>3. list \in [Peer -> Seq(Peer \cup {None})]
  BY EmptySeq
<1>4. 0 \in 0..MAXRETRY
  BY ClientBounds
<1>5. ClientTypeOK
  BY <1>3, <1>4 DEF ClientTypeOK, MainPc, RecvPc
<1>6. RoundInv
  BY DEF RoundInv
<1> QED
  BY <1>1, <1>2, <1>5, <1>6 DEF TypeInv, TypeOK

LEMMA TypesNext == TypeInv /\ [Next]_vars => TypeInv'
<1> SUFFICES ASSUME TypeInv, [Next]_vars PROVE TypeInv'
  OBVIOUS
<1>1. CASE ServerStep
  BY <1>1, ServerTypes DEF ServerStep
<1>2. CASE NetStep
  <2> PICK s \in Addr, d \in Addr : \E i \in DOMAIN net[s][d] :
        Drop(s, d, i) /\ UNCHANGED <<ClientList, clientVars>>
    BY <1>2 DEF NetStep
  <2> PICK i \in DOMAIN net[s][d] :
        Drop(s, d, i) /\ UNCHANGED <<ClientList, clientVars>>
    OBVIOUS
  <2>1. NetTypeOK'
    BY TakenPaths DEF Drop, TypeInv, TypeOK, NetTypeOK
  <2>2. ServerTypeOK' /\ ClientTypeOK' /\ RoundInv'
    BY DEF TypeInv, TypeOK, ServerTypeOK, ClientTypeOK, RoundInv, clientVars,
           threadVars, sendVars, userVars, history
  <2> QED
    BY <2>1, <2>2 DEF TypeInv, TypeOK
<1>3. ASSUME NEW c \in Peer, ClientStep(c) PROVE TypeInv'
  <2>1. CASE Command(c) \/ Main(c)
    BY <1>3, <2>1, MainTypes DEF ClientStep
  <2>2. CASE RecvDatagram(c)
    <3>0. PICK s \in Addr : \E i \in Receivable(s, c) :
            Recv(c, s, net[s][c][i], Taken(s, c, i))
      BY <2>2 DEF RecvDatagram
    <3>1. PICK i \in Receivable(s, c) :
            Recv(c, s, net[s][c][i], Taken(s, c, i))
      BY <3>0
    <3>2. i \in DOMAIN net[s][c] /\ c \in Addr /\ net \in Paths
      BY <3>1 DEF Receivable, Addr, TypeInv, TypeOK, NetTypeOK
    <3>3. Taken(s, c, i) \in Paths /\ net[s][c][i] \in Datagram
      BY <3>2, TakenPaths
    <3> QED
      BY <1>3, <3>1, <3>3, RecvTypes DEF ClientStep
  <2>3. CASE RecvFails(c)
    <3>1. Recv(c, None, Failed, net) /\ net \in Paths
      BY <2>3 DEF RecvFails, TypeInv, TypeOK, NetTypeOK
    <3> QED
      BY <1>3, <3>1, RecvTypes DEF ClientStep
  <2> QED
    BY <1>3, <2>1, <2>2, <2>3 DEF ClientStep
<1>4. CASE UNCHANGED vars
  BY <1>4 DEF vars, netVars, clientVars, threadVars, sendVars, userVars,
              history, TypeInv, TypeOK, NetTypeOK, ServerTypeOK,
              ClientTypeOK, RoundInv
<1> QED
  BY <1>1, <1>2, <1>3, <1>4 DEF Next

(* Whatever is sent, lost, misread or retried, every variable keeps its    *)
(* type: in particular the rounds of SendMessageTo are at most MAXRETRY    *)
(* and a message only goes to an address taken from the list.              *)
THEOREM Types == Spec => []TypeOK
<1>1. TypeInv => TypeOK
  BY DEF TypeInv
<1> QED
  BY <1>1, TypesInit, TypesNext, PTL DEF Spec

-----------------------------------------------------------------------------
(* The list is a directory.                                                *)

UniqueNames == \A p, q \in Peer : NameOf[p] = NameOf[q] => p = q

(* What receiving, losing and closing do to the paths: they carry no more  *)
(* than before.                                                            *)
Shrunk(n) ==
  /\ n \in Paths
  /\ \A x, y \in Addr : /\ Range(n[x][y]) \subseteq Range(net[x][y])
                        /\ OneLogin(net[x][y]) => OneLogin(n[x][y])

LEMMA OneLoginRemove ==
  ASSUME NEW q \in Seq(Datagram), OneLogin(q), NEW i \in DOMAIN q
  PROVE  /\ OneLogin(RemoveAt(q, i))
         /\ q[i].kind = "LOGIN"
              => \A m \in Range(RemoveAt(q, i)) : m.kind # "LOGIN"
<1> DEFINE t == RemoveAt(q, i)
<1>1. DOMAIN q = 1..Len(q) /\ Len(q) \in Nat
  BY LenProperties
<1>2. /\ DOMAIN t = 1..Len(q)-1
      /\ \A j \in 1..Len(q)-1 : t[j] = IF j < i THEN q[j] ELSE q[j+1]
  BY RemoveAtShifts, LenProperties
<1> HIDE DEF t
<1>3. ASSUME NEW j \in DOMAIN t, NEW k \in DOMAIN t,
             t[j].kind = "LOGIN", t[k].kind = "LOGIN"
      PROVE  j = k
  BY <1>1, <1>2, <1>3 DEF OneLogin
<1>4. ASSUME q[i].kind = "LOGIN", NEW j \in DOMAIN t
      PROVE  t[j].kind # "LOGIN"
  BY <1>1, <1>2, <1>4 DEF OneLogin
<1> QED
  BY <1>3, <1>4 DEF OneLogin, Range, t

LEMMA OneLoginConcat ==
  ASSUME NEW q \in Seq(Datagram), NEW ms \in Seq(Datagram),
         \/ OneLogin(q) /\ \A m \in Range(ms) : m.kind # "LOGIN"
         \/ Len(ms) = 1 /\ \A m \in Range(q) : m.kind # "LOGIN"
  PROVE  OneLogin(q \o ms)
<1>1. /\ DOMAIN q = 1..Len(q) /\ Len(q) \in Nat
      /\ DOMAIN ms = 1..Len(ms) /\ Len(ms) \in Nat
  BY LenProperties
<1>2. /\ DOMAIN (q \o ms) = 1..Len(q) + Len(ms)
      /\ \A k \in 1..Len(q) + Len(ms) :
           (q \o ms)[k] = IF k <= Len(q) THEN q[k] ELSE ms[k - Len(q)]
  BY ConcatProperties, LenProperties
<1>3. \A k \in DOMAIN q : q[k] \in Range(q)
  BY DEF Range
<1>4. \A k \in DOMAIN ms : ms[k] \in Range(ms)
  BY DEF Range
<1>5. CASE OneLogin(q) /\ \A m \in Range(ms) : m.kind # "LOGIN"
  <2>1. ASSUME NEW k \in DOMAIN (q \o ms), (q \o ms)[k].kind = "LOGIN"
        PROVE  k \in DOMAIN q /\ (q \o ms)[k] = q[k]
    BY <1>1, <1>2, <1>4, <1>5, <2>1
  <2> QED
    BY <1>5, <2>1 DEF OneLogin
<1>6. CASE Len(ms) = 1 /\ \A m \in Range(q) : m.kind # "LOGIN"
  <2>1. ASSUME NEW k \in DOMAIN (q \o ms), (q \o ms)[k].kind = "LOGIN"
        PROVE  k = Len(q) + 1
    BY <1>1, <1>2, <1>3, <1>6, <2>1
  <2> QED
    BY <2>1 DEF OneLogin
<1> QED
  BY <1>5, <1>6

LEMMA TakenShrinks ==
  ASSUME net \in Paths, NEW s \in Addr, NEW d \in Addr, NEW i \in DOMAIN net[s][d]
  PROVE  Shrunk(Taken(s, d, i)) /\ net[s][d][i] \in Range(net[s][d])
<1>1. \A x, y \in Addr : net[x][y] \in Seq(Datagram)
  BY DEF Paths
<1>2. Range(RemoveAt(net[s][d], i)) \subseteq Range(net[s][d])
  BY <1>1, RemoveAtRange
<1>3. OneLogin(net[s][d]) => OneLogin(RemoveAt(net[s][d], i))
  BY <1>1, OneLoginRemove
<1>4. net[s][d][i] \in Range(net[s][d])
  BY DEF Range
<1> QED
  BY <1>2, <1>3, <1>4, TakenPaths DEF Shrunk

LEMMA ClosedShrinks ==
  ASSUME NEW n, Shrunk(n), NEW a PROVE Shrunk(Closed(n, a))
<1>1. \A x, y \in Addr : Closed(n, a)[x][y] = IF y = a THEN <<>> ELSE n[x][y]
  BY ClosedPaths DEF Shrunk
<1>2. Range(<<>>) = {} /\ OneLogin(<<>>)
  BY DEF Range, OneLogin
<1> QED
  BY <1>1, <1>2, ClosedPaths DEF Shrunk

LEMMA SentRange ==
  ASSUME NEW n \in Paths, NEW s \in Addr, NEW d, NEW ms \in Seq(Datagram),
         up \in SUBSET Addr
  PROVE  \A x, y \in Addr :
           Range(Sent(n, s, d, ms)[x][y]) \subseteq
             Range(n[x][y]) \cup (IF x = s /\ y = d THEN Range(ms) ELSE {})
<1>1. \A x, y \in Addr : n[x][y] \in Seq(Datagram)
  BY DEF Paths
<1>2. \A x, y \in Addr : Range(n[x][y] \o ms) = Range(n[x][y]) \cup Range(ms)
  BY <1>1, RangeConcatenation
<1> QED
  BY <1>2, SentPaths

(* What every step of a client keeps of the threads' places: an end is an  *)
(* end, nobody starts again, and who logs in is listed.                    *)
PlacesKept ==
  \A c \in Peer : /\ pc[c] = "exited" => pc'[c] = "exited"
                  /\ pc'[c] = "start" => pc[c] = "start"
                  /\ pc'[c] \in LoggedInPc => Listed(c)

(* A step of clients or network that leaves the list alone keeps the       *)
(* invariant if the new datagrams are ones their senders may send.         *)
MaySend(c, m) ==
  /\ m.kind = "LOGIN" => pc'[c] # "start" /\ ~Listed(c)
  /\ m.kind = "LOGOUT" => pc'[c] = "exited" /\ m.who = NameOf[c]
  /\ m.kind = "GETALLUSER" => Listed(c)

LEMMA KeepDirectory ==
  ASSUME DirectoryInv, UNCHANGED ClientList, PlacesKept,
         \A c \in Peer :
           /\ OneLogin(net'[c][Server])
           /\ \A m \in Range(net'[c][Server]) :
                m \in Range(net[c][Server]) \/ MaySend(c, m)
           /\ Range(net'[Server][c]) \subseteq Range(net[Server][c])
           /\ \A s \in Peer : \A m \in Range(net'[s][c]) :
                m \in Range(net[s][c]) \/ ~IsInt(m)
  PROVE  DirectoryInv'
<1>1. \A c \in Peer : Listed(c)' <=> Listed(c)
  BY DEF Listed
<1>2. \A c \in Peer : ListedOrGone(c) => ListedOrGone(c)'
  BY <1>1 DEF ListedOrGone, PlacesKept
<1>3. NoDuplicates' /\ LoggedInListed'
  BY DEF DirectoryInv, NoDuplicates, LoggedInListed, PlacesKept, Listed
<1>4. ASSUME NEW c \in Peer
      PROVE  /\ pc'[c] = "start" => ~Listed(c)'
             /\ RequestsInv(c)' /\ AnswersInv(c)'
  <2>1. pc'[c] = "start" => ~Listed(c)'
    BY <1>1 DEF DirectoryInv, PlacesKept
  <2>2. ASSUME NEW m \in Range(net'[c][Server])
        PROVE  /\ m.kind = "LOGIN" => pc'[c] # "start" /\ ~Listed(c)'
               /\ m.kind = "LOGOUT" => pc'[c] = "exited" /\ m.who = NameOf[c]
               /\ m.kind = "GETALLUSER" => ListedOrGone(c)'
    <3>1. CASE m \in Range(net[c][Server])
      BY <1>1, <1>2, <3>1 DEF DirectoryInv, RequestsInv, PlacesKept
    <3>2. CASE MaySend(c, m)
      BY <1>1, <1>2, <3>2 DEF MaySend, ListedOrGone
    <3> QED
      BY <3>1, <3>2
  <2>3. AnswersInv(c)'
    BY <1>2 DEF DirectoryInv, AnswersInv, IsInt
  <2> QED
    BY <2>1, <2>2, <2>3 DEF RequestsInv
<1> QED
  BY <1>3, <1>4 DEF DirectoryInv

(* Nothing is sent.                                                        *)
LEMMA ShrinkKeepsDirectory ==
  ASSUME DirectoryInv, UNCHANGED ClientList, PlacesKept, Shrunk(net')
  PROVE  DirectoryInv'
<1>1. \A c \in Peer : OneLogin(net[c][Server])
  BY DEF DirectoryInv, RequestsInv
<1>2. Peer \subseteq Addr /\ Server \in Addr
  BY DEF Addr
<1> QED
  BY <1>1, <1>2, KeepDirectory DEF Shrunk

(* What the peers say to each other, and P2PTRANS, concern no list.        *)
LEMMA SendKeepsDirectory ==
  ASSUME DirectoryInv, UNCHANGED ClientList, PlacesKept, up \in SUBSET Addr,
         NEW n, Shrunk(n), NEW p \in Peer, NEW d, NEW ms \in Seq(Datagram),
         \A m \in Range(ms) : m.kind \in PeerMsg \cup {"P2PTRANS"},
         net' = Sent(n, p, d, ms)
  PROVE  DirectoryInv'
<1>1. /\ Peer \subseteq Addr /\ Server \in Addr /\ Server \notin Peer
      /\ n \in Paths
  BY AddressesDistinct DEF Addr, Shrunk
<1>2. \A x, y \in Addr :
        Range(net'[x][y]) \subseteq
          Range(n[x][y]) \cup (IF x = p /\ y = d THEN Range(ms) ELSE {})
  BY <1>1, SentRange
<1>3. \A m \in Range(ms) : /\ m.kind \notin {"LOGIN", "LOGOUT", "GETALLUSER"}
                           /\ ~IsInt(m)
  BY DEF PeerMsg, IsInt
<1>4. ASSUME NEW c \in Peer PROVE OneLogin(net'[c][Server])
  <2>1. n[c][Server] \in Seq(Datagram) /\ OneLogin(n[c][Server])
    BY <1>1 DEF Paths, Shrunk, DirectoryInv, RequestsInv
  <2>2. OneLogin(n[c][Server] \o ms)
    BY <1>3, <2>1, OneLoginConcat
  <2>3. net'[c][Server] \in {n[c][Server], n[c][Server] \o ms}
    <3>1. c \in Addr /\ p \in Addr
      BY <1>1
    <3>2. Sent(n, p, d, ms)[c][Server] =
            IF c = p /\ Server = d /\ d \in up
            THEN n[c][Server] \o ms ELSE n[c][Server]
      BY <1>1, <3>1, SentPaths
    <3> QED
      BY <3>2
  <2> QED
    BY <2>1, <2>2, <2>3
<1>5. \A c \in Peer : \A m \in Range(net'[c][Server]) :
        m \in Range(net[c][Server]) \/ MaySend(c, m)
  BY <1>1, <1>2, <1>3 DEF MaySend, Shrunk
<1>6. \A c \in Peer : Range(net'[Server][c]) \subseteq Range(net[Server][c])
  BY <1>1, <1>2 DEF Shrunk
<1>7. \A c \in Peer : \A s \in Peer : \A m \in Range(net'[s][c]) :
        m \in Range(net[s][c]) \/ ~IsInt(m)
  BY <1>1, <1>2, <1>3 DEF Shrunk
<1> QED
  BY <1>4, <1>5, <1>6, <1>7, KeepDirectory

LEMMA ShrunkNow == ASSUME net \in Paths PROVE Shrunk(net)
BY DEF Shrunk

(* A request of client c: one datagram to the server.                      *)
LEMMA RequestKeepsDirectory ==
  ASSUME DirectoryInv, UNCHANGED ClientList, PlacesKept, up \in SUBSET Addr,
         net \in Paths, NEW p \in Peer, NEW m \in Datagram, NEW a \in Peer \cup {None},
         MaySend(p, m),
         m.kind = "LOGIN" => \A x \in Range(net[p][Server]) : x.kind # "LOGIN",
         \/ net' = Sent(net, p, Server, <<m>>)
         \/ net' = Closed(Sent(net, p, Server, <<m>>), a)
  PROVE  DirectoryInv'
<1> DEFINE n == Sent(net, p, Server, <<m>>)
<1>1. /\ Peer \subseteq Addr /\ Server \in Addr /\ Server \notin Peer
      /\ <<m>> \in Seq(Datagram) /\ Len(<<m>>) = 1 /\ Range(<<m>>) = {m}
  BY AddressesDistinct DEF Addr, Range
<1>2. n \in Paths
  BY <1>1, SentPaths
<1>3. \A x, y \in Addr :
        Range(n[x][y]) \subseteq
          Range(net[x][y]) \cup (IF x = p /\ y = Server THEN {m} ELSE {})
  <2>1. \A x, y \in Addr :
          Range(Sent(net, p, Server, <<m>>)[x][y]) \subseteq
            Range(net[x][y]) \cup (IF x = p /\ y = Server THEN Range(<<m>>) ELSE {})
    BY <1>1, SentRange
  <2> QED
    BY <1>1, <2>1, SMTT(30)
<1>4. ASSUME NEW c \in Peer PROVE OneLogin(n[c][Server])
  <2>1. net[c][Server] \in Seq(Datagram) /\ OneLogin(net[c][Server])
    BY <1>1 DEF Paths, DirectoryInv, RequestsInv
  <2>2. c = p => OneLogin(net[c][Server] \o <<m>>)
    BY <1>1, <2>1, OneLoginConcat
  <2>3. n[c][Server] = IF c = p /\ Server \in up
                       THEN net[c][Server] \o <<m>> ELSE net[c][Server]
    BY <1>1, SentPaths
  <2> QED
    BY <2>1, <2>2, <2>3
<1> HIDE DEF n
<1>5. \A x, y \in Addr : \/ net'[x][y] = n[x][y]
                         \/ net'[x][y] = <<>>
  <2>1. \A x, y \in Addr : Closed(n, a)[x][y] = IF y = a THEN <<>> ELSE n[x][y]
    BY <1>2, ClosedPaths
  <2> QED
    BY <2>1 DEF n
<1>6. Range(<<>>) = {} /\ OneLogin(<<>>)
  BY DEF Range, OneLogin
<1>7. \A x, y \in Addr :
        Range(net'[x][y]) \subseteq
          Range(net[x][y]) \cup (IF x = p /\ y = Server THEN {m} ELSE {})
  BY <1>3, <1>5, <1>6
<1>8. \A c \in Peer : OneLogin(net'[c][Server])
  BY <1>1, <1>4, <1>5, <1>6
<1>9. \A c \in Peer : \A x \in Range(net'[c][Server]) :
        x \in Range(net[c][Server]) \/ MaySend(c, x)
  BY <1>1, <1>7
<1>10. \A c \in Peer : Range(net'[Server][c]) \subseteq Range(net[Server][c])
  BY <1>1, <1>7
<1>11. \A c \in Peer : \A s \in Peer : \A x \in Range(net'[s][c]) :
         x \in Range(net[s][c]) \/ ~IsInt(x)
  BY <1>1, <1>7
<1> QED
  BY <1>8, <1>9, <1>10, <1>11, KeepDirectory

LEMMA MainDirectory ==
  ASSUME TypeInv, DirectoryInv, NEW c \in Peer, Command(c) \/ Main(c),
         UNCHANGED ClientList
  PROVE  DirectoryInv'
<1> USE DEF At, Goto, LoggedInPc, MainPc
<1>1. /\ net \in Paths /\ up \in SUBSET Addr /\ pc \in [Peer -> MainPc]
      /\ Shrunk(net)
  BY ShrunkNow DEF TypeInv, TypeOK, NetTypeOK, ClientTypeOK
<1>2. \A p \in Peer : pc[p] \in LoggedInPc => Listed(p)
  BY DEF DirectoryInv, LoggedInListed, Listed
<1>3. CASE SendLogin(c)
  <2>1. PlacesKept
    BY <1>1, <1>2, <1>3 DEF SendLogin, PlacesKept
  <2>2. /\ Dgram("LOGIN", NameOf[c], 0) \in Datagram
        /\ Dgram("LOGIN", NameOf[c], 0).kind = "LOGIN"
    BY EveryPeerNamed, DgramType DEF Request
  <2>3. /\ pc'[c] # "start" /\ ~Listed(c)
        /\ \A x \in Range(net[c][Server]) : x.kind # "LOGIN"
    BY <1>1, <1>3 DEF SendLogin, DirectoryInv, RequestsInv
  <2> QED
    BY <1>1, <1>3, <2>1, <2>2, <2>3, RequestKeepsDirectory
       DEF SendLogin, Transmit, MaySend
<1>4. CASE Exit(c)
  <2>1. PlacesKept
    BY <1>1, <1>2, <1>4 DEF Exit, Terminate, PlacesKept
  <2>2. /\ Dgram("LOGOUT", NameOf[c], 0) \in Datagram
        /\ Dgram("LOGOUT", NameOf[c], 0).kind = "LOGOUT"
        /\ Dgram("LOGOUT", NameOf[c], 0).who = NameOf[c]
    BY EveryPeerNamed, DgramType DEF Request
  <2>3. pc'[c] = "exited"
    BY <1>1, <1>4 DEF Exit, Terminate
  <2>4. MaySend(c, Dgram("LOGOUT", NameOf[c], 0))
    BY <2>2, <2>3 DEF MaySend
  <2> QED
    BY <1>1, <1>4, <2>1, <2>2, <2>4, RequestKeepsDirectory DEF Exit, Terminate
<1>5. CASE GetUsers(c)
  <2>1. PlacesKept
    BY <1>1, <1>2, <1>5 DEF GetUsers, threadVars, PlacesKept
  <2>2. /\ Dgram("GETALLUSER", None, 0) \in Datagram
        /\ Dgram("GETALLUSER", None, 0).kind = "GETALLUSER"
    <3>1. Dgram("GETALLUSER", None, 0) \in Datagram
      BY DgramType DEF Request
    <3> QED
      BY <3>1 DEF Dgram
  <2>3. Listed(c)
    BY <1>2, <1>5 DEF GetUsers
  <2> QED
    BY <1>1, <1>5, <2>1, <2>2, <2>3, RequestKeepsDirectory
       DEF GetUsers, Transmit, MaySend
<1>6. CASE \/ \E name \in Name \ {NameOf[c]} : SendCommand(c, name)
           \/ FindUser(c) \/ NotFound(c) \/ GiveUp(c) \/ SeeACK(c) \/ MissACK(c)
           \/ Retry(c)
  <2>1. PlacesKept
    BY <1>1, <1>2, <1>6
       DEF SendCommand, FindUser, NotFound, GiveUp, SeeACK, MissACK, Retry, PlacesKept
  <2>2. net' = net
    BY <1>6 DEF SendCommand, FindUser, NotFound, GiveUp, SeeACK, MissACK, Retry, netVars
  <2> QED
    BY <1>1, <2>1, <2>2, ShrinkKeepsDirectory
<1>7. CASE SendHeader(c) \/ SendText(c)
  <2>1. PlacesKept
    BY <1>1, <1>2, <1>7 DEF SendHeader, SendText, PlacesKept
  <2>2. PICK m \in Datagram : /\ m.kind \in PeerMsg /\ <<m>> \in Seq(Datagram)
                              /\ Transmit(c, target[c], <<m>>)
    BY <1>7, RoundSends DEF PeerMsg
  <2>3. \A x \in Range(<<m>>) : x.kind \in PeerMsg
    BY <2>2 DEF Range
  <2>4. net' = Sent(net, c, target[c], <<m>>)
    BY <2>2 DEF Transmit
  <2> QED
    BY <1>1, <2>1, <2>2, <2>3, <2>4, SendKeepsDirectory
<1>8. CASE AskServer(c)
  <2> DEFINE ms == <<Dgram("P2PTRANS", wanted[c], 0)>>
  <2>1. PlacesKept
    BY <1>1, <1>2, <1>8 DEF AskServer, PlacesKept
  <2>2. /\ Dgram("P2PTRANS", wanted[c], 0) \in Datagram
        /\ Dgram("P2PTRANS", wanted[c], 0).kind = "P2PTRANS"
    <3>1. wanted[c] \in Name \cup {None}
      BY DEF TypeInv, TypeOK, ClientTypeOK
    <3>2. Dgram("P2PTRANS", wanted[c], 0) \in Datagram
      BY <3>1, DgramType DEF Request
    <3> QED
      BY <3>2 DEF Dgram
  <2>3. ms \in Seq(Datagram) /\ \A m \in Range(ms) : m.kind = "P2PTRANS"
    BY <2>2 DEF Range
  <2>4. net' = Sent(net, c, Server, ms)
    BY <1>8 DEF AskServer, Transmit
  <2> HIDE DEF ms
  <2> QED
    BY <1>1, <2>1, <2>3, <2>4, SendKeepsDirectory
<1> QED
  BY <1>3, <1>4, <1>5, <1>6, <1>7, <1>8 DEF Command, Main

LEMMA RecvDirectory ==
  ASSUME TypeInv, DirectoryInv, NEW c \in Peer, NEW s \in Addr \cup {None},
         NEW n, Shrunk(n), NEW r,
         r = Failed \/ (s \in Addr /\ r \in Range(net[s][c])),
         Recv(c, s, r, n), UNCHANGED ClientList
  PROVE  DirectoryInv'
<1> USE DEF At, Goto, LoggedInPc, MainPc
<1>1. /\ net \in Paths /\ up \in SUBSET Addr /\ pc \in [Peer -> MainPc]
      /\ Shrunk(Closed(n, c))
  BY ClosedShrinks DEF TypeInv, TypeOK, NetTypeOK, ClientTypeOK
<1>2. \A p \in Peer : pc[p] \in LoggedInPc => Listed(p)
  BY DEF DirectoryInv, LoggedInListed, Listed
<1>3. CASE RecvLoginCount(c, r, n)
  <2>1. IsInt(r) => Listed(c)
    <3>1. r = Failed => ~IsInt(r)
      BY DEF IsInt, Failed, Dgram
    <3>2. pc[c] # "exited"
      BY <1>3 DEF RecvLoginCount
    <3> QED
      BY <3>1, <3>2 DEF DirectoryInv, AnswersInv, ListedOrGone, Addr
  <2>2. PlacesKept
    BY <1>1, <1>2, <1>3, <2>1 DEF RecvLoginCount, LoggedIn, Terminate, PlacesKept
  <2>3. Shrunk(net')
    BY <1>1, <1>3 DEF RecvLoginCount, Terminate
  <2> QED
    BY <2>2, <2>3, ShrinkKeepsDirectory
<1>4. CASE RecvLoginNode(c, r, n)
  <2>1. PlacesKept
    BY <1>1, <1>2, <1>4 DEF RecvLoginNode, LoggedIn, PlacesKept
  <2> QED
    BY <1>4, <2>1, ShrinkKeepsDirectory DEF RecvLoginNode
<1>5. CASE RecvHeader(c, r, n)
  <2> DEFINE ms == <<Dgram("P2PTRASH", None, 0)>>
  <2>1. PlacesKept
    BY <1>1, <1>2, <1>5 DEF RecvHeader, PlacesKept
  <2>2. Dgram("P2PTRASH", None, 0) \in Datagram
    BY DgramType DEF PeerMsg
  <2>3. ms \in Seq(Datagram) /\ \A m \in Range(ms) : m.kind \in PeerMsg
    BY <2>2 DEF Range, Dgram, PeerMsg
  <2>4. net' = n \/ net' = Sent(n, c, r.who, ms)
    BY <1>5 DEF RecvHeader
  <2> HIDE DEF ms
  <2> QED
    BY <1>1, <2>1, <2>3, <2>4, ShrinkKeepsDirectory, SendKeepsDirectory
<1>6. CASE RecvText(c, s, r, n)
  <2> DEFINE ms == <<Dgram("P2PMESSAGEACK", None, 0)>>
  <2>1. PlacesKept
    BY <1>1, <1>2, <1>6 DEF RecvText, Terminate, PlacesKept
  <2>2. Dgram("P2PMESSAGEACK", None, 0) \in Datagram
    BY DgramType DEF PeerMsg
  <2>3. ms \in Seq(Datagram) /\ \A m \in Range(ms) : m.kind \in PeerMsg
    BY <2>2 DEF Range, Dgram, PeerMsg
  <2>4. net' = Closed(n, c) \/ net' = Sent(n, c, s, ms)
    BY <1>6 DEF RecvText, Terminate
  <2> HIDE DEF ms
  <2> QED
    BY <1>1, <2>1, <2>3, <2>4, ShrinkKeepsDirectory, SendKeepsDirectory
<1>7. CASE RecvUserCount(c, r, n)
  <2>1. PlacesKept
    BY <1>1, <1>2, <1>7 DEF RecvUserCount, Terminate, PlacesKept
  <2>2. Shrunk(net')
    BY <1>1, <1>7 DEF RecvUserCount, Terminate
  <2> QED
    BY <2>1, <2>2, ShrinkKeepsDirectory
<1>8. CASE RecvUserNode(c, r, n)
  <2>1. PlacesKept
    BY <1>1, <1>2, <1>8 DEF RecvUserNode, PlacesKept
  <2> QED
    BY <1>8, <2>1, ShrinkKeepsDirectory DEF RecvUserNode
<1> QED
  BY <1>3, <1>4, <1>5, <1>6, <1>7, <1>8 DEF Recv

(* A step of the server keeps the invariant if it takes nobody out who has *)
(* not ended and lists only those whose LOGIN it has taken.                *)
LEMMA ServeKeepsDirectory ==
  ASSUME DirectoryInv, pc' = pc, NoDuplicates',
         \A x \in Peer :
           /\ ListedOrGone(x) => ListedOrGone(x)'
           /\ Listed(x)' => \/ Listed(x)
                            \/ /\ pc[x] # "start"
                               /\ \A m \in Range(net'[x][Server]) : m.kind # "LOGIN"
           /\ Range(net'[x][Server]) \subseteq Range(net[x][Server])
           /\ OneLogin(net'[x][Server])
           /\ \A m \in Range(net'[Server][x]) :
                m \in Range(net[Server][x]) \/ (IsInt(m) => ListedOrGone(x)')
           /\ \A s \in Peer : Range(net'[s][x]) \subseteq Range(net[s][x])
  PROVE  DirectoryInv'
<1>1. LoggedInListed'
  BY DEF DirectoryInv, LoggedInListed, LoggedInPc, Listed, ListedOrGone
<1>2. ASSUME NEW c \in Peer
      PROVE  /\ pc'[c] = "start" => ~Listed(c)'
             /\ RequestsInv(c)' /\ AnswersInv(c)'
  <2>1. pc'[c] = "start" => ~Listed(c)'
    BY DEF DirectoryInv
  <2>2. RequestsInv(c)'
    BY DEF DirectoryInv, RequestsInv
  <2>3. AnswersInv(c)'
    BY DEF DirectoryInv, AnswersInv
  <2> QED
    BY <2>1, <2>2, <2>3
<1> QED
  BY <1>1, <1>2 DEF DirectoryInv

(* What the server takes and sends leaves the paths between and from the   *)
(* clients as they were or shorter.                                        *)
LEMMA ServerPaths ==
  ASSUME NEW n, Shrunk(n), NEW d, NEW ms \in Seq(Datagram), up \in SUBSET Addr,
         \/ net' = Sent(n, Server, d, ms)
         \/ net' = n
         \/ net' = Closed(n, Server)
  PROVE  /\ \A x \in Peer, y \in Addr :
              /\ Range(net'[x][y]) \subseteq Range(n[x][y])
              /\ Range(net'[x][y]) \subseteq Range(net[x][y])
         /\ \A x \in Peer : OneLogin(net[x][Server]) => OneLogin(net'[x][Server])
         /\ \A x \in Peer :
              Range(net'[Server][x]) \subseteq
                Range(net[Server][x]) \cup (IF x = d THEN Range(ms) ELSE {})
<1>1. /\ Peer \subseteq Addr /\ Server \in Addr /\ Server \notin Peer
      /\ n \in Paths
  BY AddressesDistinct DEF Addr, Shrunk
<1>2. Range(<<>>) = {} /\ OneLogin(<<>>)
  BY DEF Range, OneLogin
<1>3. \A x \in Peer, y \in Addr : net'[x][y] = n[x][y] \/ net'[x][y] = <<>>
  <2>1. \A x \in Peer, y \in Addr : Sent(n, Server, d, ms)[x][y] = n[x][y]
    BY <1>1, SentPaths
  <2>2. \A x, y \in Addr :
          Closed(n, Server)[x][y] = IF y = Server THEN <<>> ELSE n[x][y]
    BY <1>1, ClosedPaths
  <2> QED
    BY <1>1, <2>1, <2>2
<1>4. \A x \in Peer :
        Range(net'[Server][x]) \subseteq
          Range(n[Server][x]) \cup (IF x = d THEN Range(ms) ELSE {})
  <2>1. \A x, y \in Addr :
          Range(Sent(n, Server, d, ms)[x][y]) \subseteq
            Range(n[x][y]) \cup (IF x = Server /\ y = d THEN Range(ms) ELSE {})
    BY <1>1, SentRange
  <2>2. \A x, y \in Addr :
          Closed(n, Server)[x][y] = IF y = Server THEN <<>> ELSE n[x][y]
    BY <1>1, ClosedPaths
  <2> QED
    BY <1>1, <2>1, <2>2
<1> QED
  BY <1>1, <1>2, <1>3, <1>4 DEF Shrunk

LEMMA ServerDirectory ==
  ASSUME UniqueNames, TypeInv, DirectoryInv, NEW c \in Peer, ServerNext(c),
         UNCHANGED clientVars
  PROVE  /\ DirectoryInv'
         /\ \/ Range(ClientList') = Range(ClientList)
            \/ ~Listed(c) /\ Range(ClientList') = Range(ClientList) \cup {c}
            \/ /\ Listed(c) /\ pc[c] = "exited"
               /\ Range(ClientList') = Range(ClientList) \ {c}
<1> PICK i \in Receivable(c, Server) :
          \/ Login(c, i) \/ Logout(c, i) \/ P2PTrans(c, i)
          \/ GetAllUser(c, i) \/ ServerIgnores(c, i)
  BY DEF ServerNext
<1> DEFINE n == Taken(c, Server, i)
           r == net[c][Server][i]
<1>1. /\ i \in DOMAIN net[c][Server]
      /\ c \in Addr /\ Server \in Addr /\ Peer \subseteq Addr
      /\ up \in SUBSET Addr /\ net \in Paths /\ ClientList \in Seq(Peer)
  BY DEF Receivable, TypeInv, TypeOK, NetTypeOK, ServerTypeOK, Addr
<1>2. Shrunk(n) /\ r \in Range(net[c][Server])
  BY <1>1, TakenShrinks
<1>3. pc' = pc
  BY DEF clientVars, threadVars
<1>4. /\ RequestsInv(c) /\ \A x \in Peer : OneLogin(net[x][Server])
      /\ NoDuplicates
  BY DEF DirectoryInv, RequestsInv
<1>5. r.kind = "LOGIN" => \A m \in Range(n[c][Server]) : m.kind # "LOGIN"
  <2>1. n[c][Server] = RemoveAt(net[c][Server], i)
    BY <1>1, TakenPaths
  <2>2. net[c][Server] \in Seq(Datagram)
    BY <1>1 DEF Paths
  <2> QED
    BY <1>1, <1>4, <2>1, <2>2, OneLoginRemove
<1> HIDE DEF n, r
<1>6. CASE Login(c, i)
  <2>1. r.kind = "LOGIN" /\ net' = Sent(n, Server, c, Listing(ClientList'))
    BY <1>6 DEF Login, n, r
  <2>2. ClientList' = Append(ClientList, c) /\ ClientList' \in Seq(Peer)
    BY <1>1, <1>6, AppendProperties DEF Login
  <2>3. /\ pc[c] # "start" /\ ~Listed(c)
    BY <1>2, <1>4, <2>1 DEF RequestsInv
  <2>4. Range(ClientList') = Range(ClientList) \cup {c}
    BY <1>1, <2>2, AppendRange
  <2>5. NoDuplicates'
    <3>1. /\ DOMAIN ClientList = 1..Len(ClientList) /\ Len(ClientList) \in Nat
          /\ DOMAIN ClientList' = 1..Len(ClientList)+1
          /\ \A j \in 1..Len(ClientList) : ClientList'[j] = ClientList[j]
          /\ ClientList'[Len(ClientList)+1] = c
      BY <1>1, <2>2, AppendProperties, LenProperties
    <3>2. \A j \in DOMAIN ClientList : ClientList[j] # c
      BY <2>3 DEF Listed, Range
    <3> QED
      BY <1>4, <3>1, <3>2 DEF NoDuplicates
  <2>6. Listing(ClientList') \in Seq(Datagram)
    BY <2>2, ListingType
  <2>7. \A x \in Peer : (Listed(x)' <=> Listed(x) \/ x = c)
    BY <2>4 DEF Listed
  <2>8. /\ \A x \in Peer, y \in Addr :
             /\ Range(net'[x][y]) \subseteq Range(n[x][y])
             /\ Range(net'[x][y]) \subseteq Range(net[x][y])
        /\ \A x \in Peer : OneLogin(net'[x][Server])
        /\ \A x \in Peer :
             Range(net'[Server][x]) \subseteq
               Range(net[Server][x])
               \cup (IF x = c THEN Range(Listing(ClientList')) ELSE {})
    BY <1>1, <1>2, <1>4, <2>1, <2>6, ServerPaths
  <2>9. DirectoryInv'
    BY <1>1, <1>3, <1>5, <2>1, <2>3, <2>5, <2>7, <2>8, ServeKeepsDirectory
       DEF ListedOrGone
  <2> QED
    BY <2>3, <2>4, <2>9
<1>7. CASE Logout(c, i)
  <2> DEFINE found == Matches(ClientList, r.who)
  <2>1. r.kind = "LOGOUT" /\ net' = n
    BY <1>7 DEF Logout, n, r
  <2>2. pc[c] = "exited" /\ r.who = NameOf[c]
    BY <1>2, <1>4, <2>1 DEF RequestsInv
  <2>3. CASE found = {}
    <3>1. ClientList' = ClientList
      BY <1>7, <2>3 DEF Logout, r
    <3>2. PlacesKept
      BY <1>3 DEF PlacesKept, DirectoryInv, LoggedInListed, Listed
    <3> QED
      BY <1>2, <2>1, <3>1, <3>2, ShrinkKeepsDirectory
  <2>4. CASE found # {}
    <3>1. PICK k \in DOMAIN ClientList :
            k \in found /\ ClientList' = RemoveAt(ClientList, k)
      BY <1>7, <2>4 DEF Logout, r, IsFirst
    <3>2. ClientList[k] \in Peer
      BY <1>1, LenProperties, ElementOfSeq
    <3>3. ClientList[k] = c
      BY <2>2, <3>1, <3>2 DEF Matches, UniqueNames
    <3>4. /\ Range(ClientList') = Range(ClientList) \ {c}
          /\ NoDuplicates'
      BY <1>1, <1>4, <3>1, <3>3, RemoveAtUnique DEF NoDuplicates
    <3>5. Listed(c) /\ \A x \in Peer : (Listed(x)' <=> Listed(x) /\ x # c)
      BY <3>3, <3>4 DEF Listed, Range
    <3>6. /\ \A x, y \in Addr : Range(net'[x][y]) \subseteq Range(net[x][y])
          /\ \A x \in Peer : OneLogin(net'[x][Server])
      BY <1>1, <1>2, <1>4, <2>1 DEF Shrunk
    <3>7. DirectoryInv'
      BY <1>1, <1>3, <2>2, <3>4, <3>5, <3>6, ServeKeepsDirectory
         DEF ListedOrGone
    <3> QED
      BY <2>2, <3>4, <3>5, <3>7
  <2> QED
    BY <2>3, <2>4
<1>8. CASE P2PTrans(c, i) \/ GetAllUser(c, i) \/ ServerIgnores(c, i)
  <2>1. ClientList' = ClientList
    BY <1>8 DEF P2PTrans, GetAllUser, ServerIgnores
  <2>2. \A x \in Peer : (Listed(x)' <=> Listed(x))
    BY <2>1 DEF Listed
  <2>3. NoDuplicates'
    BY <1>4, <2>1 DEF NoDuplicates
  <2>4. \E d \in Addr : \E ms \in Seq(Datagram) :
          /\ \/ net' = Sent(n, Server, d, ms)
             \/ net' = n
             \/ net' = Closed(n, Server)
          /\ \A m \in Range(ms) : IsInt(m) => ListedOrGone(d)
    <3>1. CASE P2PTrans(c, i)
      <4> DEFINE call == Dgram("P2PSOMEONEWANTTOCALLYOU", c, 0)
      <4>1. call \in Datagram /\ ~IsInt(call)
        <5>1. call \in Datagram
          BY DgramType DEF Reply
        <5> QED
          BY <5>1 DEF Dgram, IsInt
      <4>2. <<call>> \in Seq(Datagram) /\ \A m \in Range(<<call>>) : ~IsInt(m)
        BY <4>1 DEF Range
      <4>3. CASE Matches(ClientList, r.who) = {}
        <5>1. net' = Closed(net, Server)
          BY <3>1, <4>3 DEF P2PTrans, r
        <5>2. Closed(n, Server) \in Paths /\ Closed(net, Server) \in Paths
          BY <1>1, <1>2, ClosedPaths DEF Shrunk
        <5>3. \A x, y \in Addr :
                /\ Closed(n, Server)[x][y] = IF y = Server THEN <<>> ELSE n[x][y]
                /\ Closed(net, Server)[x][y] = IF y = Server THEN <<>> ELSE net[x][y]
          BY <1>1, <1>2, ClosedPaths DEF Shrunk
        <5>4. \A x, y \in Addr : y # Server => n[x][y] = net[x][y]
          BY <1>1, TakenPaths DEF n
        <5>5. Closed(n, Server) = Closed(net, Server)
          BY <5>4 DEF Closed
        <5> QED
          BY <1>1, <4>2, <5>1, <5>5
      <4>4. CASE Matches(ClientList, r.who) # {}
        <5>1. PICK k \in DOMAIN ClientList :
                net' = Sent(n, Server, ClientList[k], <<call>>)
          BY <3>1, <4>4 DEF P2PTrans, n, r
        <5>2. ClientList[k] \in Addr
          BY <1>1, LenProperties, ElementOfSeq
        <5> QED
          BY <4>2, <5>1, <5>2
      <4> QED
        BY <4>3, <4>4
    <3>2. CASE GetAllUser(c, i)
      <4> DEFINE ms == <<Dgram("GETALLUSER", None, 0)>> \o Listing(ClientList)
      <4>1. r.kind = "GETALLUSER" /\ net' = Sent(n, Server, c, ms)
        BY <3>2 DEF GetAllUser, n, r
      <4>2. ListedOrGone(c)
        BY <1>2, <1>4, <4>1 DEF RequestsInv
      <4>3. Dgram("GETALLUSER", None, 0) \in Datagram
        BY DgramType DEF Reply
      <4>4. ms \in Seq(Datagram)
        <5>1. <<Dgram("GETALLUSER", None, 0)>> \in Seq(Datagram)
          BY <4>3
        <5>2. Listing(ClientList) \in Seq(Datagram)
          BY <1>1, ListingType
        <5> QED
          BY <5>1, <5>2, ConcatProperties
      <4> HIDE DEF ms
      <4> QED
        BY <1>1, <4>1, <4>2, <4>4
    <3>3. CASE ServerIgnores(c, i)
      <4>1. net' = n
        BY <3>3 DEF ServerIgnores, n
      <4>2. <<>> \in Seq(Datagram) /\ Range(<<>>) = {}
        BY EmptySeq DEF Range
      <4> QED
        BY <1>1, <4>1, <4>2
    <3> QED
      BY <1>8, <3>1, <3>2, <3>3
  <2>5. PICK d \in Addr, ms \in Seq(Datagram) :
          /\ \/ net' = Sent(n, Server, d, ms)
             \/ net' = n
             \/ net' = Closed(n, Server)
          /\ \A m \in Range(ms) : IsInt(m) => ListedOrGone(d)
    BY <2>4
  <2>6. /\ \A x \in Peer, y \in Addr :
             Range(net'[x][y]) \subseteq Range(net[x][y])
        /\ \A x \in Peer : OneLogin(net'[x][Server])
        /\ \A x \in Peer :
             Range(net'[Server][x]) \subseteq
               Range(net[Server][x]) \cup (IF x = d THEN Range(ms) ELSE {})
    BY <1>1, <1>2, <1>4, <2>5, ServerPaths
  <2>7. DirectoryInv'
    BY <1>1, <1>3, <2>2, <2>3, <2>5, <2>6, ServeKeepsDirectory DEF ListedOrGone
  <2> QED
    BY <2>1, <2>7
<1> QED
  BY <1>6, <1>7, <1>8

LEMMA DirectoryInit == Init => DirectoryInv
<1> SUFFICES ASSUME Init PROVE DirectoryInv
  OBVIOUS
<1>1. /\ \A x, y \in Addr : net[x][y] = <<>>
      /\ ClientList = <<>> /\ \A c \in Peer : pc[c] = "start"
      /\ Peer \subseteq Addr /\ Server \in Addr
  BY DEF Init, NetInit, ServerInit, ClientInit, Addr
<1>2. Range(<<>>) = {} /\ OneLogin(<<>>)
  BY DEF Range, OneLogin
<1>3. NoDuplicates /\ LoggedInListed
  BY <1>1 DEF NoDuplicates, LoggedInListed, LoggedInPc
<1>4. \A c \in Peer : ~Listed(c)
  BY <1>1, <1>2 DEF Listed
<1>5. \A c \in Peer : RequestsInv(c) /\ AnswersInv(c)
  BY <1>1, <1>2 DEF RequestsInv, AnswersInv
<1> QED
  BY <1>3, <1>4, <1>5 DEF DirectoryInv

(* Clients and network leave the server's list alone.                      *)
LEMMA ClientDirectory ==
  ASSUME TypeInv, DirectoryInv, NEW c \in Peer, ClientStep(c)
  PROVE  DirectoryInv' /\ UNCHANGED ClientList
<1>1. UNCHANGED ClientList
  BY DEF ClientStep
<1>2. net \in Paths
  BY DEF TypeInv, TypeOK, NetTypeOK
<1>3. CASE Command(c) \/ Main(c)
  BY <1>1, <1>3, MainDirectory
<1>4. CASE RecvDatagram(c)
  <2>1. PICK s \in Addr : \E i \in Receivable(s, c) :
          Recv(c, s, net[s][c][i], Taken(s, c, i))
    BY <1>4 DEF RecvDatagram
  <2>2. PICK i \in Receivable(s, c) :
          Recv(c, s, net[s][c][i], Taken(s, c, i))
    BY <2>1
  <2>3. i \in DOMAIN net[s][c] /\ c \in Addr
    BY <2>2 DEF Receivable, Addr
  <2>4. Shrunk(Taken(s, c, i)) /\ net[s][c][i] \in Range(net[s][c])
    BY <1>2, <2>3, TakenShrinks
  <2> QED
    BY <1>1, <2>2, <2>4, RecvDirectory
<1>5. CASE RecvFails(c)
  <2>1. Recv(c, None, Failed, net) /\ Shrunk(net)
    BY <1>2, <1>5, ShrunkNow DEF RecvFails
  <2> QED
    BY <1>1, <2>1, RecvDirectory
<1> QED
  BY <1>1, <1>3, <1>4, <1>5 DEF ClientStep

LEMMA NetDirectory ==
  ASSUME TypeInv, DirectoryInv, NetStep
  PROVE  DirectoryInv' /\ UNCHANGED <<ClientList, pc>>
<1> PICK s \in Addr, d \in Addr : \E i \in DOMAIN net[s][d] :
      Drop(s, d, i) /\ UNCHANGED <<ClientList, clientVars>>
  BY DEF NetStep
<1> PICK i \in DOMAIN net[s][d] :
      Drop(s, d, i) /\ UNCHANGED <<ClientList, clientVars>>
  OBVIOUS
<1>1. UNCHANGED <<ClientList, pc>> /\ net' = Taken(s, d, i)
  BY DEF Drop, clientVars, threadVars
<1>2. PlacesKept
  BY <1>1 DEF PlacesKept, DirectoryInv, LoggedInListed, Listed
<1>3. Shrunk(net')
  BY <1>1, TakenShrinks DEF TypeInv, TypeOK, NetTypeOK
<1> QED
  BY <1>1, <1>2, <1>3, ShrinkKeepsDirectory

LEMMA DirectoryNext ==
  ASSUME UniqueNames, TypeInv, DirectoryInv, [Next]_vars
  PROVE  DirectoryInv'
<1>1. CASE ServerStep
  BY <1>1, ServerDirectory DEF ServerStep
<1>2. CASE NetStep
  BY <1>2, NetDirectory
<1>3. CASE \E c \in Peer : ClientStep(c)
  BY <1>3, ClientDirectory
<1>4. CASE UNCHANGED vars
  <2>1. UNCHANGED <<ClientList, pc, net>>
    BY <1>4 DEF vars, netVars, clientVars, threadVars
  <2>2. PlacesKept
    BY <2>1 DEF PlacesKept, DirectoryInv, LoggedInListed, Listed
  <2> QED
    BY <2>1, <2>2, ShrunkNow, ShrinkKeepsDirectory
       DEF TypeInv, TypeOK, NetTypeOK
<1> QED
  BY <1>1, <1>2, <1>3, <1>4 DEF Next

(* With unique names, whatever the network does: no client is in the list  *)
(* twice, a LOGIN under way is its sender's only one, a LOGOUT under way    *)
(* names one that has ended, a reply is under way to the listed only.      *)
THEOREM DirectoryHolds == UniqueNames /\ Spec => []DirectoryInv
<1>1. UniqueNames /\ TypeInv /\ DirectoryInv /\ [Next]_vars => DirectoryInv'
  BY DirectoryNext
<1>2. UniqueNames => UniqueNames'
  BY DEF UniqueNames
<1> QED
  BY <1>1, <1>2, TypesInit, TypesNext, DirectoryInit, PTL DEF Spec

(* With unique names, a client that got past ConnectToServer's count is in *)
(* P2PServer's ClientList until it exits, however requests and replies are *)
(* lost, reordered or delayed.                                             *)
THEOREM LoggedInStaysListed == UniqueNames /\ Spec => []LoggedInListed
<1>1. DirectoryInv => LoggedInListed
  BY DEF DirectoryInv
<1> QED
  BY <1>1, DirectoryHolds, PTL

(* A step of a client ends no process but its own, and none is revived.    *)
LEMMA ClientEnds ==
  ASSUME TypeInv, NEW c \in Peer, ClientStep(c)
  PROVE  LET gone == {x \in Peer : pc[x] = "exited"}
         IN gone' = gone \/ gone' = gone \cup {c}
<1> USE DEF At, Goto, LoggedIn, Terminate
<1>1. pc \in [Peer -> MainPc]
  BY DEF TypeInv, TypeOK, ClientTypeOK
<1>2. \/ pc' = pc
      \/ /\ pc[c] # "exited" \/ pc'[c] = "exited"
         /\ \E l \in MainPc : pc' = [pc EXCEPT ![c] = l]
  <2>1. CASE Command(c)
    BY <1>1, <2>1 DEF Command, SendLogin, Exit, GetUsers, SendCommand,
                      threadVars, MainPc
  <2>2. CASE Main(c)
    BY <1>1, <2>2 DEF Main, FindUser, NotFound, SendHeader, SendText, GiveUp, SeeACK, MissACK,
                      AskServer, Retry, threadVars, MainPc
  <2>3. CASE RecvDatagram(c) \/ RecvFails(c)
    <3>1. PICK s, r, n : Recv(c, s, r, n)
      BY <2>3 DEF RecvDatagram, RecvFails
    <3> QED
      BY <1>1, <3>1 DEF Recv, RecvLoginCount, RecvLoginNode, RecvHeader,
                        RecvText, RecvUserCount, RecvUserNode, MainPc
  <2> QED
    BY <2>1, <2>2, <2>3 DEF ClientStep
<1>3. \A x \in Peer : x # c => pc'[x] = pc[x]
  BY <1>1, <1>2
<1>4. pc[c] = "exited" => pc'[c] = "exited"
  BY <1>1, <1>2
<1> QED
  BY <1>3, <1>4

(* With unique names, P2PServer's ClientList implements P2PDirectory: the  *)
(* switch's cases add a process once and remove only one that has ended.   *)
THEOREM ListImplementsDirectory == UniqueNames /\ Spec => ListIsDirectory
<1>1. Init => Directory!Init
  <2> SUFFICES ASSUME Init PROVE Directory!Init
    OBVIOUS
  <2>1. ClientList = <<>> /\ \A c \in Peer : pc[c] = "start"
    BY DEF Init, ServerInit, ClientInit
  <2> QED
    BY <2>1 DEF Directory!Init, Range
<1>2. ASSUME UniqueNames, TypeInv, DirectoryInv, [Next]_vars
      PROVE  [Directory!Next]_Directory!vars
  <2> DEFINE gone == {c \in Peer : pc[c] = "exited"}
  <2>1. CASE ServerStep
    <3>1. PICK c \in Peer : ServerNext(c) /\ UNCHANGED clientVars
      BY <2>1 DEF ServerStep
    <3>2. gone' = gone
      BY <3>1 DEF clientVars, threadVars
    <3>3. \/ Range(ClientList') = Range(ClientList)
          \/ ~Listed(c) /\ Range(ClientList') = Range(ClientList) \cup {c}
          \/ /\ Listed(c) /\ pc[c] = "exited"
             /\ Range(ClientList') = Range(ClientList) \ {c}
      BY <1>2, <3>1, ServerDirectory
    <3> QED
      BY <3>2, <3>3 DEF Directory!Next, Directory!Join, Directory!Leave,
                        Directory!vars, Listed
  <2>2. CASE NetStep
    BY <1>2, <2>2, NetDirectory DEF Directory!vars
  <2>3. CASE \E c \in Peer : ClientStep(c)
    <3>1. PICK c \in Peer : ClientStep(c)
      BY <2>3
    <3>2. UNCHANGED ClientList
      BY <3>1 DEF ClientStep
    <3>3. gone' \in {gone, gone \cup {c}}
      BY <1>2, <3>1, ClientEnds
    <3> QED
      BY <3>2, <3>3 DEF Directory!Next, Directory!Depart, Directory!vars
  <2>4. CASE UNCHANGED vars
    BY <2>4 DEF vars, clientVars, threadVars, Directory!vars
  <2> QED
    BY <1>2, <2>1, <2>2, <2>3, <2>4 DEF Next
<1>3. UniqueNames => UniqueNames'
  BY DEF UniqueNames
<1>4. UniqueNames /\ TypeInv /\ DirectoryInv /\ [Next]_vars => DirectoryInv'
  BY DirectoryNext
<1> QED
  BY <1>1, <1>2, <1>3, <1>4, TypesInit, TypesNext, DirectoryInit, PTL
     DEF Spec, ListIsDirectory, Directory!Spec

-----------------------------------------------------------------------------
(* Answers: what "Send OK!" is paid with.                                  *)

(* The answers under way to c, by their path and their place on it.        *)
Acks(n, c) == {x \in Addr \X Nat : /\ x[2] \in DOMAIN n[x[1]][c]
                                   /\ n[x[1]][c][x[2]].kind = "P2PMESSAGEACK"}

NoAcks(ms) == \A i \in DOMAIN ms : ms[i].kind # "P2PMESSAGEACK"

(* From n to m no client has gained an answer.                             *)
NotMore(n, m) ==
  \A c \in Peer : IsFiniteSet(Acks(n, c)) =>
    /\ IsFiniteSet(Acks(m, c))
    /\ Cardinality(Acks(m, c)) <= Cardinality(Acks(n, c))

LEMMA NotMoreTwice ==
  ASSUME NEW n, NEW m, NEW l, NotMore(n, m), NotMore(m, l)
  PROVE  NotMore(n, l)
<1> SUFFICES ASSUME NEW c \in Peer, IsFiniteSet(Acks(n, c))
             PROVE  /\ IsFiniteSet(Acks(l, c))
                    /\ Cardinality(Acks(l, c)) <= Cardinality(Acks(n, c))
  BY DEF NotMore
<1>1. /\ IsFiniteSet(Acks(m, c))
      /\ Cardinality(Acks(m, c)) <= Cardinality(Acks(n, c))
  BY DEF NotMore
<1>2. /\ IsFiniteSet(Acks(l, c))
      /\ Cardinality(Acks(l, c)) <= Cardinality(Acks(m, c))
  BY <1>1 DEF NotMore
<1>3. /\ Cardinality(Acks(n, c)) \in Nat /\ Cardinality(Acks(m, c)) \in Nat
      /\ Cardinality(Acks(l, c)) \in Nat
  BY <1>1, <1>2, FS_CardinalityType
<1> QED  BY <1>1, <1>2, <1>3

LEMMA SubsetNotMore ==
  ASSUME NEW n, NEW m, \A c \in Peer : Acks(m, c) \subseteq Acks(n, c)
  PROVE  NotMore(n, m)
BY FS_Subset DEF NotMore

LEMMA ClosedAcks ==
  ASSUME NEW n \in Paths, NEW a
  PROVE  NotMore(n, Closed(n, a))
<1>1. \A x, y \in Addr : Closed(n, a)[x][y] = IF y = a THEN <<>> ELSE n[x][y]
  BY ClosedPaths
<1>2. DOMAIN <<>> = {}
  OBVIOUS
<1>3. ASSUME NEW c \in Peer PROVE Acks(Closed(n, a), c) \subseteq Acks(n, c)
  BY <1>1, <1>2 DEF Acks, Addr
<1> QED  BY <1>3, SubsetNotMore

(* Sending anything else than an answer.                                   *)
LEMMA SentNoAcks ==
  ASSUME NEW n \in Paths, NEW s \in Addr, NEW d, NEW ms \in Seq(Datagram),
         up \in SUBSET Addr, NoAcks(ms)
  PROVE  NotMore(n, Sent(n, s, d, ms))
<1> DEFINE m == Sent(n, s, d, ms)
<1>1. \A x, y \in Addr : m[x][y] = IF x = s /\ y = d /\ d \in up
                                   THEN n[x][y] \o ms ELSE n[x][y]
  BY SentPaths
<1>2. ASSUME NEW c \in Peer, NEW x \in Acks(m, c)
      PROVE  x \in Acks(n, c)
  <2>1. /\ x \in Addr \X Nat /\ x[1] \in Addr /\ c \in Addr
        /\ x[2] \in DOMAIN m[x[1]][c] /\ m[x[1]][c][x[2]].kind = "P2PMESSAGEACK"
    BY <1>2 DEF Acks, Addr
  <2> DEFINE q == n[x[1]][c]
  <2>2. q \in Seq(Datagram)
    BY <2>1 DEF Paths
  <2> HIDE DEF m
  <2>3. CASE m[x[1]][c] = q
    BY <2>1, <2>3 DEF Acks
  <2>4. CASE m[x[1]][c] = q \o ms
    <3> HIDE DEF q
    <3>1. /\ DOMAIN q = 1..Len(q) /\ DOMAIN ms = 1..Len(ms)
          /\ Len(q) \in Nat /\ Len(ms) \in Nat
          /\ DOMAIN (q \o ms) = 1..Len(q) + Len(ms)
          /\ \A j \in 1..Len(q) + Len(ms) :
               (q \o ms)[j] = IF j <= Len(q) THEN q[j] ELSE ms[j - Len(q)]
      BY <2>2, ConcatProperties, LenProperties
    <3>2. x[2] \in 1..Len(q) + Len(ms)
      BY <2>1, <2>4, <3>1
    <3>3. CASE x[2] > Len(q)
      <4>1. x[2] - Len(q) \in DOMAIN ms
        BY <3>1, <3>2, <3>3
      <4>2. ms[x[2] - Len(q)].kind = "P2PMESSAGEACK"
        BY <2>1, <2>4, <3>1, <3>2, <3>3
      <4> QED  BY <4>1, <4>2 DEF NoAcks
    <3>4. CASE x[2] <= Len(q)
      <4>1. x[2] \in DOMAIN q
        BY <3>1, <3>2, <3>4
      <4>2. q[x[2]].kind = "P2PMESSAGEACK"
        BY <2>1, <2>4, <3>1, <3>2, <3>4
      <4> QED  BY <2>1, <4>1, <4>2 DEF Acks, q
    <3> QED  BY <3>1, <3>2, <3>3, <3>4
  <2> QED  BY <1>1, <2>1, <2>3, <2>4
<1>3. \A c \in Peer : Acks(m, c) \subseteq Acks(n, c)
  BY <1>2
<1> QED  BY <1>3, SubsetNotMore

LEMMA ConcatNoAcks ==
  ASSUME NEW q \in Seq(Datagram), NEW r \in Seq(Datagram), NoAcks(q), NoAcks(r)
  PROVE  q \o r \in Seq(Datagram) /\ NoAcks(q \o r)
<1>1. /\ DOMAIN q = 1..Len(q) /\ DOMAIN r = 1..Len(r)
      /\ Len(q) \in Nat /\ Len(r) \in Nat
      /\ q \o r \in Seq(Datagram) /\ DOMAIN (q \o r) = 1..Len(q) + Len(r)
      /\ \A j \in 1..Len(q) + Len(r) :
           (q \o r)[j] = IF j <= Len(q) THEN q[j] ELSE r[j - Len(q)]
  BY ConcatProperties, LenProperties
<1>2. ASSUME NEW j \in 1..Len(q) + Len(r)
      PROVE  (q \o r)[j].kind # "P2PMESSAGEACK"
  <2>1. CASE j <= Len(q)
    BY <1>1, <2>1 DEF NoAcks
  <2>2. CASE j > Len(q)
    <3>1. j - Len(q) \in DOMAIN r
      BY <1>1, <2>2
    <3> QED  BY <1>1, <2>2, <3>1 DEF NoAcks
  <2> QED  BY <1>1, <2>1, <2>2
<1> QED  BY <1>1, <1>2 DEF NoAcks

LEMMA ListingNoAcks ==
  ASSUME NEW l \in Seq(Peer)
  PROVE  NoAcks(Listing(l))
<1> DEFINE nodes == [j \in DOMAIN l |-> Dgram("NODE", l[j], 0)]
           head == <<Dgram("COUNT", None, Len(l))>>
<1>1. DOMAIN l = 1..Len(l) /\ Len(l) \in Nat /\ \A j \in 1..Len(l) : l[j] \in Peer
  BY LenProperties, ElementOfSeq
<1>2. nodes \in Seq(Datagram)
  <2>1. \A j \in 1..Len(l) : Dgram("NODE", l[j], 0) \in Datagram
    BY <1>1, DgramType DEF Reply
  <2>2. nodes \in [1..Len(l) -> Datagram]
    BY <1>1, <2>1
  <2> QED  BY <1>1, <2>2, SeqDef
<1>3. NoAcks(nodes)
  BY DEF NoAcks, Dgram
<1>4. head \in Seq(Datagram)
  <2>1. Dgram("COUNT", None, Len(l)) \in Datagram
    BY <1>1, DgramType DEF Reply
  <2> QED  BY <2>1
<1>5. NoAcks(head)
  BY DEF NoAcks, Dgram
<1> HIDE DEF nodes, head
<1> QED  BY <1>2, <1>3, <1>4, <1>5, ConcatNoAcks DEF Listing, nodes, head

Ack == Dgram("P2PMESSAGEACK", None, 0)

(* Sending an answer costs its receiver's account one, and nobody else's.  *)
LEMMA SentAck ==
  ASSUME NEW n \in Paths, NEW s \in Addr, NEW d,
         up \in SUBSET Addr, NEW c \in Peer, IsFiniteSet(Acks(n, c))
  PROVE  LET m == Sent(n, s, d, <<Ack>>)
         IN  /\ IsFiniteSet(Acks(m, c))
             /\ Cardinality(Acks(m, c))
                  <= Cardinality(Acks(n, c)) + (IF c = d THEN 1 ELSE 0)
<1> DEFINE ms == <<Ack>>
           m == Sent(n, s, d, ms)
           q == n[s][d]
           new == <<s, Len(q) + 1>>
<1>1. ms \in Seq(Datagram) /\ Len(ms) = 1
  <2>1. Ack \in Datagram
    BY DgramType DEF PeerMsg, Ack
  <2> QED  BY <2>1
<1> HIDE DEF ms
<1>2. \A x, y \in Addr : m[x][y] = IF x = s /\ y = d /\ d \in up
                                   THEN n[x][y] \o ms ELSE n[x][y]
  BY <1>1, SentPaths
<1> HIDE DEF m
<1>3. c \in Addr
  BY DEF Addr
<1>4. CASE c # d
  <2>1. Acks(m, c) = Acks(n, c)
    BY <1>2, <1>3, <1>4 DEF Acks
  <2> QED  BY <1>4, <2>1, FS_CardinalityType DEF m, ms
<1>5. CASE c = d
  <2>1. q \in Seq(Datagram)
    BY <1>3, <1>5 DEF Paths
  <2>2. /\ DOMAIN q = 1..Len(q) /\ Len(q) \in Nat
        /\ DOMAIN (q \o ms) = 1..Len(q) + 1
        /\ \A j \in 1..Len(q) : (q \o ms)[j] = q[j]
    <3> HIDE DEF q
    <3>1. /\ DOMAIN q = 1..Len(q) /\ Len(q) \in Nat
          /\ DOMAIN (q \o ms) = 1..Len(q) + Len(ms)
          /\ \A j \in 1..Len(q) + Len(ms) :
               (q \o ms)[j] = IF j <= Len(q) THEN q[j] ELSE ms[j - Len(q)]
      BY <1>1, <2>1, ConcatProperties, LenProperties
    <3> QED  BY <1>1, <3>1
  <2>3. ASSUME NEW x \in Acks(m, c) PROVE x \in Acks(n, c) \cup {new}
    <3>1. /\ x \in Addr \X Nat /\ x = <<x[1], x[2]>> /\ x[1] \in Addr
          /\ x[2] \in DOMAIN m[x[1]][c] /\ m[x[1]][c][x[2]].kind = "P2PMESSAGEACK"
      BY <2>3 DEF Acks
    <3>2. CASE m[x[1]][c] = n[x[1]][c]
      BY <3>1, <3>2 DEF Acks
    <3>3. CASE x[1] = s /\ m[x[1]][c] = q \o ms
      <4>1. x[2] \in 1..Len(q) + 1
        BY <2>2, <3>1, <3>3
      <4>2. CASE x[2] = Len(q) + 1
        BY <3>1, <3>3, <4>2
      <4>3. CASE x[2] \in 1..Len(q)
        <5>1. q[x[2]].kind = "P2PMESSAGEACK" /\ x[2] \in DOMAIN q
          BY <2>2, <3>1, <3>3, <4>3
        <5> QED  BY <1>5, <3>1, <3>3, <5>1 DEF Acks
      <4> QED  BY <2>2, <4>1, <4>2, <4>3
    <3> QED  BY <1>2, <1>3, <1>5, <3>1, <3>2, <3>3
  <2>4. /\ IsFiniteSet(Acks(n, c) \cup {new})
        /\ Cardinality(Acks(n, c) \cup {new}) <= Cardinality(Acks(n, c)) + 1
    <3>1. Cardinality(Acks(n, c)) \in Nat
      BY FS_CardinalityType
    <3> HIDE DEF new
    <3> QED  BY <3>1, FS_AddElement
  <2>5. /\ IsFiniteSet(Acks(m, c))
        /\ Cardinality(Acks(m, c)) <= Cardinality(Acks(n, c) \cup {new})
    BY <2>3, <2>4, FS_Subset
  <2>6. /\ Cardinality(Acks(n, c)) \in Nat /\ Cardinality(Acks(m, c)) \in Nat
        /\ Cardinality(Acks(n, c) \cup {new}) \in Nat
    BY <2>4, <2>5, FS_CardinalityType
  <2> HIDE DEF new
  <2> QED  BY <1>5, <2>4, <2>5, <2>6 DEF m, ms
<1> QED  BY <1>4, <1>5

(* Taking a datagram gives nobody an answer, and takes one if it was one.  *)
LEMMA TakenAcks ==
  ASSUME net \in Paths, NEW s \in Addr, NEW d \in Addr,
         NEW i \in DOMAIN net[s][d], NEW c \in Peer, IsFiniteSet(Acks(net, c))
  PROVE  LET m == Taken(s, d, i)
             was == c = d /\ net[s][d][i].kind = "P2PMESSAGEACK"
         IN  /\ IsFiniteSet(Acks(m, c))
             /\ Cardinality(Acks(m, c)) + (IF was THEN 1 ELSE 0)
                  <= Cardinality(Acks(net, c))
<1> DEFINE m == Taken(s, d, i)
           q == net[s][d]
           was == c = d /\ q[i].kind = "P2PMESSAGEACK"
           T == IF was THEN Acks(net, c) \ {<<s, i>>} ELSE Acks(net, c)
<1>1. \A x, y \in Addr : m[x][y] =
        IF x = s /\ y = d THEN RemoveAt(net[x][y], i) ELSE net[x][y]
  BY TakenPaths
<1>2. c \in Addr
  BY DEF Addr
<1> HIDE DEF m
<1>3. CASE c # d
  <2>1. Acks(m, c) = Acks(net, c)
    BY <1>1, <1>2, <1>3 DEF Acks
  <2> QED  BY <1>3, <2>1, FS_CardinalityType DEF m
<1>4. CASE c = d
  <2>1. q \in Seq(Datagram)
    BY DEF Paths
  <2>2. /\ DOMAIN q = 1..Len(q) /\ Len(q) \in Nat /\ i \in 1..Len(q)
        /\ DOMAIN RemoveAt(q, i) = 1..Len(q)-1
        /\ \A j \in 1..Len(q)-1 :
             RemoveAt(q, i)[j] = IF j < i THEN q[j] ELSE q[j+1]
    <3> HIDE DEF q
    <3>1. DOMAIN q = 1..Len(q) /\ Len(q) \in Nat
      BY <2>1, LenProperties
    <3>2. i \in DOMAIN q
      BY DEF q
    <3>3. /\ RemoveAt(q, i) \in Seq(Datagram) /\ Len(RemoveAt(q, i)) = Len(q)-1
          /\ \A j \in 1..Len(q)-1 :
               RemoveAt(q, i)[j] = IF j < i THEN q[j] ELSE q[j+1]
      BY <2>1, <3>2, RemoveAtShifts
    <3> QED  BY <3>1, <3>2, <3>3, LenProperties
  <2> DEFINE F(x) == <<x[1], IF x[1] = s /\ x[2] >= i THEN x[2] + 1 ELSE x[2]>>
             f == [x \in Acks(m, c) |-> F(x)]
  <2>3. m[s][c] = RemoveAt(q, i) /\ \A x \in Addr : x # s => m[x][c] = net[x][c]
    BY <1>1, <1>2, <1>4
  <2>4. ASSUME NEW x \in Acks(m, c) PROVE F(x) \in T
    <3>1. /\ x \in Addr \X Nat /\ x = <<x[1], x[2]>> /\ x[1] \in Addr /\ x[2] \in Nat
          /\ x[2] \in DOMAIN m[x[1]][c] /\ m[x[1]][c][x[2]].kind = "P2PMESSAGEACK"
      BY <2>4 DEF Acks
    <3>2. CASE x[1] # s
      BY <1>4, <2>3, <3>1, <3>2 DEF Acks
    <3>3. CASE x[1] = s
      <4>1. x[2] \in 1..Len(q)-1
        BY <2>2, <2>3, <3>1, <3>3
      <4> DEFINE k == IF x[2] >= i THEN x[2] + 1 ELSE x[2]
      <4>2. k \in 1..Len(q) /\ k # i /\ k \in Nat
        BY <2>2, <4>1
      <4>3. q[k].kind = "P2PMESSAGEACK"
        BY <2>2, <2>3, <3>1, <3>3, <4>1
      <4>4. F(x) = <<s, k>>
        BY <3>3
      <4> HIDE DEF k
      <4>5. <<s, k>> \in Acks(net, c)
        BY <1>4, <2>2, <4>2, <4>3 DEF Acks
      <4> QED  BY <4>2, <4>4, <4>5
    <3> QED  BY <3>2, <3>3
  <2>5. ASSUME NEW x \in Acks(m, c), NEW y \in Acks(m, c), F(x) = F(y)
        PROVE  x = y
    <3>1. /\ x = <<x[1], x[2]>> /\ x[2] \in Nat
          /\ y = <<y[1], y[2]>> /\ y[2] \in Nat
      BY DEF Acks
    <3>2. x[1] = y[1]
      BY <2>5
    <3>3. x[2] = y[2]
      BY <2>2, <2>5, <3>1
    <3> QED  BY <3>1, <3>2, <3>3
  <2> HIDE DEF F
  <2>6. f \in Injection(Acks(m, c), T)
    <3>1. f \in [Acks(m, c) -> T]
      BY <2>4
    <3> QED  BY <2>5, <3>1 DEF Injection, IsInjective
  <2>7. /\ IsFiniteSet(T) /\ Cardinality(T) \in Nat
        /\ Cardinality(T) + (IF was THEN 1 ELSE 0) <= Cardinality(Acks(net, c))
    <3>1. CASE ~was
      BY <3>1, FS_CardinalityType
    <3>2. CASE was
      <4>1. <<s, i>> \in Acks(net, c)
        BY <1>4, <2>2, <3>2 DEF Acks
      <4>2. /\ IsFiniteSet(Acks(net, c) \ {<<s, i>>})
            /\ Cardinality(Acks(net, c) \ {<<s, i>>}) = Cardinality(Acks(net, c)) - 1
        BY <4>1, FS_RemoveElement
      <4>3. T = Acks(net, c) \ {<<s, i>>}
        BY <3>2
      <4>4. Cardinality(Acks(net, c)) \in Nat /\ Cardinality(T) \in Nat
        BY <4>2, <4>3, FS_CardinalityType
      <4> HIDE DEF T
      <4> QED  BY <3>2, <4>2, <4>3, <4>4
    <3> QED  BY <3>1, <3>2
  <2> HIDE DEF T, was
  <2>8. /\ IsFiniteSet(Acks(m, c)) /\ Cardinality(Acks(m, c)) \in Nat
        /\ Cardinality(Acks(m, c)) <= Cardinality(T)
    <3> HIDE DEF f
    <3> QED  BY <2>6, <2>7, FS_Injection, FS_CardinalityType
  <2>9. Cardinality(Acks(net, c)) \in Nat
    BY FS_CardinalityType
  <2> QED  BY <2>7, <2>8, <2>9 DEF m, was
<1> QED  BY <1>3, <1>4

LEMMA TakenNotMore ==
  ASSUME net \in Paths, NEW s \in Addr, NEW d \in Addr, NEW i \in DOMAIN net[s][d]
  PROVE  NotMore(net, Taken(s, d, i))
<1> SUFFICES ASSUME NEW c \in Peer, IsFiniteSet(Acks(net, c))
             PROVE  /\ IsFiniteSet(Acks(Taken(s, d, i), c))
                    /\ Cardinality(Acks(Taken(s, d, i), c)) <= Cardinality(Acks(net, c))
  BY DEF NotMore
<1> DEFINE m == Taken(s, d, i)
           k == IF c = d /\ net[s][d][i].kind = "P2PMESSAGEACK" THEN 1 ELSE 0
<1>1. /\ IsFiniteSet(Acks(m, c))
      /\ Cardinality(Acks(m, c)) + k <= Cardinality(Acks(net, c))
  BY TakenAcks
<1>2. Cardinality(Acks(m, c)) \in Nat /\ Cardinality(Acks(net, c)) \in Nat
  BY <1>1, FS_CardinalityType
<1>3. k \in 0..1
  OBVIOUS
<1> HIDE DEF m, k
<1> QED  BY <1>1, <1>2, <1>3 DEF m

-----------------------------------------------------------------------------
(* The account: an answer under way, one that was received in the round    *)
(* that is under way, and one that "Send OK!" was said for have each cost  *)
(* a text that was read.                                                   *)
Received(c) == IF RecvedACK[c] /\ pc[c] \in {"text", "poll"} THEN 1 ELSE 0

AccountInv ==
  \A c \in Peer :
    /\ IsFiniteSet(Acks(net, c))
    /\ Cardinality(Acks(net, c)) + Received(c) + okays[c] <= eaten[c]

LEMMA AccountInit == Init => AccountInv
<1> SUFFICES ASSUME Init, NEW c \in Peer
             PROVE  /\ IsFiniteSet(Acks(net, c))
                    /\ Cardinality(Acks(net, c)) + Received(c) + okays[c] <= eaten[c]
  BY DEF AccountInv
<1>1. DOMAIN <<>> = {}
  OBVIOUS
<1>2. Acks(net, c) = {}
  BY <1>1 DEF Init, NetInit, Acks, Addr
<1>3. Received(c) = 0 /\ okays[c] = 0 /\ eaten[c] = 0
  BY DEF Init, ClientInit, Received
<1> QED  BY <1>2, <1>3, FS_EmptySet

(* What neither says "Send OK!" nor receives or sends an answer.           *)
LEMMA OtherKeepsAccount ==
  ASSUME TypeInv, AccountInv, NotMore(net, net'), okays' = okays, eaten' = eaten,
         \A c \in Peer : Received(c)' <= Received(c)
  PROVE  AccountInv'
<1> SUFFICES ASSUME NEW c \in Peer
             PROVE  /\ IsFiniteSet(Acks(net', c))
                    /\ Cardinality(Acks(net', c)) + Received(c)' + okays[c] <= eaten[c]
  BY DEF AccountInv
<1>1. /\ IsFiniteSet(Acks(net, c))
      /\ Cardinality(Acks(net, c)) + Received(c) + okays[c] <= eaten[c]
  BY DEF AccountInv
<1>2. /\ IsFiniteSet(Acks(net', c))
      /\ Cardinality(Acks(net', c)) <= Cardinality(Acks(net, c))
  BY <1>1 DEF NotMore
<1>3. Cardinality(Acks(net, c)) \in Nat /\ Cardinality(Acks(net', c)) \in Nat
  BY <1>1, <1>2, FS_CardinalityType
<1>4. okays[c] \in Nat /\ eaten[c] \in Nat
  BY DEF TypeInv, TypeOK, ClientTypeOK
<1>5. Received(c) \in 0..1 /\ Received(c)' \in 0..1 /\ Received(c)' <= Received(c)
  BY DEF Received
<1> QED  BY <1>1, <1>2, <1>3, <1>4, <1>5

LEMMA SameNotMore == \A n : NotMore(n, n)
BY SubsetNotMore

(* The server answers nobody's text.                                       *)
LEMMA ServerKeepsAccount ==
  ASSUME TypeInv, AccountInv, NEW c \in Peer, ServerNext(c), UNCHANGED clientVars
  PROVE  AccountInv'
<1> PICK i \in Receivable(c, Server) :
          \/ Login(c, i) \/ Logout(c, i) \/ P2PTrans(c, i)
          \/ GetAllUser(c, i) \/ ServerIgnores(c, i)
  BY DEF ServerNext
<1> DEFINE n == Taken(c, Server, i)
<1>1. i \in DOMAIN net[c][Server]
  BY DEF Receivable
<1>2. /\ c \in Addr /\ Server \in Addr /\ up \in SUBSET Addr /\ net \in Paths
      /\ ClientList \in Seq(Peer)
  BY DEF TypeInv, TypeOK, NetTypeOK, ServerTypeOK, Addr
<1>3. n \in Paths /\ NotMore(net, n)
  BY <1>1, <1>2, TakenPaths, TakenNotMore
<1> HIDE DEF n
<1>4. ASSUME NEW d, NEW ms \in Seq(Datagram), NoAcks(ms), net' = Sent(n, Server, d, ms)
      PROVE  NotMore(net, net')
  BY <1>2, <1>3, <1>4, SentNoAcks, NotMoreTwice
<1>5. ASSUME NEW l \in Seq(Peer)
      PROVE  Listing(l) \in Seq(Datagram) /\ NoAcks(Listing(l))
  BY ListingType, ListingNoAcks
<1>6. NotMore(net, net')
  <2>1. CASE Login(c, i)
    <3>1. ClientList' \in Seq(Peer)
      BY <1>2, <2>1, AppendProperties DEF Login
    <3> QED  BY <1>4, <1>5, <2>1, <3>1 DEF Login, n
  <2>2. CASE Logout(c, i) \/ ServerIgnores(c, i)
    BY <1>3, <2>2 DEF Logout, ServerIgnores, n
  <2>3. CASE P2PTrans(c, i)
    <3> DEFINE call == <<Dgram("P2PSOMEONEWANTTOCALLYOU", c, 0)>>
    <3>1. call \in Seq(Datagram) /\ NoAcks(call)
      <4>1. Dgram("P2PSOMEONEWANTTOCALLYOU", c, 0) \in Datagram
        BY DgramType DEF Reply
      <4>2. call \in Seq(Datagram)
        BY <4>1
      <4>3. NoAcks(call)
        BY DEF NoAcks, Dgram
      <4> QED  BY <4>2, <4>3
    <3> HIDE DEF call
    <3>2. CASE \E k \in DOMAIN ClientList : net' = Sent(n, Server, ClientList[k], call)
      BY <1>4, <3>1, <3>2
    <3>3. CASE net' = Closed(net, Server)
      BY <1>2, <3>3, ClosedAcks
    <3> QED  BY <2>3, <3>2, <3>3 DEF P2PTrans, n, call
  <2>4. CASE GetAllUser(c, i)
    <3> DEFINE head == <<Dgram("GETALLUSER", None, 0)>>
    <3>1. head \in Seq(Datagram) /\ NoAcks(head)
      <4>1. Dgram("GETALLUSER", None, 0) \in Datagram
        BY DgramType DEF Reply
      <4>2. head \in Seq(Datagram)
        BY <4>1
      <4>3. NoAcks(head)
        BY DEF NoAcks, Dgram
      <4> QED  BY <4>2, <4>3
    <3> HIDE DEF head
    <3>2. head \o Listing(ClientList) \in Seq(Datagram)
          /\ NoAcks(head \o Listing(ClientList))
      BY <1>2, <1>5, <3>1, ConcatNoAcks
    <3> QED  BY <1>4, <2>4, <3>2 DEF GetAllUser, n, head
  <2> QED  BY <2>1, <2>2, <2>3, <2>4
<1>7. okays' = okays /\ eaten' = eaten /\ \A p \in Peer : Received(p)' <= Received(p)
  BY DEF clientVars, history, threadVars, sendVars, Received
<1> QED  BY <1>6, <1>7, OtherKeepsAccount

(* The main thread and the user: "Send OK!" is paid with the answer that   *)
(* was received, and the next round begins without one.                    *)
LEMMA MainKeepsAccount ==
  ASSUME TypeInv, AccountInv, NEW c \in Peer, Command(c) \/ Main(c)
  PROVE  AccountInv'
<1> USE DEF At, Goto
<1>1. /\ c \in Addr /\ Server \in Addr /\ up \in SUBSET Addr /\ net \in Paths
      /\ pc \in [Peer -> MainPc] /\ RecvedACK \in [Peer -> BOOLEAN]
      /\ sends \in [Peer -> Nat] /\ wanted \in [Peer -> Name \cup {None}]
  BY DEF TypeInv, TypeOK, NetTypeOK, ClientTypeOK, Addr
<1>2. ASSUME NEW d, NEW ms \in Seq(Datagram), NoAcks(ms),
             \/ net' = Sent(net, c, d, ms)
             \/ net' = Closed(Sent(net, c, d, ms), c)
      PROVE  NotMore(net, net')
  <2>1. NotMore(net, Sent(net, c, d, ms)) /\ Sent(net, c, d, ms) \in Paths
    BY <1>1, <1>2, SentNoAcks, SentPaths
  <2> QED  BY <1>2, <2>1, ClosedAcks, NotMoreTwice
<1>3. ASSUME NEW kind \in Request, NEW who \in Name \cup {None}
      PROVE  <<Dgram(kind, who, 0)>> \in Seq(Datagram) /\ NoAcks(<<Dgram(kind, who, 0)>>)
  <2>1. Dgram(kind, who, 0) \in Datagram
    BY DgramType DEF Request
  <2>2. <<Dgram(kind, who, 0)>> \in Seq(Datagram)
    BY <2>1
  <2>3. NoAcks(<<Dgram(kind, who, 0)>>)
    BY DEF NoAcks, Dgram, Request
  <2> QED  BY <2>2, <2>3
<1>4. NameOf[c] \in Name \cup {None} /\ None \in Name \cup {None}
      /\ wanted[c] \in Name \cup {None}
  BY <1>1, EveryPeerNamed
<1>5. CASE SendLogin(c)
  <2>1. net' = Sent(net, c, Server, <<Dgram("LOGIN", NameOf[c], 0)>>)
    BY <1>5 DEF SendLogin, Transmit
  <2>2. NotMore(net, net')
    BY <1>2, <1>3, <1>4, <2>1 DEF Request
  <2>3. okays' = okays /\ eaten' = eaten /\ \A p \in Peer : Received(p)' <= Received(p)
    BY <1>1, <1>5 DEF SendLogin, history, sendVars, Received
  <2> QED  BY <2>2, <2>3, OtherKeepsAccount
<1>6. CASE Exit(c)
  <2>1. net' = Closed(Sent(net, c, Server, <<Dgram("LOGOUT", NameOf[c], 0)>>), c)
    BY <1>6 DEF Exit, Terminate
  <2>2. NotMore(net, net')
    BY <1>2, <1>3, <1>4, <2>1 DEF Request
  <2>3. okays' = okays /\ eaten' = eaten /\ \A p \in Peer : Received(p)' <= Received(p)
    BY <1>1, <1>6 DEF Exit, Terminate, history, sendVars, Received
  <2> QED  BY <2>2, <2>3, OtherKeepsAccount
<1>7. CASE GetUsers(c)
  <2>1. net' = Sent(net, c, Server, <<Dgram("GETALLUSER", None, 0)>>)
    BY <1>7 DEF GetUsers, Transmit
  <2>2. NotMore(net, net')
    BY <1>2, <1>3, <1>4, <2>1 DEF Request
  <2>3. okays' = okays /\ eaten' = eaten /\ \A p \in Peer : Received(p)' <= Received(p)
    BY <1>1, <1>7 DEF GetUsers, history, sendVars, threadVars, Received
  <2> QED  BY <2>2, <2>3, OtherKeepsAccount
<1>8. CASE \/ \E name \in Name \ {NameOf[c]} : SendCommand(c, name)
           \/ FindUser(c) \/ NotFound(c) \/ GiveUp(c) \/ MissACK(c) \/ Retry(c)
  <2>1. net' = net
    BY <1>8 DEF SendCommand, FindUser, NotFound, GiveUp, MissACK, Retry, netVars
  <2>2. okays' = okays /\ eaten' = eaten /\ RecvedACK' = RecvedACK
    BY <1>8 DEF SendCommand, FindUser, NotFound, GiveUp, MissACK, Retry, history, sendVars
  <2>3. \E l \in MainPc \ {"text", "poll"} : pc' = [pc EXCEPT ![c] = l]
    BY <1>8 DEF SendCommand, FindUser, NotFound, GiveUp, MissACK, Retry, MainPc
  <2>4. \A p \in Peer : Received(p)' <= Received(p)
    BY <1>1, <2>2, <2>3 DEF Received
  <2> QED  BY <2>1, <2>2, <2>4, SameNotMore, OtherKeepsAccount
<1>9. CASE SendHeader(c) \/ SendText(c)
  <2>1. PICK m \in Datagram : /\ m.kind \in {"P2PMESSAGE", "BODY"}
                              /\ <<m>> \in Seq(Datagram)
                              /\ Transmit(c, target[c], <<m>>)
    BY <1>9, RoundSends
  <2>2. NoAcks(<<m>>)
    BY <2>1 DEF NoAcks
  <2>3. net' = Sent(net, c, target[c], <<m>>)
    BY <2>1 DEF Transmit
  <2>4. NotMore(net, net')
    BY <1>2, <2>1, <2>2, <2>3
  <2>5. okays' = okays /\ eaten' = eaten /\ \A p \in Peer : Received(p)' <= Received(p)
    BY <1>1, <1>9 DEF SendHeader, SendText, sendVars, history, Received
  <2> QED  BY <2>4, <2>5, OtherKeepsAccount
<1>10. CASE SeeACK(c)
  <2> SUFFICES ASSUME NEW p \in Peer
               PROVE  /\ IsFiniteSet(Acks(net', p))
                      /\ Cardinality(Acks(net', p)) + Received(p)' + okays'[p] <= eaten'[p]
    BY DEF AccountInv
  <2>1. /\ IsFiniteSet(Acks(net, p))
        /\ Cardinality(Acks(net, p)) + Received(p) + okays[p] <= eaten[p]
    BY DEF AccountInv
  <2>2. Cardinality(Acks(net, p)) \in Nat /\ okays \in [Peer -> Nat] /\ eaten[p] \in Nat
    BY <2>1, FS_CardinalityType DEF TypeInv, TypeOK, ClientTypeOK
  <2>3. /\ net' = net /\ eaten' = eaten
        /\ okays' = [okays EXCEPT ![c] = okays[c] + 1]
    BY <1>10 DEF SeeACK, netVars
  <2>4. Received(p)' + okays'[p] = Received(p) + okays[p]
    BY <1>1, <1>10, <2>2, <2>3 DEF SeeACK, sendVars, Received
  <2>5. Received(p)' \in 0..1 /\ Received(p) \in 0..1 /\ okays'[p] \in Nat
    BY <2>2, <2>3 DEF Received
  <2> QED  BY <2>1, <2>2, <2>3, <2>4, <2>5
<1>11. CASE AskServer(c)
  <2>1. net' = Sent(net, c, Server, <<Dgram("P2PTRANS", wanted[c], 0)>>)
    BY <1>11 DEF AskServer, Transmit
  <2>2. NotMore(net, net')
    BY <1>2, <1>3, <1>4, <2>1 DEF Request
  <2>3. okays' = okays /\ eaten' = eaten /\ \A p \in Peer : Received(p)' <= Received(p)
    BY <1>1, <1>11 DEF AskServer, history, sendVars, Received
  <2> QED  BY <2>2, <2>3, OtherKeepsAccount
<1> QED
  BY <1>5, <1>6, <1>7, <1>8, <1>9, <1>10, <1>11 DEF Command, Main

(* A recvfrom of r that leaves the paths n.                                *)
LEMMA RecvKeepsAccount ==
  ASSUME TypeInv, AccountInv, NEW c \in Peer, NEW s \in Addr \cup {None}, NEW r,
         NEW n \in Paths, NotMore(net, n), r = Failed \/ s \in Addr,
         r.kind = "P2PMESSAGEACK" =>
           /\ IsFiniteSet(Acks(n, c))
           /\ Cardinality(Acks(n, c)) + 1 <= Cardinality(Acks(net, c)),
         Recv(c, s, r, n)
  PROVE  AccountInv'
<1> USE DEF At, Goto
<1>1. /\ c \in Addr /\ up \in SUBSET Addr /\ net \in Paths
      /\ pc \in [Peer -> MainPc] /\ RecvedACK \in [Peer -> BOOLEAN]
      /\ okays \in [Peer -> Nat] /\ eaten \in [Peer -> Nat]
  BY DEF TypeInv, TypeOK, NetTypeOK, ClientTypeOK, Addr
<1>2. NotMore(net, Closed(n, c))
  BY ClosedAcks, NotMoreTwice
<1>3. ASSUME okays' = okays, eaten' = eaten, RecvedACK' = RecvedACK,
             net' = n \/ net' = Closed(n, c),
             pc' = pc \/ \E l \in MainPc \ {"text", "poll"} : pc' = [pc EXCEPT ![c] = l]
      PROVE  AccountInv'
  <2>1. \A p \in Peer : Received(p)' <= Received(p)
    BY <1>1, <1>3 DEF Received
  <2> QED  BY <1>2, <1>3, <2>1, OtherKeepsAccount
<1>4. CASE RecvLoginCount(c, r, n)
  BY <1>3, <1>4 DEF RecvLoginCount, LoggedIn, Terminate, sendVars, history, MainPc
<1>5. CASE RecvLoginNode(c, r, n)
  BY <1>3, <1>5 DEF RecvLoginNode, LoggedIn, sendVars, history, MainPc
<1>6. CASE RecvUserCount(c, r, n)
  BY <1>3, <1>6 DEF RecvUserCount, Terminate, sendVars, history, MainPc
<1>7. CASE RecvUserNode(c, r, n)
  BY <1>3, <1>7 DEF RecvUserNode, sendVars, history
<1>8. CASE RecvHeader(c, r, n) /\ TypeOf(r) # "P2PMESSAGEACK"
  <2> DEFINE trash == <<Dgram("P2PTRASH", None, 0)>>
  <2>1. trash \in Seq(Datagram) /\ NoAcks(trash)
    <3>1. Dgram("P2PTRASH", None, 0) \in Datagram
      BY DgramType DEF PeerMsg
    <3>2. trash \in Seq(Datagram)
      BY <3>1
    <3>3. NoAcks(trash)
      BY DEF NoAcks, Dgram
    <3> QED  BY <3>2, <3>3
  <2> HIDE DEF trash
  <2>2. NotMore(net, net')
    <3>1. CASE net' = n
      BY <3>1
    <3>2. CASE net' = Sent(n, c, r.who, trash)
      <4>1. NotMore(n, Sent(n, c, r.who, trash))
        BY <1>1, <2>1, SentNoAcks
      <4> QED  BY <3>2, <4>1, NotMoreTwice
    <3> QED  BY <1>8, <3>1, <3>2 DEF RecvHeader, trash
  <2>3. okays' = okays /\ eaten' = eaten /\ pc' = pc /\ RecvedACK' = RecvedACK
    BY <1>8 DEF RecvHeader, history
  <2>4. \A p \in Peer : Received(p)' <= Received(p)
    BY <2>3 DEF Received
  <2> QED  BY <2>2, <2>3, <2>4, OtherKeepsAccount
<1>9. CASE RecvHeader(c, r, n) /\ TypeOf(r) = "P2PMESSAGEACK"
  <2>1. r.kind = "P2PMESSAGEACK"
    BY <1>9 DEF TypeOf
  <2>2. /\ net' = n /\ okays' = okays /\ eaten' = eaten /\ pc' = pc
        /\ RecvedACK' = [RecvedACK EXCEPT ![c] = TRUE]
    BY <1>9 DEF RecvHeader, history
  <2> SUFFICES ASSUME NEW p \in Peer
               PROVE  /\ IsFiniteSet(Acks(n, p))
                      /\ Cardinality(Acks(n, p)) + Received(p)' + okays[p] <= eaten[p]
    BY <2>2 DEF AccountInv
  <2>3. /\ IsFiniteSet(Acks(net, p))
        /\ Cardinality(Acks(net, p)) + Received(p) + okays[p] <= eaten[p]
    BY DEF AccountInv
  <2>4. /\ IsFiniteSet(Acks(n, p))
        /\ Cardinality(Acks(n, p)) <= Cardinality(Acks(net, p))
    BY <2>3 DEF NotMore
  <2>5. Cardinality(Acks(net, p)) \in Nat /\ Cardinality(Acks(n, p)) \in Nat
    BY <2>3, <2>4, FS_CardinalityType
  <2>6. okays[p] \in Nat /\ eaten[p] \in Nat
    BY <1>1
  <2>7. Received(p) \in 0..1 /\ Received(p)' \in 0..1
    BY DEF Received
  <2>8. CASE p = c
    <3>1. Cardinality(Acks(n, p)) + 1 <= Cardinality(Acks(net, p))
      BY <2>1, <2>8
    <3> QED  BY <2>3, <2>4, <2>5, <2>6, <2>7, <3>1
  <2>9. CASE p # c
    <3>1. Received(p)' = Received(p)
      BY <1>1, <2>2, <2>9 DEF Received
    <3> QED  BY <2>3, <2>4, <2>5, <2>6, <2>7, <3>1
  <2> QED  BY <2>8, <2>9
<1>10. CASE RecvText(c, s, r, n)
  <2>1. CASE Terminate(c, n) /\ UNCHANGED <<hole, shown, eaten>>
    BY <1>3, <1>10, <2>1 DEF RecvText, Terminate, sendVars, MainPc
  <2>2. CASE /\ r # Failed /\ net' = Sent(n, c, s, <<Ack>>)
             /\ eaten' = [p \in Peer |-> IF p = s THEN eaten[p] + 1 ELSE eaten[p]]
             /\ UNCHANGED <<up, pc>>
    <3>1. okays' = okays /\ RecvedACK' = RecvedACK
      BY <1>10 DEF RecvText, sendVars
    <3> SUFFICES ASSUME NEW p \in Peer
                 PROVE  /\ IsFiniteSet(Acks(net', p))
                        /\ Cardinality(Acks(net', p)) + Received(p)' + okays[p] <= eaten'[p]
      BY <3>1 DEF AccountInv
    <3> DEFINE k == IF p = s THEN 1 ELSE 0
    <3>2. /\ IsFiniteSet(Acks(net, p))
          /\ Cardinality(Acks(net, p)) + Received(p) + okays[p] <= eaten[p]
      BY DEF AccountInv
    <3>3. /\ IsFiniteSet(Acks(n, p))
          /\ Cardinality(Acks(n, p)) <= Cardinality(Acks(net, p))
      BY <3>2 DEF NotMore
    <3>4. /\ IsFiniteSet(Acks(net', p))
          /\ Cardinality(Acks(net', p)) <= Cardinality(Acks(n, p)) + k
      BY <1>1, <2>2, <3>3, SentAck
    <3>5. /\ Cardinality(Acks(net, p)) \in Nat /\ Cardinality(Acks(n, p)) \in Nat
          /\ Cardinality(Acks(net', p)) \in Nat
      BY <3>2, <3>3, <3>4, FS_CardinalityType
    <3>6. /\ okays[p] \in Nat /\ eaten[p] \in Nat /\ eaten'[p] = eaten[p] + k
          /\ k \in 0..1
      BY <1>1, <2>2
    <3>7. Received(p) \in 0..1 /\ Received(p)' = Received(p)
      BY <2>2, <3>1 DEF Received
    <3> HIDE DEF k
    <3> QED  BY <3>2, <3>3, <3>4, <3>5, <3>6, <3>7
  <2> QED  BY <1>10, <2>1, <2>2 DEF RecvText, Ack
<1> QED  BY <1>4, <1>5, <1>6, <1>7, <1>8, <1>9, <1>10 DEF Recv

LEMMA AccountNext ==
  ASSUME TypeInv, AccountInv, [Next]_vars
  PROVE  AccountInv'
<1>1. net \in Paths /\ up \in SUBSET Addr
  BY DEF TypeInv, TypeOK, NetTypeOK
<1>2. CASE ServerStep
  BY <1>2, ServerKeepsAccount DEF ServerStep
<1>3. CASE NetStep
  <2>1. PICK s \in Addr, d \in Addr : \E i \in DOMAIN net[s][d] :
          Drop(s, d, i) /\ UNCHANGED <<ClientList, clientVars>>
    BY <1>3 DEF NetStep
  <2>2. NotMore(net, net')
    BY <1>1, <2>1, TakenNotMore DEF Drop
  <2>3. okays' = okays /\ eaten' = eaten /\ \A p \in Peer : Received(p)' <= Received(p)
    BY <2>1 DEF clientVars, history, threadVars, sendVars, Received
  <2> QED  BY <2>2, <2>3, OtherKeepsAccount
<1>4. ASSUME NEW c \in Peer, ClientStep(c) PROVE AccountInv'
  <2>1. CASE Command(c) \/ Main(c)
    BY <2>1, MainKeepsAccount
  <2>2. CASE RecvDatagram(c)
    <3> PICK s \in Addr : \E i \in Receivable(s, c) :
               Recv(c, s, net[s][c][i], Taken(s, c, i))
      BY <2>2 DEF RecvDatagram
    <3>1. PICK i \in Receivable(s, c) : Recv(c, s, net[s][c][i], Taken(s, c, i))
      OBVIOUS
    <3>2. i \in DOMAIN net[s][c] /\ c \in Addr
      BY DEF Receivable, Addr
    <3>3. Taken(s, c, i) \in Paths /\ NotMore(net, Taken(s, c, i))
      BY <1>1, <3>2, TakenPaths, TakenNotMore
    <3>4. net[s][c][i].kind = "P2PMESSAGEACK" =>
            /\ IsFiniteSet(Acks(Taken(s, c, i), c))
            /\ Cardinality(Acks(Taken(s, c, i), c)) + 1 <= Cardinality(Acks(net, c))
      <4>1. IsFiniteSet(Acks(net, c))
        BY DEF AccountInv
      <4> QED  BY <1>1, <3>2, <4>1, TakenAcks
    <3> QED  BY <3>1, <3>3, <3>4, RecvKeepsAccount
  <2>3. CASE RecvFails(c)
    <3>1. Recv(c, None, Failed, net)
      BY <2>3 DEF RecvFails
    <3>2. Failed.kind # "P2PMESSAGEACK"
      BY DEF Failed, Dgram
    <3> QED  BY <1>1, <3>1, <3>2, SameNotMore, RecvKeepsAccount
  <2> QED  BY <1>4, <2>1, <2>2, <2>3 DEF ClientStep
<1>5. CASE UNCHANGED vars
  <2>1. net' = net /\ okays' = okays /\ eaten' = eaten
    BY <1>5 DEF vars, netVars, clientVars, history
  <2>2. \A p \in Peer : Received(p)' <= Received(p)
    BY <1>5 DEF vars, clientVars, threadVars, sendVars, Received
  <2> QED  BY <2>1, <2>2, SameNotMore, OtherKeepsAccount
<1> QED  BY <1>2, <1>3, <1>4, <1>5 DEF Next

(* For any clients, names, bounds and kinds of network: "Send OK!" is      *)
(* never said more often than texts of this client were read, although an  *)
(* answer has no number and RecvedACK is shared by two threads.            *)
THEOREM OkaysAreEarned == Spec => []OkaysEarned
<1>1. TypeInv /\ AccountInv => OkaysEarned
  <2> SUFFICES ASSUME TypeInv, AccountInv, NEW c \in Peer
               PROVE  okays[c] <= eaten[c]
    BY DEF OkaysEarned
  <2>1. /\ IsFiniteSet(Acks(net, c))
        /\ Cardinality(Acks(net, c)) + Received(c) + okays[c] <= eaten[c]
    BY DEF AccountInv
  <2>2. Cardinality(Acks(net, c)) \in Nat
    BY <2>1, FS_CardinalityType
  <2>3. Received(c) \in 0..1 /\ okays[c] \in Nat /\ eaten[c] \in Nat
    BY DEF Received, TypeInv, TypeOK, ClientTypeOK
  <2> QED  BY <2>1, <2>2, <2>3
<1>2. TypeInv /\ AccountInv /\ [Next]_vars => AccountInv'
  BY AccountNext
<1> QED  BY <1>1, <1>2, TypesInit, TypesNext, AccountInit, PTL DEF Spec

-----------------------------------------------------------------------------
(* One sender on a network that neither loses nor reorders, and sleeps     *)
(* that outlast what is under way: what "Send OK!" needs to be true.       *)
OnlySender(a) == \A c \in Peer \ {a} : MaxSend[c] = 0
Benign == InOrder /\ ~Lossy /\ Timely

Sending == {"find", "send", "text", "poll", "lastsleep", "pause"}

(* Who is where: only a sends, to somebody else; a receive thread starts   *)
(* once the main thread has read the list; nobody writes to a.             *)
RolesInv(a) ==
  /\ \A c \in Peer \ {a} : pc[c] \notin Sending
  /\ \A c \in Peer : pc[c] \in {"start", "count", "nodes", "exited"} => rpc[c] = "none"
  /\ rpc[a] # "body"
  /\ pc[a] \in Sending => wanted[a] # NameOf[a]
  /\ pc[a] \in Sending \ {"find"} => target[a] \in Peer \ {a}

(* What may be under way from s to d: messages from a, answers to it, and  *)
(* while a pauses its request to be called and the call.                   *)
MayTravel(a, s, d, m) ==
  /\ m.kind = "P2PMESSAGE" => s = a /\ d # a
  /\ m.kind = "P2PMESSAGEACK" => s \in Peer \ {a}
  /\ m.kind = "P2PTRANS" => /\ s = a /\ m.who # NameOf[a]
                            /\ pc[a] \in {"pause", "exited"}
  /\ m.kind = "P2PSOMEONEWANTTOCALLYOU" => /\ d # a /\ m.who = a
                                           /\ pc[a] \in {"pause", "exited"}
TravelInv(a) == \A s, d \in Addr : \A m \in Range(net[s][d]) : MayTravel(a, s, d, m)

LEMMA RolesMain ==
  ASSUME NEW a \in Peer, OnlySender(a), TypeInv, RolesInv(a), NEW c \in Peer,
         Command(c) \/ Main(c)
  PROVE  RolesInv(a)'
<1> USE DEF At, Goto, RolesInv, Sending
<1>1. /\ pc \in [Peer -> MainPc] /\ rpc \in [Peer -> RecvPc]
      /\ wanted \in [Peer -> Name \cup {None}] /\ target \in [Peer -> Peer \cup {None}]
      /\ sends \in [Peer -> Nat]
  BY DEF TypeInv, TypeOK, ClientTypeOK
<1>2. CASE SendLogin(c)  BY <1>1, <1>2 DEF SendLogin, sendVars
<1>3. CASE Exit(c)  BY <1>1, <1>3 DEF Exit, Terminate, sendVars
<1>4. CASE GetUsers(c)  BY <1>1, <1>4 DEF GetUsers, threadVars, sendVars
<1>5. ASSUME NEW name \in Name \ {NameOf[c]}, SendCommand(c, name)  PROVE RolesInv(a)'
  <2>1. c = a
    BY <1>1, <1>5 DEF SendCommand, OnlySender
  <2> QED  BY <1>1, <1>5, <2>1 DEF SendCommand
<1>6. CASE FindUser(c)
  <2>1. c = a  BY <1>6 DEF FindUser
  <2>2. PICK k \in Matching(a) : target' = [target EXCEPT ![a] = list[a][k]]
    BY <1>6, <2>1 DEF FindUser
  <2>3. k \in DOMAIN list[a] /\ list[a][k] # None /\ NameOf[list[a][k]] = wanted[a]
    BY DEF Matching
  <2>4. list[a][k] \in Peer \cup {None}
    BY <2>3, LenProperties, ElementOfSeq DEF TypeInv, TypeOK, ClientTypeOK
  <2>5. wanted[a] # NameOf[a]  BY <1>6, <2>1 DEF FindUser
  <2>6. target'[a] \in Peer \ {a}  BY <1>1, <2>2, <2>3, <2>4, <2>5
  <2> QED  BY <1>1, <1>6, <2>1, <2>5, <2>6 DEF FindUser
<1>7. CASE SendHeader(c) \/ SendText(c)
  BY <1>1, <1>7 DEF SendHeader, SendText, sendVars
<1>13. CASE NotFound(c)  BY <1>1, <1>13 DEF NotFound, sendVars
<1>8. CASE GiveUp(c)  BY <1>1, <1>8 DEF GiveUp, sendVars
<1>9. CASE SeeACK(c)  BY <1>1, <1>9 DEF SeeACK, sendVars
<1>10. CASE MissACK(c)  BY <1>1, <1>10 DEF MissACK, sendVars
<1>11. CASE AskServer(c)  BY <1>1, <1>11 DEF AskServer, sendVars
<1>12. CASE Retry(c)  BY <1>1, <1>12 DEF Retry
<1> QED  BY <1>2, <1>3, <1>4, <1>5, <1>6, <1>7, <1>8, <1>9, <1>10, <1>11, <1>12, <1>13
         DEF Command, Main

LEMMA RolesRecv ==
  ASSUME NEW a \in Peer, TypeInv, RolesInv(a), NEW c \in Peer, NEW s, NEW r, NEW n,
         Recv(c, s, r, n), c = a => r.kind # "P2PMESSAGE"
  PROVE  RolesInv(a)'
<1> USE DEF At, Goto, RolesInv, Sending, LoggedIn, Terminate, sendVars
<1>1. /\ pc \in [Peer -> MainPc] /\ rpc \in [Peer -> RecvPc]
  BY DEF TypeInv, TypeOK, ClientTypeOK
<1>2. CASE RecvLoginCount(c, r, n)  BY <1>1, <1>2 DEF RecvLoginCount
<1>3. CASE RecvLoginNode(c, r, n)  BY <1>1, <1>3 DEF RecvLoginNode
<1>4. CASE RecvHeader(c, r, n)
  <2>1. c = a => TypeOf(r) # "P2PMESSAGE"  BY DEF TypeOf
  <2>2. rpc[c] = "head" /\ pc' = pc /\ wanted' = wanted /\ target' = target
    BY <1>4 DEF RecvHeader
  <2>3. \E l \in {"head", "body", "ucount"} :
           rpc' = [rpc EXCEPT ![c] = l] /\ (c = a => l # "body")
    <3>1. CASE TypeOf(r) = "P2PMESSAGE"  BY <1>4, <2>1, <3>1 DEF RecvHeader
    <3>2. CASE TypeOf(r) = "GETALLUSER"  BY <1>4, <3>2 DEF RecvHeader
    <3>3. CASE TypeOf(r) \notin {"P2PMESSAGE", "GETALLUSER"}
      <4>1. rpc' = rpc  BY <1>4, <3>3 DEF RecvHeader
      <4>2. rpc = [rpc EXCEPT ![c] = "head"]  BY <1>1, <2>2
      <4> QED  BY <4>1, <4>2
    <3> QED  BY <3>1, <3>2, <3>3
  <2> QED  BY <1>1, <2>2, <2>3
<1>5. CASE RecvText(c, s, r, n)  BY <1>1, <1>5 DEF RecvText
<1>6. CASE RecvUserCount(c, r, n)  BY <1>1, <1>6 DEF RecvUserCount
<1>7. CASE RecvUserNode(c, r, n)  BY <1>1, <1>7 DEF RecvUserNode
<1> QED  BY <1>2, <1>3, <1>4, <1>5, <1>6, <1>7 DEF Recv

(* Where nothing new travels, or what may.                                 *)
LEMMA TravelKept ==
  ASSUME NEW a \in Peer, TravelInv(a),
         pc[a] \in {"pause", "exited"} => pc'[a] \in {"pause", "exited"},
         \A x, y \in Addr : \A m \in Range(net'[x][y]) :
            m \in Range(net[x][y]) \/ MayTravel(a, x, y, m)'
  PROVE  TravelInv(a)'
<1>1. ASSUME NEW x, NEW y, NEW m, MayTravel(a, x, y, m)
      PROVE  MayTravel(a, x, y, m)'
  BY <1>1 DEF MayTravel
<1> SUFFICES ASSUME NEW x \in Addr, NEW y \in Addr, NEW m \in Range(net'[x][y])
             PROVE  MayTravel(a, x, y, m)'
  BY DEF TravelInv
<1>2. m \in Range(net[x][y]) => MayTravel(a, x, y, m)
  BY DEF TravelInv
<1> QED  BY <1>1, <1>2

(* Sending ms from s to d over the paths n, which are no fuller.           *)
LEMMA SentTravels ==
  ASSUME NEW a \in Peer, TravelInv(a), up \in SUBSET Addr,
         pc[a] \in {"pause", "exited"} => pc'[a] \in {"pause", "exited"},
         NEW n, Shrunk(n), NEW s \in Addr, NEW d, NEW ms \in Seq(Datagram),
         d \in up => \A m \in Range(ms) : MayTravel(a, s, d, m)',
         net' = Sent(n, s, d, ms)
  PROVE  TravelInv(a)'
<1>1. n \in Paths /\ \A x, y \in Addr : Range(n[x][y]) \subseteq Range(net[x][y])
  BY DEF Shrunk
<1>2. CASE d \in up
  <2>1. \A x, y \in Addr : Range(net'[x][y]) \subseteq
             Range(n[x][y]) \cup (IF x = s /\ y = d THEN Range(ms) ELSE {})
    BY <1>1, SentRange
  <2>2. ASSUME NEW x \in Addr, NEW y \in Addr, NEW m \in Range(net'[x][y])
        PROVE  m \in Range(net[x][y]) \/ MayTravel(a, x, y, m)'
    <3>1. m \in Range(n[x][y]) \/ (x = s /\ y = d /\ m \in Range(ms))
      BY <2>1
    <3> QED  BY <1>1, <1>2, <3>1
  <2> QED  BY <2>2, TravelKept
<1>3. CASE d \notin up
  BY <1>1, <1>3, TravelKept DEF Sent
<1> QED  BY <1>2, <1>3

LEMMA ShrunkTravels ==
  ASSUME NEW a \in Peer, TravelInv(a), Shrunk(net'),
         pc[a] \in {"pause", "exited"} => pc'[a] \in {"pause", "exited"}
  PROVE  TravelInv(a)'
BY TravelKept DEF Shrunk

(* The list and its count are neither messages nor requests.               *)
LEMMA ListingKinds ==
  ASSUME NEW l \in Seq(Peer)
  PROVE  \A m \in Range(Listing(l)) : m.kind \in {"COUNT", "NODE"}
<1> DEFINE nodes == [i \in DOMAIN l |-> Dgram("NODE", l[i], 0)]
           head == <<Dgram("COUNT", None, Len(l))>>
<1>1. DOMAIN l = 1..Len(l) /\ Len(l) \in Nat /\ \A i \in 1..Len(l) : l[i] \in Peer
  BY LenProperties, ElementOfSeq
<1>2. nodes \in Seq(Datagram)
  <2>1. \A i \in 1..Len(l) : Dgram("NODE", l[i], 0) \in Datagram
    BY <1>1, DgramType DEF Reply
  <2>2. nodes \in [1..Len(l) -> Datagram]
    BY <1>1, <2>1
  <2> QED  BY <1>1, <2>2, SeqDef
<1>3. \A m \in Range(nodes) : m.kind = "NODE"
  BY DEF Range, Dgram
<1>4. head \in Seq(Datagram)
  <2>1. Dgram("COUNT", None, Len(l)) \in Datagram
    BY <1>1, DgramType DEF Reply
  <2> QED  BY <2>1
<1>5. \A m \in Range(head) : m.kind = "COUNT"
  BY DEF Range, Dgram
<1> HIDE DEF nodes, head
<1>6. Range(head \o nodes) = Range(head) \cup Range(nodes)
  BY <1>2, <1>4, RangeConcatenation
<1> QED  BY <1>3, <1>5, <1>6 DEF Listing, nodes, head

LEMMA TravelServer ==
  ASSUME NEW a \in Peer, TypeInv, TravelInv(a), NEW c \in Peer, ServerNext(c),
         UNCHANGED clientVars
  PROVE  TravelInv(a)'
<1> PICK i \in Receivable(c, Server) :
          \/ Login(c, i) \/ Logout(c, i) \/ P2PTrans(c, i)
          \/ GetAllUser(c, i) \/ ServerIgnores(c, i)
  BY DEF ServerNext
<1> DEFINE n == Taken(c, Server, i)
           r == net[c][Server][i]
<1>1. /\ i \in DOMAIN net[c][Server]
      /\ c \in Addr /\ Server \in Addr /\ Peer \subseteq Addr
      /\ up \in SUBSET Addr /\ net \in Paths /\ ClientList \in Seq(Peer)
  BY DEF Receivable, TypeInv, TypeOK, NetTypeOK, ServerTypeOK, Addr
<1>2. Shrunk(n) /\ r \in Range(net[c][Server])
  BY <1>1, TakenShrinks
<1>3. pc' = pc
  BY DEF clientVars, threadVars
<1>4. MayTravel(a, c, Server, r)
  BY <1>1, <1>2 DEF TravelInv
<1> HIDE DEF n
<1>5. ASSUME NEW d, NEW ms \in Seq(Datagram), net' = Sent(n, Server, d, ms),
             \A m \in Range(ms) : m.kind \in {"COUNT", "NODE", "GETALLUSER"}
      PROVE  TravelInv(a)'
  <2>1. \A m \in Range(ms) : MayTravel(a, Server, d, m)'
    BY <1>5 DEF MayTravel
  <2> QED  BY <1>1, <1>2, <1>3, <1>5, <2>1, SentTravels
<1>6. CASE Login(c, i)
  <2>1. ClientList' \in Seq(Peer)
    BY <1>1, <1>6, AppendProperties DEF Login
  <2>2. Listing(ClientList') \in Seq(Datagram)
    BY <2>1, ListingType
  <2>3. \A m \in Range(Listing(ClientList')) : m.kind \in {"COUNT", "NODE"}
    BY <2>1, ListingKinds
  <2> QED  BY <1>5, <1>6, <2>2, <2>3 DEF Login, n
<1>7. CASE Logout(c, i) \/ ServerIgnores(c, i)
  BY <1>2, <1>3, <1>7, ShrunkTravels DEF Logout, ServerIgnores, n
<1>8. CASE P2PTrans(c, i)
  <2> DEFINE found == Matches(ClientList, r.who)
             call == <<Dgram("P2PSOMEONEWANTTOCALLYOU", c, 0)>>
  <2>1. c = a /\ r.who # NameOf[a] /\ pc[a] \in {"pause", "exited"}
    BY <1>4, <1>8 DEF P2PTrans, MayTravel
  <2>2. CASE found # {}
    <3>1. PICK d : d # a /\ net' = Sent(n, Server, d, call)
      <4>1. PICK k \in DOMAIN ClientList :
              k \in found /\ net' = Sent(n, Server, ClientList[k], call)
        BY <1>8, <2>2 DEF P2PTrans, n, IsFirst
      <4>2. ClientList[k] # a
        BY <2>1, <4>1 DEF Matches
      <4> QED  BY <4>1, <4>2
    <3>3. call \in Seq(Datagram)
      <4>1. Dgram("P2PSOMEONEWANTTOCALLYOU", c, 0) \in Datagram
        BY DgramType DEF Reply
      <4> QED  BY <4>1
    <3>4. \A m \in Range(call) : m = Dgram("P2PSOMEONEWANTTOCALLYOU", c, 0)
      BY DEF Range
    <3>5. \A m \in Range(call) : MayTravel(a, Server, d, m)'
      BY <1>3, <2>1, <3>1, <3>4 DEF MayTravel, Dgram
    <3> HIDE DEF call
    <3> QED  BY <1>1, <1>2, <1>3, <3>1, <3>3, <3>5, SentTravels
  <2>3. CASE found = {}
    <3>1. net' = Closed(net, Server)
      BY <1>8, <2>3 DEF P2PTrans
    <3>2. Shrunk(net')
      BY <1>1, <3>1, ShrunkNow, ClosedShrinks
    <3> QED  BY <1>3, <3>2, ShrunkTravels
  <2> QED  BY <2>2, <2>3
<1>9. CASE GetAllUser(c, i)
  <2> DEFINE first == <<Dgram("GETALLUSER", None, 0)>>
  <2>1. first \in Seq(Datagram)
    <3>1. Dgram("GETALLUSER", None, 0) \in Datagram
      BY DgramType DEF Request
    <3> QED  BY <3>1
  <2>2. \A m \in Range(first) : m.kind = "GETALLUSER"
    BY DEF Range, Dgram
  <2>3. Listing(ClientList) \in Seq(Datagram)
    BY <1>1, ListingType
  <2>4. \A m \in Range(Listing(ClientList)) : m.kind \in {"COUNT", "NODE"}
    BY <1>1, ListingKinds
  <2>5. net' = Sent(n, Server, c, first \o Listing(ClientList))
    BY <1>9 DEF GetAllUser, n
  <2> HIDE DEF first
  <2>6. /\ first \o Listing(ClientList) \in Seq(Datagram)
        /\ Range(first \o Listing(ClientList)) = Range(first) \cup Range(Listing(ClientList))
    BY <2>1, <2>3, ConcatProperties, RangeConcatenation
  <2> QED  BY <1>5, <2>2, <2>4, <2>5, <2>6
<1> QED  BY <1>6, <1>7, <1>8, <1>9

LEMMA TravelMain ==
  ASSUME NEW a \in Peer, Benign, TypeInv, RolesInv(a), TravelInv(a), NEW c \in Peer,
         Command(c) \/ Main(c)
  PROVE  TravelInv(a)'
<1> USE DEF At, Goto
<1>1. /\ c \in Addr /\ Server \in Addr /\ up \in SUBSET Addr /\ net \in Paths
      /\ pc \in [Peer -> MainPc] /\ wanted \in [Peer -> Name \cup {None}]
      /\ sends \in [Peer -> Nat] /\ NameOf[c] \in Name
      /\ pc[c] \in Sending => c = a
  BY EveryPeerNamed DEF TypeInv, TypeOK, NetTypeOK, ClientTypeOK, Addr, RolesInv
<1>2. Shrunk(net)
  BY <1>1, ShrunkNow
<1>3. ASSUME NEW n, Shrunk(n), NEW d, NEW ms \in Seq(Datagram), net' = Sent(n, c, d, ms),
             pc[a] \in {"pause", "exited"} => pc'[a] \in {"pause", "exited"},
             \A m \in Range(ms) : MayTravel(a, c, d, m)'
      PROVE  TravelInv(a)'
  BY <1>1, <1>3, SentTravels
<1>4. ASSUME NEW kind \in {"LOGIN", "LOGOUT", "GETALLUSER"}, NEW who \in Name \cup {None}
      PROVE  /\ <<Dgram(kind, who, 0)>> \in Seq(Datagram)
             /\ \A m \in Range(<<Dgram(kind, who, 0)>>) : MayTravel(a, c, Server, m)'
  <2>1. Dgram(kind, who, 0) \in Datagram
    BY DgramType DEF Request
  <2>2. <<Dgram(kind, who, 0)>> \in Seq(Datagram)
    BY <2>1
  <2>3. \A m \in Range(<<Dgram(kind, who, 0)>>) : m.kind = kind
    BY DEF Range, Dgram
  <2> QED  BY <2>2, <2>3 DEF MayTravel
<1>5. CASE SendLogin(c)
  <2>1. pc[a] \in {"pause", "exited"} => pc'[a] \in {"pause", "exited"}
    BY <1>1, <1>5 DEF SendLogin
  <2> QED  BY <1>1, <1>2, <1>3, <1>4, <1>5, <2>1 DEF SendLogin, Transmit
<1>6. CASE Exit(c)
  <2> DEFINE ms == <<Dgram("LOGOUT", NameOf[c], 0)>>
  <2>1. pc[a] \in {"pause", "exited"} => pc'[a] \in {"pause", "exited"}
    BY <1>1, <1>6 DEF Exit, Terminate
  <2>2. net' = Closed(Sent(net, c, Server, ms), c)
    BY <1>6 DEF Exit, Terminate
  <2>3. ms \in Seq(Datagram) /\ \A m \in Range(ms) : MayTravel(a, c, Server, m)'
    BY <1>1, <1>4
  <2> HIDE DEF ms
  <2>4. /\ Sent(net, c, Server, ms) \in Paths
        /\ \A x, y \in Addr : Range(Sent(net, c, Server, ms)[x][y]) \subseteq
             Range(net[x][y]) \cup (IF x = c /\ y = Server THEN Range(ms) ELSE {})
    BY <1>1, <2>3, SentPaths, SentRange
  <2>5. \A x, y \in Addr : net'[x][y] = <<>> \/ net'[x][y] = Sent(net, c, Server, ms)[x][y]
    BY <2>2, <2>4, ClosedPaths
  <2>6. Range(<<>>) = {}
    BY DEF Range
  <2>7. ASSUME NEW x \in Addr, NEW y \in Addr, NEW m \in Range(net'[x][y])
        PROVE  m \in Range(net[x][y]) \/ MayTravel(a, x, y, m)'
    <3>1. m \in Range(net[x][y]) \/ (x = c /\ y = Server /\ m \in Range(ms))
      BY <2>4, <2>5, <2>6
    <3> QED  BY <2>3, <3>1
  <2> QED  BY <2>1, <2>7, TravelKept
<1>7. CASE GetUsers(c)
  <2>1. pc[a] \in {"pause", "exited"} => pc'[a] \in {"pause", "exited"}
    BY <1>1, <1>7 DEF GetUsers, threadVars
  <2> QED  BY <1>1, <1>2, <1>3, <1>4, <1>7, <2>1 DEF GetUsers, Transmit
<1>8. CASE \/ \E name \in Name \ {NameOf[c]} : SendCommand(c, name)
           \/ FindUser(c) \/ NotFound(c) \/ GiveUp(c) \/ SeeACK(c) \/ MissACK(c)
  <2>1. pc[a] \in {"pause", "exited"} => pc'[a] \in {"pause", "exited"}
    BY <1>1, <1>8 DEF SendCommand, FindUser, NotFound, GiveUp, SeeACK, MissACK
  <2>2. net' = net
    BY <1>8 DEF SendCommand, FindUser, NotFound, GiveUp, SeeACK, MissACK, netVars
  <2> QED  BY <1>2, <2>1, <2>2, ShrunkTravels
<1>9. CASE SendHeader(c) \/ SendText(c)
  <2>1. c = a /\ target[c] # a
    BY <1>1, <1>9 DEF SendHeader, SendText, RolesInv, Sending
  <2>2. pc[a] \in {"pause", "exited"} => pc'[a] \in {"pause", "exited"}
    BY <1>1, <1>9 DEF SendHeader, SendText
  <2>3. PICK m \in Datagram : /\ m.kind \in {"P2PMESSAGE", "BODY"}
                              /\ <<m>> \in Seq(Datagram)
                              /\ Transmit(c, target[c], <<m>>)
    BY <1>9, RoundSends
  <2>0. PICK d : d = target[c]
    OBVIOUS
  <2>4. PICK ms \in Seq(Datagram) : d = target[c] /\ ms = <<m>>
    BY <2>0, <2>3, Zenon
  <2>5. \A x \in Range(ms) : x.kind \in {"P2PMESSAGE", "BODY"}
    BY <2>3, <2>4 DEF Range
  <2>6. net' = Sent(net, c, d, ms)
    BY <2>3, <2>4 DEF Transmit
  <2>7. \A x \in Range(ms) : MayTravel(a, c, d, x)'
    BY <2>1, <2>4, <2>5 DEF MayTravel
  <2> QED  BY <1>2, <1>3, <2>2, <2>6, <2>7
<1>10. CASE AskServer(c)
  <2> DEFINE ms == <<Dgram("P2PTRANS", wanted[c], 0)>>
  <2>1. /\ c = a /\ wanted[a] # NameOf[a] /\ pc'[a] = "pause"
        /\ net' = Sent(net, c, Server, ms)
    BY <1>1, <1>10 DEF AskServer, RolesInv, Sending, Transmit
  <2>2. ms \in Seq(Datagram)
    <3>1. Dgram("P2PTRANS", wanted[c], 0) \in Datagram
      BY <1>1, DgramType DEF Request
    <3> QED  BY <3>1
  <2>3. \A m \in Range(ms) : m.kind = "P2PTRANS" /\ m.who = wanted[c]
    BY DEF Range, Dgram
  <2> HIDE DEF ms
  <2>4. \A m \in Range(ms) : MayTravel(a, c, Server, m)'
    BY <2>1, <2>3 DEF MayTravel
  <2> QED  BY <1>2, <1>3, <2>1, <2>2, <2>4
<1>11. CASE Retry(c)
  <2>1. Quiet /\ net' = net
    BY <1>11 DEF Retry, netVars, Benign
  <2>2. \A x, y \in Addr : Range(net'[x][y]) = {}
    BY <2>1 DEF Quiet, Range
  <2> QED  BY <2>2 DEF TravelInv
<1> QED  BY <1>5, <1>6, <1>7, <1>8, <1>9, <1>10, <1>11 DEF Command, Main

LEMMA TravelRecv ==
  ASSUME NEW a \in Peer, TypeInv, RolesInv(a), TravelInv(a), NEW c \in Peer,
         NEW s \in Addr \cup {None}, NEW r \in Datagram \cup {Failed}, NEW n, Shrunk(n),
         r = Failed \/ (s \in Addr /\ r \in Range(net[s][c])),
         Recv(c, s, r, n)
  PROVE  TravelInv(a)'
<1> USE DEF At, Goto
<1>1. /\ c \in Addr /\ up \in SUBSET Addr /\ net \in Paths
      /\ pc \in [Peer -> MainPc] /\ rpc[a] # "body"
  BY DEF TypeInv, TypeOK, NetTypeOK, ClientTypeOK, Addr, RolesInv
<1>2. /\ r # Failed => s \in Addr /\ MayTravel(a, s, c, r)
      /\ r = Failed => r.kind = "ERROR"
  BY <1>1 DEF TravelInv, Failed, Dgram
<1>3. Shrunk(Closed(n, c))
  BY ClosedShrinks
<1>4. ASSUME net' = n \/ net' = Closed(n, c),
             \/ pc' = pc
             \/ pc' = [pc EXCEPT ![c] = "exited"]
             \/ pc[c] \notin {"pause", "exited"} /\ \E l \in MainPc : pc' = [pc EXCEPT ![c] = l]
      PROVE  TravelInv(a)'
  <2>1. pc[a] \in {"pause", "exited"} => pc'[a] \in {"pause", "exited"}
    BY <1>1, <1>4
  <2> QED  BY <1>3, <1>4, <2>1, ShrunkTravels
<1>0. ASSUME Terminate(c, n)  PROVE TravelInv(a)'
  <2>1. net' = Closed(n, c) /\ pc' = [pc EXCEPT ![c] = "exited"]
    BY <1>0 DEF Terminate
  <2> QED  BY <1>4, <2>1
<1>5. CASE RecvLoginCount(c, r, n)
  BY <1>0, <1>4, <1>5 DEF RecvLoginCount, LoggedIn, MainPc
<1>6. CASE RecvLoginNode(c, r, n)
  BY <1>4, <1>6 DEF RecvLoginNode, LoggedIn, MainPc
<1>7. CASE RecvUserCount(c, r, n)
  BY <1>0, <1>4, <1>7 DEF RecvUserCount
<1>8. CASE RecvUserNode(c, r, n)
  BY <1>4, <1>8 DEF RecvUserNode
<1>9. CASE RecvHeader(c, r, n)
  <2> DEFINE trash == <<Dgram("P2PTRASH", None, 0)>>
  <2>1. trash \in Seq(Datagram) /\ \A m \in Range(trash) : m.kind = "P2PTRASH"
    <3>1. Dgram("P2PTRASH", None, 0) \in Datagram
      BY DgramType DEF PeerMsg
    <3>2. trash \in Seq(Datagram)
      BY <3>1
    <3> QED  BY <3>2 DEF Range, Dgram
  <2>2. pc' = pc
    BY <1>9 DEF RecvHeader
  <2>3. CASE net' = n
    BY <1>4, <2>2, <2>3
  <2>4. CASE net' = Sent(n, c, r.who, trash)
    <3> HIDE DEF trash
    <3>1. \A m \in Range(trash) : MayTravel(a, c, r.who, m)'
      BY <2>1 DEF MayTravel
    <3> QED  BY <1>1, <2>1, <2>2, <2>4, <3>1, SentTravels
  <2> QED  BY <1>9, <2>3, <2>4 DEF RecvHeader
<1>10. CASE RecvText(c, s, r, n)
  <2>1. CASE Terminate(c, n)
    BY <1>0, <2>1
  <2>2. CASE net' = Sent(n, c, s, <<Ack>>) /\ pc' = pc
    <3>1. c # a
      BY <1>1, <1>10 DEF RecvText
    <3>2. <<Ack>> \in Seq(Datagram) /\ \A m \in Range(<<Ack>>) : m.kind = "P2PMESSAGEACK"
      <4>1. Ack \in Datagram
        BY DgramType DEF PeerMsg, Ack
      <4>2. <<Ack>> \in Seq(Datagram)
        BY <4>1
      <4> QED  BY <4>2 DEF Range, Dgram, Ack
    <3>3. \A m \in Range(<<Ack>>) : MayTravel(a, c, s, m)'
      BY <3>1, <3>2 DEF MayTravel
    <3> QED  BY <1>1, <2>2, <3>2, <3>3, SentTravels
  <2> QED  BY <1>10, <2>1, <2>2 DEF RecvText, Ack
<1> QED  BY <1>5, <1>6, <1>7, <1>8, <1>9, <1>10 DEF Recv

LEMMA TravelNext ==
  ASSUME NEW a \in Peer, OnlySender(a), Benign, TypeInv, RolesInv(a), TravelInv(a),
         [Next]_vars
  PROVE  RolesInv(a)' /\ TravelInv(a)'
<1>1. /\ net \in Paths /\ Peer \subseteq Addr
      /\ \A s, d \in Addr : net[s][d] \in Seq(Datagram)
  BY DEF TypeInv, TypeOK, NetTypeOK, Addr, Paths
<1>2. ASSUME UNCHANGED clientVars  PROVE RolesInv(a)'
  BY <1>2 DEF RolesInv, clientVars, threadVars, sendVars
<1>3. CASE ServerStep
  BY <1>2, <1>3, TravelServer DEF ServerStep
<1>4. CASE NetStep
  <2>1. PICK s \in Addr, d \in Addr : \E i \in DOMAIN net[s][d] :
          Drop(s, d, i) /\ UNCHANGED <<ClientList, clientVars>>
    BY <1>4 DEF NetStep
  <2>2. Shrunk(net') /\ pc' = pc
    BY <1>1, <2>1, TakenShrinks DEF Drop, clientVars, threadVars
  <2> QED  BY <1>2, <2>1, <2>2, ShrunkTravels
<1>5. ASSUME NEW c \in Peer, ClientStep(c)  PROVE RolesInv(a)' /\ TravelInv(a)'
  <2>1. CASE Command(c) \/ Main(c)
    BY <2>1, RolesMain, TravelMain
  <2>2. CASE RecvDatagram(c)
    <3>1. PICK s \in Addr : \E i \in Receivable(s, c) :
               Recv(c, s, net[s][c][i], Taken(s, c, i))
      BY <2>2 DEF RecvDatagram
    <3>2. PICK i \in Receivable(s, c) : Recv(c, s, net[s][c][i], Taken(s, c, i))
      BY <3>1
    <3>3. i \in DOMAIN net[s][c] /\ c \in Addr
      BY <1>1 DEF Receivable
    <3>4. Shrunk(Taken(s, c, i)) /\ net[s][c][i] \in Range(net[s][c])
      BY <1>1, <3>3, TakenShrinks
    <3>5. net[s][c][i] \in Datagram /\ MayTravel(a, s, c, net[s][c][i])
      BY <1>1, <3>3, <3>4, TakenPaths DEF TravelInv
    <3>6. c = a => net[s][c][i].kind # "P2PMESSAGE"
      BY <3>5 DEF MayTravel
    <3> QED  BY <3>2, <3>4, <3>5, <3>6, RolesRecv, TravelRecv
  <2>3. CASE RecvFails(c)
    <3>1. Recv(c, None, Failed, net) /\ Failed.kind # "P2PMESSAGE"
      BY <2>3 DEF RecvFails, Failed, Dgram
    <3>2. RolesInv(a)'
      BY <3>1, RolesRecv
    <3>3. Shrunk(net)
      BY <1>1, ShrunkNow
    <3>4. TravelInv(a)'
      BY <3>1, <3>3, TravelRecv
    <3> QED  BY <3>2, <3>4
  <2> QED  BY <1>5, <2>1, <2>2, <2>3 DEF ClientStep
<1>6. CASE UNCHANGED vars
  BY <1>2, <1>6 DEF vars, netVars, clientVars, threadVars, TravelInv, MayTravel
<1> QED  BY <1>3, <1>4, <1>5, <1>6 DEF Next

-----------------------------------------------------------------------------
(* A process has its socket until it ends, is let in by the server once it *)
(* has called it, and has its receive thread once it is logged in.         *)
ProcessInv ==
  \A c \in Peer : /\ pc[c] = "exited" <=> c \notin up
                  /\ pc[c] # "start" => Server \in hole[c]
                  /\ pc[c] = "start" => rpc[c] = "none"
                  /\ pc[c] \in LoggedInPc \ {"nodes"} => rpc[c] # "none"

LEMMA ProcessInit == Init => ProcessInv
BY DEF Init, NetInit, ClientInit, ProcessInv, Addr, LoggedInPc

LEMMA ProcessMain ==
  ASSUME TypeInv, ProcessInv, NEW c \in Peer, Command(c) \/ Main(c)
  PROVE  ProcessInv'
<1> USE DEF At, Goto, Opened, Transmit, netVars, threadVars, LoggedInPc, MainPc, ProcessInv
<1>1. /\ pc \in [Peer -> MainPc] /\ rpc \in [Peer -> RecvPc] /\ hole \in [Peer -> SUBSET Addr]
      /\ up \in SUBSET Addr /\ Server \in Addr
  BY DEF TypeInv, TypeOK, NetTypeOK, ClientTypeOK, Addr
<1>2. CASE SendLogin(c)
  BY <1>1, <1>2 DEF SendLogin
<1>3. CASE Exit(c)
  BY <1>1, <1>3 DEF Exit, Terminate
<1>4. CASE GetUsers(c)
  BY <1>1, <1>4 DEF GetUsers
<1>5. CASE \/ \E name \in Name \ {NameOf[c]} : SendCommand(c, name)
           \/ FindUser(c) \/ NotFound(c) \/ GiveUp(c) \/ SeeACK(c) \/ MissACK(c)
           \/ Retry(c)
  BY <1>1, <1>5 DEF SendCommand, FindUser, NotFound, GiveUp, SeeACK, MissACK, Retry
<1>6. CASE SendHeader(c) \/ SendText(c) \/ AskServer(c)
  BY <1>1, <1>6 DEF SendHeader, SendText, AskServer, sendVars
<1> QED  BY <1>2, <1>3, <1>4, <1>5, <1>6 DEF Command, Main

LEMMA ProcessRecv ==
  ASSUME TypeInv, ProcessInv, NEW c \in Peer, NEW s, NEW r, NEW n, Recv(c, s, r, n)
  PROVE  ProcessInv'
<1> USE DEF At, Goto, Opened, LoggedIn, LoggedInPc, MainPc, ProcessInv
<1>1. /\ pc \in [Peer -> MainPc] /\ rpc \in [Peer -> RecvPc] /\ hole \in [Peer -> SUBSET Addr]
      /\ up \in SUBSET Addr
  BY DEF TypeInv, TypeOK, NetTypeOK, ClientTypeOK
<1>8. ASSUME Terminate(c, n), hole' = hole, rpc[c] # "none" \/ pc[c] # "start"
      PROVE ProcessInv'
  <2>1. /\ pc' = [pc EXCEPT ![c] = "exited"] /\ up' = up \ {c}
        /\ rpc' = [rpc EXCEPT ![c] = "none"] /\ hole' = hole
    BY <1>8 DEF Terminate
  <2>2. /\ pc'[c] = "exited" /\ \A x \in Peer \ {c} : pc'[x] = pc[x] /\ rpc'[x] = rpc[x]
        /\ c \notin up' /\ \A x \in Peer \ {c} : x \in up' <=> x \in up
    BY <1>1, <2>1
  <2>3. \A x \in Peer \ {c} : /\ pc'[x] = "exited" <=> x \notin up'
                              /\ pc'[x] # "start" => Server \in hole'[x]
                              /\ (pc'[x] = "start") => rpc'[x] = "none"
                              /\ pc'[x] \in LoggedInPc \ {"nodes"} => rpc'[x] # "none"
    BY <2>1, <2>2
  <2>5. pc[c] # "start"
    BY <1>8
  <2>4. Server \in hole'[c]
    BY <2>1, <2>5
  <2> QED  BY <2>2, <2>3, <2>4
<1>9. ASSUME up' = up, pc' = pc, rpc[c] # "none",
             rpc' = [rpc EXCEPT ![c] = "head"] \/ rpc' = [rpc EXCEPT ![c] = "unodes"],
             hole' = hole \/ \E ds : hole' = Opened(c, ds)
      PROVE  ProcessInv'
  BY <1>1, <1>9
<1>2. CASE RecvLoginCount(c, r, n)
  <2>1. CASE Terminate(c, n)
    <3>1. hole' = hole /\ pc[c] # "start"
      BY <1>2 DEF RecvLoginCount
    <3> QED  BY <1>8, <2>1, <3>1
  <2> QED  BY <1>1, <1>2, <2>1 DEF RecvLoginCount
<1>3. CASE RecvLoginNode(c, r, n)
  BY <1>1, <1>3 DEF RecvLoginNode
<1>4. CASE RecvHeader(c, r, n)
  BY <1>1, <1>4 DEF RecvHeader
<1>5. CASE RecvText(c, s, r, n)
  BY <1>5, <1>8, <1>9 DEF RecvText
<1>6. CASE RecvUserCount(c, r, n)
  BY <1>6, <1>8, <1>9 DEF RecvUserCount
<1>7. CASE RecvUserNode(c, r, n)
  BY <1>1, <1>7 DEF RecvUserNode
<1> QED  BY <1>2, <1>3, <1>4, <1>5, <1>6, <1>7 DEF Recv

LEMMA ProcessNext == TypeInv /\ ProcessInv /\ [Next]_vars => ProcessInv'
<1> SUFFICES ASSUME TypeInv, ProcessInv, [Next]_vars  PROVE ProcessInv'
  OBVIOUS
<1>1. ASSUME NEW c \in Peer, ServerNext(c), UNCHANGED clientVars  PROVE ProcessInv'
  <2>1. (up' = up \/ up' = up \ {Server}) /\ hole' = hole /\ pc' = pc /\ rpc' = rpc
    BY <1>1 DEF ServerNext, Login, Logout, P2PTrans, GetAllUser, ServerIgnores, clientVars, threadVars
  <2> QED  BY <2>1, AddressesDistinct DEF ProcessInv
<1>2. CASE NetStep
  BY <1>2 DEF NetStep, Drop, clientVars, threadVars, ProcessInv
<1>3. ASSUME NEW c \in Peer, ClientStep(c)  PROVE ProcessInv'
  BY <1>3, ProcessMain, ProcessRecv DEF ClientStep, RecvDatagram, RecvFails
<1>4. CASE UNCHANGED vars
  BY <1>4 DEF vars, netVars, clientVars, threadVars, ProcessInv
<1> QED  BY <1>1, <1>2, <1>3, <1>4 DEF Next, ServerStep

-----------------------------------------------------------------------------
Header  == Dgram("P2PMESSAGE", None, 0)
Text(a) == Dgram("BODY", a, sends[a])

(* c is not being told anything: nothing is under way to it or, unless it  *)
(* has been asked to call, from it.                                        *)
Untold(a, c) == /\ net[a][c] = <<>> /\ rpc[c] # "body"
                /\ pc[a] # "pause" => net[c][a] = <<>>

(* Between the header and the text: the header is still to be read, or c  *)
(* took it and waits for the text, or it is gone.                          *)
Opening(a, c) ==
  /\ ~RecvedACK[a] /\ net[c][a] = <<>>
  /\ \/ rpc[c] # "body" /\ net[a][c] \in {<<>>, <<Header>>}
     \/ rpc[c] = "body" /\ net[a][c] = <<>> /\ Passes(a, c)

(* After both: the message, or the text behind a header that was not taken *)
(* for one, is still to be read, unless it was; the header stays alone     *)
(* only where nobody reads any more.                                       *)
Waiting(a, c) ==
  /\ ~RecvedACK[a] /\ net[c][a] = <<>> /\ rpc[c] # "body"
  /\ \/ net[a][c] \in {<<>>, <<Text(a)>>, <<Header, Text(a)>>}
     \/ net[a][c] = <<Header>> /\ pc[c] = "exited"
Reading(a, c) ==
  /\ ~RecvedACK[a] /\ net[c][a] = <<>> /\ rpc[c] = "body"
  /\ net[a][c] = <<Text(a)>> /\ Passes(a, c)
Answered(a, c) ==
  /\ net[a][c] = <<>> /\ rpc[c] # "body" /\ <<a, sends[a]>> \in shown[c]
  /\ net[c][a] = <<>> \/ (net[c][a] = <<Ack>> /\ ~RecvedACK[a])

Told(a, c) ==
  CASE pc[a] = "text" /\ c = target[a] -> Opening(a, c)
    [] pc[a] = "poll" /\ c = target[a] -> Waiting(a, c) \/ Reading(a, c) \/ Answered(a, c)
    [] OTHER -> Untold(a, c)
RoundsInv(a) == pc[a] # "exited" => \A c \in Peer \ {a} : Told(a, c)

-----------------------------------------------------------------------------
(* Paths of one or two datagrams.                                          *)
LEMMA ShortPaths ==
  ASSUME NEW x \in Datagram, NEW y \in Datagram
  PROVE  /\ RemoveAt(<<x>>, 1) = <<>>
         /\ RemoveAt(<<x, y>>, 1) = <<y>> /\ RemoveAt(<<x, y>>, 2) = <<x>>
         /\ DOMAIN <<x>> = {1} /\ DOMAIN <<x, y>> = {1, 2} /\ DOMAIN <<>> = {}
         /\ <<>> \o <<x>> = <<x>> /\ <<x>> \o <<y>> = <<x, y>>
         /\ <<x>>[1] = x /\ <<x, y>>[1] = x /\ <<x, y>>[2] = y
         /\ <<x>> # <<>> /\ <<x, y>> # <<>>
<1>1. /\ <<x>> \in Seq(Datagram) /\ <<y>> \in Seq(Datagram)
      /\ <<x, y>> \in Seq(Datagram) /\ <<>> \in Seq(Datagram)
      /\ Len(<<x>>) = 1 /\ Len(<<y>>) = 1 /\ Len(<<x, y>>) = 2 /\ Len(<<>>) = 0
      /\ <<x>>[1] = x /\ <<y>>[1] = y /\ <<x, y>>[1] = x /\ <<x, y>>[2] = y
      /\ DOMAIN <<x>> = {1} /\ DOMAIN <<x, y>> = {1, 2} /\ DOMAIN <<>> = {}
  OBVIOUS
<1>0. ASSUME NEW q \in Seq(Datagram), NEW i \in 1 .. Len(q)
      PROVE  /\ RemoveAt(q, i) \in Seq(Datagram) /\ Len(RemoveAt(q, i)) = Len(q) - 1
             /\ \A j \in 1 .. Len(q) - 1 : RemoveAt(q, i)[j] = IF j < i THEN q[j] ELSE q[j + 1]
  BY RemoveAtShifts, LenProperties
<1>2. RemoveAt(<<x>>, 1) \in Seq(Datagram) /\ Len(RemoveAt(<<x>>, 1)) = 0
  <2>1. PICK q \in Seq(Datagram) : q = <<x>>  BY <1>1
  <2>2. 1 \in 1 .. Len(q) /\ Len(q) - 1 = 0  BY <1>1, <2>1
  <2>3. RemoveAt(q, 1) \in Seq(Datagram) /\ Len(RemoveAt(q, 1)) = 0
    BY <1>0, <2>2
  <2> QED  BY <2>1, <2>3
<1>3. /\ RemoveAt(<<x, y>>, 1) \in Seq(Datagram) /\ Len(RemoveAt(<<x, y>>, 1)) = 1
      /\ RemoveAt(<<x, y>>, 1)[1] = y
  <2>1. PICK q \in Seq(Datagram) : q = <<x, y>>  BY <1>1
  <2>2. 1 \in 1 .. Len(q) /\ Len(q) - 1 = 1 /\ q[1 + 1] = y /\ ~ (1 < 1) /\ 1 \in 1 .. 1
    BY <1>1, <2>1
  <2>3. /\ RemoveAt(q, 1) \in Seq(Datagram) /\ Len(RemoveAt(q, 1)) = 1
        /\ RemoveAt(q, 1)[1] = y
    BY <1>0, <2>2
  <2> QED  BY <2>1, <2>3
<1>4. /\ RemoveAt(<<x, y>>, 2) \in Seq(Datagram) /\ Len(RemoveAt(<<x, y>>, 2)) = 1
      /\ RemoveAt(<<x, y>>, 2)[1] = x
  <2>1. PICK q \in Seq(Datagram) : q = <<x, y>>  BY <1>1
  <2>2. 2 \in 1 .. Len(q) /\ Len(q) - 1 = 1 /\ q[1] = x /\ 1 < 2 /\ 1 \in 1 .. 1
    BY <1>1, <2>1
  <2>3. /\ RemoveAt(q, 2) \in Seq(Datagram) /\ Len(RemoveAt(q, 2)) = 1
        /\ RemoveAt(q, 2)[1] = x
    BY <1>0, <2>2
  <2> QED  BY <2>1, <2>3
<1>5. /\ <<>> \o <<x>> \in Seq(Datagram) /\ Len(<<>> \o <<x>>) = 1 /\ (<<>> \o <<x>>)[1] = x
  BY <1>1, ConcatProperties
<1>6. /\ <<x>> \o <<y>> \in Seq(Datagram) /\ Len(<<x>> \o <<y>>) = 2
      /\ (<<x>> \o <<y>>)[1] = x /\ (<<x>> \o <<y>>)[2] = y
  BY <1>1, ConcatProperties
<1>7. RemoveAt(<<x>>, 1) = <<>>  BY <1>1, <1>2, SeqEqual
<1>8. RemoveAt(<<x, y>>, 1) = <<y>>  BY <1>1, <1>3, SeqEqual
<1>9. RemoveAt(<<x, y>>, 2) = <<x>>  BY <1>1, <1>4, SeqEqual
<1>10. <<>> \o <<x>> = <<x>>  BY <1>1, <1>5, SeqEqual
<1>11. <<x>> \o <<y>> = <<x, y>>
  <2>1. PICK p \in Seq(Datagram), q \in Seq(Datagram) : p = <<x>> \o <<y>> /\ q = <<x, y>>
    BY <1>1, <1>6, Zenon
  <2>2. Len(p) = 2 /\ Len(q) = 2 /\ p[1] = x /\ q[1] = x /\ p[2] = y /\ q[2] = y
    BY <1>1, <1>6, <2>1
  <2>3. \A k \in 1 .. Len(p) : p[k] = q[k]
    BY <2>2
  <2>4. p = q
    BY <2>2, <2>3, SeqEqual
  <2> QED  BY <2>1, <2>4
<1>12. <<x>> # <<>> /\ <<x, y>> # <<>>  BY <1>1
<1> QED  BY <1>1, <1>7, <1>8, <1>9, <1>10, <1>11, <1>12

(* The datagrams of a round, and what the reads make of them.              *)
LEMMA RoundDatagrams ==
  ASSUME NEW a \in Peer, TypeInv
  PROVE  /\ Header \in Datagram /\ Text(a) \in Datagram /\ Ack \in Datagram
         /\ TypeOf(Header) = "P2PMESSAGE" /\ TypeOf(Text(a)) = "BODY" /\ Text(a).kind = "BODY"
         /\ TypeOf(Ack) = "P2PMESSAGEACK"
         /\ ~IsInt(Header) /\ ~IsInt(Text(a)) /\ ~IsInt(Ack)
         /\ Text(a).who = a /\ Text(a).num = sends[a] /\ Text(a) # Failed
         /\ Header # Text(a) /\ Header # Ack /\ Text(a) # Ack
<1>1. sends[a] \in Nat
  BY DEF TypeInv, TypeOK, ClientTypeOK
<1>2. Header \in Datagram /\ Text(a) \in Datagram /\ Ack \in Datagram
  BY <1>1, DgramType DEF Header, Text, Ack, PeerMsg
<1> QED  BY <1>2 DEF Header, Text, Ack, Dgram, TypeOf, IsInt, Failed

LEMMA RoundPaths ==
  ASSUME NEW a \in Peer, TypeInv
  PROVE  /\ DOMAIN <<>> = {}
         /\ RemoveAt(<<Text(a)>>, 1) = <<>> /\ DOMAIN <<Text(a)>> = {1}
         /\ <<Text(a)>>[1] = Text(a) /\ <<Text(a)>> # <<>>
         /\ RemoveAt(<<Header>>, 1) = <<>> /\ DOMAIN <<Header>> = {1}
         /\ <<Header>>[1] = Header /\ <<Header>> # <<>> /\ <<>> \o <<Header>> = <<Header>>
         /\ RemoveAt(<<Ack>>, 1) = <<>> /\ DOMAIN <<Ack>> = {1}
         /\ <<Ack>>[1] = Ack /\ <<Ack>> # <<>> /\ <<>> \o <<Ack>> = <<Ack>>
         /\ RemoveAt(<<Header, Text(a)>>, 1) = <<Text(a)>>
         /\ RemoveAt(<<Header, Text(a)>>, 2) = <<Header>>
         /\ DOMAIN <<Header, Text(a)>> = {1, 2} /\ <<Header, Text(a)>> # <<>>
         /\ <<Header, Text(a)>>[1] = Header
         /\ <<>> \o <<Text(a)>> = <<Text(a)>>
         /\ <<Header>> \o <<Text(a)>> = <<Header, Text(a)>>
<1> PICK h \in Datagram, t \in Datagram, k \in Datagram : h = Header /\ t = Text(a) /\ k = Ack
  BY RoundDatagrams
<1>1. \A x, y \in Datagram :
         /\ RemoveAt(<<x>>, 1) = <<>>
         /\ RemoveAt(<<x, y>>, 1) = <<y>> /\ RemoveAt(<<x, y>>, 2) = <<x>>
         /\ DOMAIN <<x>> = {1} /\ DOMAIN <<x, y>> = {1, 2} /\ DOMAIN <<>> = {}
         /\ <<>> \o <<x>> = <<x>> /\ <<x>> \o <<y>> = <<x, y>>
         /\ <<x>>[1] = x /\ <<x, y>>[1] = x
         /\ <<x>> # <<>> /\ <<x, y>> # <<>>
  BY ShortPaths, Zenon
<1> QED  BY <1>1, Zenon

(* What a is doing does not change, nor does anybody come back.            *)
Frame(a) == /\ pc'[a] = pc[a] /\ target'[a] = target[a]
            /\ RecvedACK'[a] = RecvedACK[a] /\ sends'[a] = sends[a]
            /\ \A d \in Peer : pc[d] = "exited" => pc'[d] = "exited"

(* The paths between a and c are as before, and c is not told to read on.  *)
LEMMA ToldKept ==
  ASSUME NEW a \in Peer, NEW c \in Peer \ {a}, Told(a, c), Frame(a),
         net'[a][c] = net[a][c], net'[c][a] = net[c][a],
         rpc'[c] = "body" => rpc[c] = "body",
         Passes(a, c)' <=> Passes(a, c), shown[c] \subseteq shown'[c]
  PROVE  Told(a, c)'
<1> USE DEF Told, Frame
<1>1. Text(a)' = Text(a)
  BY DEF Text
<1>2. CASE pc[a] = "poll" /\ c = target[a]
  <2>1. CASE Waiting(a, c)  BY <1>1, <1>2, <2>1 DEF Waiting
  <2>2. CASE Reading(a, c)  BY <1>1, <1>2, <2>2 DEF Reading, Waiting
  <2>3. CASE Answered(a, c)  BY <1>2, <2>3 DEF Answered
  <2> QED  BY <1>2, <2>1, <2>2, <2>3
<1>3. CASE ~ (pc[a] \in {"text", "poll"} /\ c = target[a])
  BY <1>3 DEF Untold
<1>4. CASE pc[a] = "text" /\ c = target[a]
  BY <1>4 DEF Opening
<1> QED  BY <1>2, <1>3, <1>4

(* c has ended.                                                            *)
LEMMA ToldEnded ==
  ASSUME NEW a \in Peer, NEW c \in Peer \ {a}, Told(a, c), Frame(a),
         net'[a][c] = <<>>, net'[c][a] = net[c][a], rpc'[c] # "body",
         shown[c] \subseteq shown'[c]
  PROVE  Told(a, c)'
<1> USE DEF Told, Frame
<1>1. CASE pc[a] = "poll" /\ c = target[a]
  <2>1. CASE Waiting(a, c) \/ Reading(a, c)  BY <1>1, <2>1 DEF Waiting, Reading
  <2>2. CASE Answered(a, c)  BY <1>1, <2>2 DEF Answered
  <2> QED  BY <1>1, <2>1, <2>2
<1>2. CASE ~ (pc[a] \in {"text", "poll"} /\ c = target[a])
  BY <1>2 DEF Untold
<1>3. CASE pc[a] = "text" /\ c = target[a]
  BY <1>3 DEF Opening
<1> QED  BY <1>1, <1>2, <1>3

(* A step of c leaves a and everybody else as they are.                    *)
LEMMA RoundsKept ==
  ASSUME NEW a \in Peer, NEW c \in Peer \ {a}, RoundsInv(a), Frame(a),
         \A d \in Peer \ {a, c} :
           /\ net'[a][d] = net[a][d] /\ net'[d][a] = net[d][a] /\ rpc'[d] = rpc[d]
           /\ hole'[d] = hole[d] /\ shown'[d] = shown[d],
         pc[a] # "exited" => Told(a, c)'
  PROVE  RoundsInv(a)'
<1> SUFFICES ASSUME pc[a] # "exited", NEW d \in Peer \ {a}  PROVE Told(a, d)'
  BY DEF RoundsInv, Frame
<1>1. CASE d = c
  BY <1>1
<1>2. CASE d # c
  <2>1. Told(a, d)
    BY DEF RoundsInv
  <2>2. Passes(a, d)' <=> Passes(a, d)
    BY <1>2 DEF Passes
  <2> QED  BY <1>2, <2>1, <2>2, ToldKept
<1> QED  BY <1>1, <1>2

(* Nothing happens between a and anybody else.                             *)
LEMMA RoundsAside ==
  ASSUME NEW a \in Peer, RoundsInv(a), Frame(a), hole' = hole, rpc' = rpc, shown' = shown,
         \A d \in Peer \ {a} : net'[a][d] = net[a][d] /\ net'[d][a] = net[d][a]
  PROVE  RoundsInv(a)'
<1> SUFFICES ASSUME pc[a] # "exited", NEW d \in Peer \ {a}  PROVE Told(a, d)'
  BY DEF RoundsInv, Frame
<1>1. Told(a, d)
  BY DEF RoundsInv
<1>2. Passes(a, d)' <=> Passes(a, d)
  BY DEF Passes
<1> QED  BY <1>1, <1>2, ToldKept

LEMMA RoundsServer ==
  ASSUME NEW a \in Peer, TypeInv, RoundsInv(a), NEW c \in Peer, ServerNext(c),
         UNCHANGED clientVars
  PROVE  RoundsInv(a)'
<1> PICK i \in Receivable(c, Server) :
          \/ Login(c, i) \/ Logout(c, i) \/ P2PTrans(c, i)
          \/ GetAllUser(c, i) \/ ServerIgnores(c, i)
  BY DEF ServerNext
<1> DEFINE n == Taken(c, Server, i)
<1>1. /\ i \in DOMAIN net[c][Server]
      /\ c \in Addr /\ Server \in Addr /\ Peer \subseteq Addr /\ Server \notin Peer
      /\ up \in SUBSET Addr /\ net \in Paths /\ ClientList \in Seq(Peer)
  BY AddressesDistinct DEF Receivable, TypeInv, TypeOK, NetTypeOK, ServerTypeOK, Addr
<1>2. n \in Paths /\ \A x \in Addr, y \in Peer : n[x][y] = net[x][y]
  BY <1>1, TakenPaths
<1>3. Frame(a) /\ rpc' = rpc /\ shown' = shown
  BY DEF Frame, clientVars, threadVars, sendVars, userVars, history
<1> HIDE DEF n
<1>4. ASSUME NEW d, NEW ms \in Seq(Datagram)
      PROVE  \A x, y \in Peer : Sent(n, Server, d, ms)[x][y] = net[x][y]
  BY <1>1, <1>2, SentPaths
<1>5. ASSUME hole' = hole, \A x, y \in Peer : net'[x][y] = net[x][y]  PROVE RoundsInv(a)'
  BY <1>3, <1>5, RoundsAside
<1>6. CASE Login(c, i)
  <2>1. Listing(ClientList') \in Seq(Datagram)
    BY <1>1, <1>6, AppendProperties, ListingType DEF Login
  <2>2. net' = Sent(n, Server, c, Listing(ClientList')) /\ hole' = hole
    BY <1>6 DEF Login, n
  <2> QED  BY <1>4, <1>5, <2>1, <2>2
<1>7. CASE Logout(c, i) \/ ServerIgnores(c, i)
  BY <1>1, <1>2, <1>5, <1>7 DEF Logout, ServerIgnores, n
<1>8. CASE P2PTrans(c, i)
  <2> DEFINE call == <<Dgram("P2PSOMEONEWANTTOCALLYOU", c, 0)>>
  <2>1. call \in Seq(Datagram)
    <3>1. Dgram("P2PSOMEONEWANTTOCALLYOU", c, 0) \in Datagram
      BY DgramType DEF Reply
    <3> QED  BY <3>1
  <2>2. hole' = hole /\ (net' = Closed(net, Server) \/ \E d : net' = Sent(n, Server, d, call))
    BY <1>8 DEF P2PTrans, n
  <2> HIDE DEF call
  <2>3. CASE net' = Closed(net, Server)
    BY <1>1, <1>5, <2>2, <2>3, ClosedPaths
  <2>4. CASE \E d : net' = Sent(n, Server, d, call)
    BY <1>4, <1>5, <2>1, <2>2, <2>4
  <2> QED  BY <2>2, <2>3, <2>4
<1>9. CASE GetAllUser(c, i)
  <2> DEFINE first == <<Dgram("GETALLUSER", None, 0)>>
  <2>1. first \in Seq(Datagram)
    <3>1. Dgram("GETALLUSER", None, 0) \in Datagram
      BY DgramType DEF Request
    <3> QED  BY <3>1
  <2>2. net' = Sent(n, Server, c, first \o Listing(ClientList)) /\ hole' = hole
    BY <1>9 DEF GetAllUser, n
  <2> HIDE DEF first
  <2>3. first \o Listing(ClientList) \in Seq(Datagram)
    BY <1>1, <2>1, ListingType, ConcatProperties
  <2>4. PICK ms \in Seq(Datagram) : net' = Sent(n, Server, c, ms)
    BY <2>2, <2>3
  <2> QED  BY <1>4, <1>5, <2>2, <2>4
<1> QED  BY <1>6, <1>7, <1>8, <1>9

(* Where nothing is lost, only what a translator does not let in goes.     *)
LEMMA RoundsDrop ==
  ASSUME NEW a \in Peer, Benign, TypeInv, RoundsInv(a),
         NEW s \in Addr, NEW d \in Addr, NEW i \in DOMAIN net[s][d], Drop(s, d, i),
         UNCHANGED clientVars
  PROVE  RoundsInv(a)'
<1>1. /\ net \in Paths /\ net' = Taken(s, d, i) /\ hole' = hole /\ ~Passes(s, d)
      /\ i = 1 /\ Peer \subseteq Addr
  BY DEF TypeInv, TypeOK, NetTypeOK, Drop, Benign, Addr
<1>2. \A x, y \in Addr : net'[x][y] = IF x = s /\ y = d THEN RemoveAt(net[x][y], i) ELSE net[x][y]
  BY <1>1, TakenPaths
<1>3. Frame(a) /\ rpc' = rpc /\ shown' = shown
  BY DEF Frame, clientVars, threadVars, sendVars, userVars, history
<1>4. CASE a \notin {s, d}
  BY <1>1, <1>2, <1>3, <1>4, RoundsAside
<1>5. CASE s = a
  <2> SUFFICES ASSUME pc[a] # "exited", NEW c \in Peer \ {a}  PROVE Told(a, c)'
    BY <1>3 DEF RoundsInv, Frame
  <2>1. Told(a, c) /\ (Passes(a, c)' <=> Passes(a, c)) /\ net'[c][a] = net[c][a]
    BY <1>1, <1>2, <1>5 DEF RoundsInv, Passes
  <2>2. CASE c # d
    BY <1>1, <1>2, <1>3, <2>1, <2>2, ToldKept
  <2>3. CASE c = d
    <3>1. net'[a][c] = RemoveAt(net[a][c], i) /\ i \in DOMAIN net[a][c] /\ ~Passes(a, c)
      BY <1>1, <1>2, <1>5, <2>3
    <3>2. /\ DOMAIN <<>> = {} /\ RemoveAt(<<Text(a)>>, 1) = <<>>
          /\ RemoveAt(<<Header>>, 1) = <<>>
          /\ RemoveAt(<<Header, Text(a)>>, 1) = <<Text(a)>>
      BY RoundPaths
    <3>3. Text(a)' = Text(a)
      BY <1>3 DEF Text, Frame
    <3>4. CASE pc[a] = "text" /\ c = target[a]
      <4>1. Opening(a, c) /\ net[a][c] = <<Header>> /\ rpc[c] # "body"
        BY <2>1, <3>1, <3>2, <3>4 DEF Told, Opening
      <4>2. net'[a][c] = <<>>
        BY <1>1, <3>1, <3>2, <4>1
      <4>3. Opening(a, c)'
        BY <1>3, <2>1, <4>1, <4>2 DEF Opening, Frame
      <4> QED  BY <1>3, <3>4, <4>3 DEF Told, Frame
    <3>5. CASE pc[a] = "poll" /\ c = target[a]
      <4>1. Waiting(a, c)
        BY <2>1, <3>1, <3>2, <3>5 DEF Told, Reading, Answered
      <4>2. net'[a][c] \in {<<>>, <<Text(a)>>}
        BY <1>1, <3>1, <3>2, <4>1 DEF Waiting
      <4>3. Waiting(a, c)'
        BY <1>3, <2>1, <3>3, <4>1, <4>2 DEF Waiting, Frame
      <4> QED  BY <1>3, <3>5, <4>3 DEF Told, Frame
    <3>6. CASE ~ (pc[a] \in {"text", "poll"} /\ c = target[a])
      BY <2>1, <3>1, <3>2, <3>6 DEF Told, Untold
    <3> QED  BY <3>4, <3>5, <3>6
  <2> QED  BY <2>2, <2>3
<1>6. CASE d = a /\ s # a
  <2> SUFFICES ASSUME pc[a] # "exited", NEW c \in Peer \ {a}  PROVE Told(a, c)'
    BY <1>3 DEF RoundsInv, Frame
  <2>1. Told(a, c) /\ (Passes(a, c)' <=> Passes(a, c)) /\ net'[a][c] = net[a][c]
    BY <1>1, <1>2, <1>6 DEF RoundsInv, Passes
  <2>2. CASE c # s
    BY <1>1, <1>2, <1>3, <1>6, <2>1, <2>2, ToldKept
  <2>3. CASE c = s
    <3>1. net'[c][a] = RemoveAt(net[c][a], i) /\ i \in DOMAIN net[c][a]
      BY <1>1, <1>2, <1>6, <2>3
    <3>2. DOMAIN <<>> = {} /\ RemoveAt(<<Ack>>, 1) = <<>> /\ DOMAIN <<Ack>> = {1}
      BY RoundPaths
    <3>3. CASE pc[a] = "poll" /\ c = target[a]
      <4>1. Answered(a, c) /\ net[c][a] = <<Ack>>
        BY <2>1, <3>1, <3>2, <3>3 DEF Told, Waiting, Reading, Answered
      <4>2. net'[c][a] = <<>>
        BY <3>1, <3>2, <4>1
      <4>3. Answered(a, c)'
        BY <1>3, <2>1, <4>1, <4>2 DEF Answered, Frame
      <4> QED  BY <1>3, <3>3, <4>3 DEF Told, Frame
    <3>4. CASE ~ (pc[a] \in {"text", "poll"} /\ c = target[a])
      <4>1. Untold(a, c) /\ pc[a] = "pause"
        BY <2>1, <3>1, <3>2, <3>4 DEF Told, Untold
      <4> QED  BY <1>3, <2>1, <3>4, <4>1 DEF Told, Untold, Frame
    <3>5. CASE pc[a] = "text" /\ c = target[a]
      BY <2>1, <3>1, <3>2, <3>5 DEF Told, Opening
    <3> QED  BY <3>3, <3>4, <3>5
  <2> QED  BY <2>2, <2>3
<1>7. CASE s = a /\ d = a
  BY <1>1, <1>2, <1>3, <1>7, RoundsAside
<1> QED  BY <1>4, <1>5, <1>6, <1>7

(* The sender's own steps.                                                 *)
LEMMA RoundsSender ==
  ASSUME NEW a \in Peer, Benign, TypeInv, ProcessInv, RolesInv(a), RoundsInv(a),
         Command(a) \/ Main(a)
  PROVE  RoundsInv(a)'
<1> USE DEF At, Goto
<1>1. /\ a \in Addr /\ Server \in Addr /\ Peer \subseteq Addr /\ Server \notin Peer
      /\ up \in SUBSET Addr /\ net \in Paths /\ hole \in [Peer -> SUBSET Addr]
      /\ pc \in [Peer -> MainPc] /\ RecvedACK \in [Peer -> BOOLEAN]
      /\ wanted[a] \in Name \cup {None} /\ NameOf[a] \in Name
  BY AddressesDistinct, EveryPeerNamed DEF TypeInv, TypeOK, NetTypeOK, ClientTypeOK, Addr
<1>2. ASSUME pc[a] \notin {"text", "poll", "pause", "exited"},
             pc'[a] \notin {"text", "poll"}, rpc' = rpc,
             \A c \in Peer \ {a} : net'[a][c] = net[a][c] /\ net'[c][a] = net[c][a]
      PROVE  RoundsInv(a)'
  BY <1>2 DEF RoundsInv, Told, Untold
<1>3. ASSUME NEW ms \in Seq(Datagram)
      PROVE  \A c \in Peer \ {a} : /\ Sent(net, a, Server, ms)[a][c] = net[a][c]
                                   /\ Sent(net, a, Server, ms)[c][a] = net[c][a]
  BY <1>1, SentPaths
<1>4. ASSUME NEW kind \in Request, NEW who \in Name \cup {None}
      PROVE  <<Dgram(kind, who, 0)>> \in Seq(Datagram)
  <2>1. Dgram(kind, who, 0) \in Datagram
    BY DgramType DEF Request
  <2> QED  BY <2>1
<1>5. CASE SendLogin(a)
  <2>1. net' = Sent(net, a, Server, <<Dgram("LOGIN", NameOf[a], 0)>>)
    BY <1>5 DEF SendLogin, Transmit
  <2>2. <<Dgram("LOGIN", NameOf[a], 0)>> \in Seq(Datagram)
    BY <1>1, <1>4 DEF Request
  <2>3. pc[a] = "start" /\ pc'[a] = "count" /\ rpc' = rpc
    BY <1>1, <1>5 DEF SendLogin
  <2> QED  BY <1>2, <1>3, <2>1, <2>2, <2>3
<1>6. CASE Exit(a)
  BY <1>1, <1>6 DEF Exit, Terminate, RoundsInv
<1>7. CASE GetUsers(a)
  <2>1. net' = Sent(net, a, Server, <<Dgram("GETALLUSER", None, 0)>>)
    BY <1>7 DEF GetUsers, Transmit
  <2>2. <<Dgram("GETALLUSER", None, 0)>> \in Seq(Datagram)
    BY <1>4 DEF Request
  <2>3. pc[a] = "cmd" /\ pc'[a] = "cmd" /\ rpc' = rpc
    BY <1>7 DEF GetUsers, threadVars
  <2> QED  BY <1>2, <1>3, <2>1, <2>2, <2>3
<1>8. CASE \/ \E name \in Name \ {NameOf[a]} : SendCommand(a, name)
           \/ FindUser(a) \/ NotFound(a) \/ GiveUp(a)
  BY <1>1, <1>2, <1>8 DEF SendCommand, FindUser, NotFound, GiveUp, netVars
<1>9. CASE SendHeader(a)
  <2>0. PICK d : d = target[a]
    OBVIOUS
  <2>1. PICK ms \in Seq(Datagram) : d = target[a] /\ ms = <<Header>>
    <3>1. Header \in Datagram
      BY RoundDatagrams
    <3>2. <<Header>> \in Seq(Datagram)
      BY <3>1
    <3> QED  BY <2>0, <3>2, Zenon
  <2>2. /\ pc[a] = "send" /\ pc'[a] = "text" /\ rpc' = rpc /\ target' = target
        /\ RecvedACK'[a] = FALSE /\ d \in Peer \ {a} /\ net' = Sent(net, a, d, ms)
    BY <1>1, <1>9, <2>1 DEF SendHeader, Transmit, RolesInv, Sending, Header
  <2>3. \A c \in Peer \ {a} : Untold(a, c) /\ net[c][a] = <<>> /\ net[a][c] = <<>>
    BY <2>2 DEF RoundsInv, Told, Untold
  <2>4. <<>> \o ms = ms
    BY <2>1, RoundPaths
  <2>5. \A c \in Peer \ {a} : /\ net'[c][a] = <<>>
                              /\ net'[a][c] = IF c = d /\ d \in up THEN ms ELSE <<>>
    <3>1. \A x, y \in Addr : Sent(net, a, d, ms)[x][y] =
             IF x = a /\ y = d /\ d \in up THEN net[x][y] \o ms ELSE net[x][y]
      BY <1>1, SentPaths
    <3> QED  BY <1>1, <2>2, <2>3, <2>4, <3>1
  <2> SUFFICES ASSUME NEW c \in Peer \ {a}  PROVE Told(a, c)'
    BY DEF RoundsInv
  <2>6. rpc'[c] # "body"
    BY <2>2, <2>3 DEF Untold
  <2>7. CASE c = d
    <3>1. net'[a][c] \in {<<>>, <<Header>>}
      BY <2>1, <2>5, <2>7
    <3>2. Opening(a, c)'
      BY <2>2, <2>5, <2>6, <3>1 DEF Opening
    <3> QED  BY <2>1, <2>2, <2>7, <3>2 DEF Told
  <2>8. CASE c # d
    <3>1. Untold(a, c)'
      BY <2>5, <2>6, <2>8 DEF Untold
    <3> QED  BY <2>1, <2>2, <2>8, <3>1 DEF Told
  <2> QED  BY <2>7, <2>8
<1>14. CASE SendText(a)
  <2>0. PICK d : d = target[a]
    OBVIOUS
  <2>1. PICK ms \in Seq(Datagram) : d = target[a] /\ ms = <<Text(a)>>
    <3>1. Text(a) \in Datagram
      BY RoundDatagrams
    <3>2. <<Text(a)>> \in Seq(Datagram)
      BY <3>1
    <3> QED  BY <2>0, <3>2, Zenon
  <2>2. /\ pc[a] = "text" /\ pc'[a] = "poll" /\ rpc' = rpc /\ target' = target
        /\ RecvedACK' = RecvedACK /\ Text(a)' = Text(a) /\ d \in Peer \ {a}
        /\ hole'[d] = hole[d] /\ net' = Sent(net, a, d, ms)
    BY <1>1, <1>14, <2>1
       DEF SendText, Transmit, Opened, RolesInv, Sending, Text, userVars, sendVars
  <2>3. Opening(a, d) /\ \A c \in Peer \ {a, d} : Untold(a, c)
    BY <2>1, <2>2 DEF RoundsInv, Told
  <2>4. \A x, y \in Addr : net'[x][y] =
           IF x = a /\ y = d /\ d \in up THEN net[x][y] \o ms ELSE net[x][y]
    BY <1>1, <2>2, SentPaths
  <2> SUFFICES ASSUME NEW c \in Peer \ {a}  PROVE Told(a, c)'
    BY DEF RoundsInv
  <2>5. CASE c # d
    <3>1. Untold(a, c) /\ net'[a][c] = net[a][c] /\ net'[c][a] = net[c][a]
      BY <1>1, <2>3, <2>4, <2>5
    <3>2. Untold(a, c)'
      BY <2>2, <3>1 DEF Untold
    <3> QED  BY <2>1, <2>2, <2>5, <3>2 DEF Told
  <2>6. CASE c = d
    <3>1. ~RecvedACK'[a] /\ net'[c][a] = <<>>
      BY <1>1, <2>2, <2>3, <2>4, <2>6 DEF Opening
    <3>2. net'[a][c] = IF c \in up THEN net[a][c] \o <<Text(a)>> ELSE net[a][c]
      BY <1>1, <2>1, <2>4, <2>6
    <3>3. CASE rpc[c] = "body"
      <4>1. c \in up
        BY <2>6, <3>3 DEF ProcessInv, RolesInv
      <4>2. net'[a][c] = <<Text(a)>> /\ Passes(a, c)'
        BY <2>2, <2>3, <2>6, <3>2, <3>3, <4>1, RoundPaths DEF Opening, Passes
      <4>3. Reading(a, c)'
        BY <2>2, <3>1, <3>3, <4>2 DEF Reading
      <4> QED  BY <2>1, <2>2, <2>6, <4>3 DEF Told
    <3>4. CASE rpc[c] # "body" /\ c \in up
      <4>1. net'[a][c] \in {<<Text(a)>>, <<Header, Text(a)>>}
        BY <2>3, <2>6, <3>2, <3>4, RoundPaths DEF Opening
      <4>2. Waiting(a, c)'
        BY <2>2, <3>1, <3>4, <4>1 DEF Waiting
      <4> QED  BY <2>1, <2>2, <2>6, <4>2 DEF Told
    <3>5. CASE c \notin up
      <4>1. net'[a][c] \in {<<>>, <<Header>>} /\ rpc[c] # "body" /\ pc'[c] = "exited"
        BY <1>1, <1>14, <2>3, <2>6, <3>2, <3>5 DEF Opening, ProcessInv, RolesInv, SendText
      <4>2. Waiting(a, c)'
        BY <2>2, <3>1, <4>1 DEF Waiting
      <4> QED  BY <2>1, <2>2, <2>6, <4>2 DEF Told
    <3> QED  BY <3>3, <3>4, <3>5
  <2> QED  BY <2>5, <2>6
<1>10. CASE SeeACK(a)
  <2>1. /\ pc[a] = "poll" /\ pc'[a] = "cmd" /\ RecvedACK[a] /\ net' = net /\ rpc' = rpc
    BY <1>1, <1>10 DEF SeeACK, netVars
  <2> SUFFICES ASSUME NEW c \in Peer \ {a}  PROVE Told(a, c)'
    BY DEF RoundsInv
  <2>2. Told(a, c)
    BY <2>1 DEF RoundsInv
  <2>3. net[a][c] = <<>> /\ net[c][a] = <<>> /\ rpc[c] # "body"
    BY <2>1, <2>2 DEF Told, Untold, Waiting, Reading, Answered
  <2> QED  BY <2>1, <2>3 DEF Told, Untold
<1>11. CASE MissACK(a)
  <2>1. /\ pc[a] = "poll" /\ pc'[a] = "lastsleep" /\ Quiet /\ net' = net /\ rpc' = rpc
    BY <1>1, <1>11 DEF MissACK, netVars, Benign
  <2> SUFFICES ASSUME NEW c \in Peer \ {a}  PROVE Told(a, c)'
    BY DEF RoundsInv
  <2>2. Told(a, c)
    BY <2>1 DEF RoundsInv
  <2>3. net[a][c] = <<>> /\ net[c][a] = <<>>
    BY <1>1, <2>1 DEF Quiet
  <2>4. rpc[c] # "body"
    BY <2>1, <2>2, <2>3, RoundPaths DEF Told, Untold, Waiting, Reading, Answered
  <2> QED  BY <2>1, <2>3, <2>4 DEF Told, Untold
<1>12. CASE AskServer(a)
  <2>1. net' = Sent(net, a, Server, <<Dgram("P2PTRANS", wanted[a], 0)>>)
    BY <1>12 DEF AskServer, Transmit
  <2>2. <<Dgram("P2PTRANS", wanted[a], 0)>> \in Seq(Datagram)
    BY <1>1, <1>4 DEF Request
  <2>3. pc[a] = "lastsleep" /\ pc'[a] = "pause" /\ rpc' = rpc
    BY <1>1, <1>12 DEF AskServer
  <2> QED  BY <1>2, <1>3, <2>1, <2>2, <2>3
<1>13. CASE Retry(a)
  <2>1. /\ pc[a] = "pause" /\ pc'[a] = "send" /\ Quiet /\ net' = net /\ rpc' = rpc
    BY <1>1, <1>13 DEF Retry, netVars, Benign
  <2>2. \A c \in Peer \ {a} : net[c][a] = <<>>
    BY <1>1, <2>1 DEF Quiet
  <2> QED  BY <2>1, <2>2 DEF RoundsInv, Told, Untold
<1> QED  BY <1>5, <1>6, <1>7, <1>8, <1>9, <1>10, <1>11, <1>12, <1>13, <1>14 DEF Command, Main

(* The commands of the others, who never send.                             *)
LEMMA RoundsCommand ==
  ASSUME NEW a \in Peer, OnlySender(a), TypeInv, RolesInv(a), RoundsInv(a),
         NEW c \in Peer \ {a}, Command(c) \/ Main(c)
  PROVE  RoundsInv(a)'
<1> USE DEF At, Goto
<1>1. /\ a \in Addr /\ c \in Addr /\ Server \in Addr /\ Peer \subseteq Addr /\ Server \notin Peer
      /\ up \in SUBSET Addr /\ net \in Paths /\ hole \in [Peer -> SUBSET Addr]
      /\ pc \in [Peer -> MainPc] /\ rpc \in [Peer -> RecvPc] /\ sends \in [Peer -> Nat]
      /\ NameOf[c] \in Name
  BY AddressesDistinct, EveryPeerNamed DEF TypeInv, TypeOK, NetTypeOK, ClientTypeOK, Addr
<1>2. SendLogin(c) \/ GetUsers(c) \/ Exit(c)
  <2>1. ~ Main(c)
    BY DEF Main, RolesInv, Sending, FindUser, NotFound, SendHeader, SendText, GiveUp, SeeACK,
           MissACK, AskServer, Retry
  <2>2. ASSUME NEW name, SendCommand(c, name)  PROVE FALSE
    BY <1>1, <2>2 DEF SendCommand, OnlySender
  <2> QED  BY <2>1, <2>2 DEF Command
<1>3. ASSUME NEW kind \in Request, NEW who \in Name \cup {None}
      PROVE  <<Dgram(kind, who, 0)>> \in Seq(Datagram)
  <2>1. Dgram(kind, who, 0) \in Datagram
    BY DgramType DEF Request
  <2> QED  BY <2>1
<1>4. PICK ms \in Seq(Datagram) :
         \/ SendLogin(c) /\ net' = Sent(net, c, Server, ms)
         \/ GetUsers(c) /\ net' = Sent(net, c, Server, ms)
         \/ Exit(c) /\ net' = Closed(Sent(net, c, Server, ms), c)
  <2>1. CASE SendLogin(c)
    <3>1. <<Dgram("LOGIN", NameOf[c], 0)>> \in Seq(Datagram)
      BY <1>1, <1>3 DEF Request
    <3>2. net' = Sent(net, c, Server, <<Dgram("LOGIN", NameOf[c], 0)>>)
      BY <2>1 DEF SendLogin, Transmit
    <3> QED  BY <2>1, <3>1, <3>2
  <2>2. CASE GetUsers(c)
    <3>1. <<Dgram("GETALLUSER", None, 0)>> \in Seq(Datagram)
      BY <1>1, <1>3 DEF Request
    <3>2. net' = Sent(net, c, Server, <<Dgram("GETALLUSER", None, 0)>>)
      BY <2>2 DEF GetUsers, Transmit
    <3> QED  BY <2>2, <3>1, <3>2
  <2>3. CASE Exit(c)
    <3>1. <<Dgram("LOGOUT", NameOf[c], 0)>> \in Seq(Datagram)
      BY <1>1, <1>3 DEF Request
    <3>2. net' = Closed(Sent(net, c, Server, <<Dgram("LOGOUT", NameOf[c], 0)>>), c)
      BY <2>3 DEF Exit, Terminate
    <3> QED  BY <2>3, <3>1, <3>2
  <2> QED  BY <1>2, <2>1, <2>2, <2>3
<1>5. /\ Sent(net, c, Server, ms) \in Paths
      /\ \A x \in Addr, y \in Peer : Sent(net, c, Server, ms)[x][y] = net[x][y]
  BY <1>1, SentPaths
<1>6. /\ Frame(a) /\ shown' = shown /\ \A d \in Peer \ {c} : rpc'[d] = rpc[d]
      /\ rpc'[c] = rpc[c] \/ rpc'[c] = "none"
      /\ \A p \in Peer : hole'[p] = hole[p] \/ hole'[p] = hole[p] \cup {Server}
      /\ \A p \in Peer \ {c} : hole'[p] = hole[p]
  BY <1>1, <1>4 DEF SendLogin, GetUsers, Exit, Transmit, Terminate, Opened, Frame, history,
     sendVars, userVars, threadVars
<1>7. \A y \in Peer \ {c} : \A x \in Addr : net'[x][y] = net[x][y]
  BY <1>1, <1>4, <1>5, ClosedPaths
<1>8. ASSUME pc[a] # "exited"  PROVE Told(a, c)'
  <2>1. Told(a, c)
    BY <1>8 DEF RoundsInv
  <2>2. Passes(a, c)' <=> Passes(a, c)
    BY <1>1, <1>6 DEF Passes
  <2>3. net'[c][a] = net[c][a]
    BY <1>1, <1>7
  <2>4. CASE Exit(c)
    <3>1. net'[a][c] = <<>> /\ rpc'[c] = "none"
      <4>1. net' = Closed(Sent(net, c, Server, <<Dgram("LOGOUT", NameOf[c], 0)>>), c)
        BY <2>4 DEF Exit, Terminate
      <4>2. rpc'[c] = "none"
        BY <1>1, <2>4 DEF Exit, Terminate
      <4> QED  BY <1>1, <4>1, <4>2 DEF Closed
    <3> QED  BY <1>6, <2>1, <2>3, <3>1, ToldEnded
  <2>5. CASE ~ Exit(c)
    <3>1. net'[a][c] = net[a][c]
      BY <1>1, <1>4, <1>5, <2>5
    <3> QED  BY <1>6, <2>1, <2>2, <2>3, <3>1, ToldKept
  <2> QED  BY <2>4, <2>5
<1>9. \A d \in Peer \ {a, c} :
         /\ net'[a][d] = net[a][d] /\ net'[d][a] = net[d][a] /\ rpc'[d] = rpc[d]
         /\ hole'[d] = hole[d] /\ shown'[d] = shown[d]
  BY <1>1, <1>6, <1>7
<1> QED  BY <1>6, <1>8, <1>9, RoundsKept

(* The sender reads something: its paths to the others stay as they are.   *)
LEMMA SenderReads ==
  ASSUME NEW a \in Peer, TypeInv, RolesInv(a), NEW s, NEW r, NEW n,
         Recv(a, s, r, n), r.kind \notin {"P2PMESSAGE", "P2PSOMEONEWANTTOCALLYOU"}
  PROVE  \/ pc'[a] = "exited"
         \/ /\ net' = n /\ hole' = hole /\ shown' = shown
            /\ \A d \in Peer \ {a} : rpc'[d] = rpc[d]
            /\ target' = target /\ sends' = sends
            /\ pc'[a] \in {"text", "poll"} => pc'[a] = pc[a]
            /\ pc[a] \in {"text", "poll"} => pc'[a] = pc[a]
            /\ \A d \in Peer \ {a} : pc'[d] = pc[d]
            /\ pc'[a] = "pause" <=> pc[a] = "pause"
            /\ r.kind # "P2PMESSAGEACK" => RecvedACK' = RecvedACK
<1> USE DEF At, Goto, LoggedIn, sendVars, userVars, history
<1>1. /\ pc \in [Peer -> MainPc] /\ rpc \in [Peer -> RecvPc] /\ rpc[a] # "body"
  BY DEF TypeInv, TypeOK, ClientTypeOK, RolesInv
<1>2. CASE RecvLoginCount(a, r, n)  BY <1>1, <1>2 DEF RecvLoginCount, Terminate
<1>3. CASE RecvLoginNode(a, r, n)  BY <1>1, <1>3 DEF RecvLoginNode
<1>4. CASE RecvHeader(a, r, n)
  <2>1. TypeOf(r) \in {"GETALLUSER", r.kind}
    BY DEF TypeOf
  <2> QED  BY <1>1, <1>4, <2>1 DEF RecvHeader
<1>5. CASE RecvText(a, s, r, n)  BY <1>1, <1>5 DEF RecvText
<1>6. CASE RecvUserCount(a, r, n)  BY <1>1, <1>6 DEF RecvUserCount, Terminate
<1>7. CASE RecvUserNode(a, r, n)  BY <1>1, <1>7 DEF RecvUserNode
<1> QED  BY <1>2, <1>3, <1>4, <1>5, <1>6, <1>7 DEF Recv

LEMMA RoundsReadBySender ==
  ASSUME NEW a \in Peer, TypeInv, RolesInv(a), TravelInv(a), RoundsInv(a),
         NEW s \in Addr \cup {None}, NEW r, NEW n, Recv(a, s, r, n),
         \A y \in Peer \ {a} : n[a][y] = net[a][y],
         \A x \in Peer : x # s => n[x][a] = net[x][a],
         \/ r = Failed /\ s = None
         \/ s \in Addr /\ \E i \in DOMAIN net[s][a] :
               r = net[s][a][i] /\ n[s][a] = RemoveAt(net[s][a], i)
  PROVE  RoundsInv(a)'
<1>1. /\ r.kind \notin {"P2PMESSAGE", "P2PSOMEONEWANTTOCALLYOU"}
      /\ r.kind = "P2PMESSAGEACK" => s \in Peer \ {a}
  <2>1. CASE r = Failed
    BY <2>1 DEF Failed, Dgram
  <2>2. CASE s \in Addr /\ r \in Range(net[s][a])
    <3>1. MayTravel(a, s, a, r)
      BY <2>2 DEF TravelInv, Addr
    <3> QED  BY <3>1 DEF MayTravel
  <2> QED  BY <2>1, <2>2 DEF Range
<1>2. CASE pc'[a] = "exited"
  BY <1>2 DEF RoundsInv
<1>3. CASE /\ net' = n /\ hole' = hole /\ shown' = shown
           /\ \A d \in Peer \ {a} : rpc'[d] = rpc[d]
           /\ target' = target /\ sends' = sends
           /\ pc'[a] \in {"text", "poll"} => pc'[a] = pc[a]
           /\ pc[a] \in {"text", "poll"} => pc'[a] = pc[a]
           /\ \A d \in Peer \ {a} : pc'[d] = pc[d]
           /\ pc'[a] = "pause" <=> pc[a] = "pause"
           /\ r.kind # "P2PMESSAGEACK" => RecvedACK' = RecvedACK
  <2>0. pc[a] # "exited"
    BY <1>1 DEF Recv, RecvLoginCount, RecvLoginNode, RecvHeader, RecvText, RecvUserCount,
       RecvUserNode, At, RolesInv
  <2> SUFFICES ASSUME NEW c \in Peer \ {a}  PROVE Told(a, c)'
    BY DEF RoundsInv
  <2>1. Told(a, c) /\ net'[a][c] = net[a][c] /\ rpc'[c] = rpc[c]
    BY <1>3, <2>0 DEF RoundsInv
  <2>2. Text(a)' = Text(a) /\ (Passes(a, c)' <=> Passes(a, c))
    BY <1>3 DEF Text, Passes
  <2>3. net[c][a] = <<>> => c # s /\ net'[c][a] = <<>>
    <3>1. DOMAIN <<>> = {}
      OBVIOUS
    <3> QED  BY <1>3, <3>1, AddressesDistinct DEF Addr
  <2>4. CASE ~ (pc[a] \in {"text", "poll"} /\ c = target[a])
    BY <1>3, <2>1, <2>3, <2>4 DEF Told, Untold
  <2>6. CASE pc[a] = "text" /\ c = target[a]
    <3>1. Opening(a, c)
      BY <2>1, <2>6 DEF Told
    <3>2. r.kind # "P2PMESSAGEACK"
      <4>1. SUFFICES ASSUME r.kind = "P2PMESSAGEACK"  PROVE FALSE
        OBVIOUS
      <4>2. s \in Peer \ {a} /\ s # c
        BY <1>1, <2>3, <3>1, <4>1 DEF Opening
      <4>3. Told(a, s) /\ Untold(a, s)
        BY <2>0, <2>6, <4>2 DEF RoundsInv, Told
      <4>4. net[s][a] = <<>> /\ DOMAIN <<>> = {}
        BY <2>6, <4>3 DEF Untold
      <4> QED  BY <4>1, <4>2, <4>4, AddressesDistinct DEF Failed, Dgram
    <3>3. Opening(a, c)'
      BY <1>3, <2>1, <2>2, <2>3, <3>1, <3>2 DEF Opening
    <3> QED  BY <1>3, <2>6, <3>3 DEF Told
  <2>5. CASE pc[a] = "poll" /\ c = target[a]
    <3>1. CASE net[c][a] = <<>>
      <4>1. r.kind # "P2PMESSAGEACK"
        <5>1. SUFFICES ASSUME r.kind = "P2PMESSAGEACK"  PROVE FALSE
          OBVIOUS
        <5>2. s \in Peer \ {a} /\ s # c
          BY <1>1, <2>3, <3>1, <5>1
        <5>3. Told(a, s) /\ Untold(a, s)
          BY <2>0, <2>5, <5>2 DEF RoundsInv, Told
        <5>4. net[s][a] = <<>> /\ DOMAIN <<>> = {}
          BY <2>5, <5>3 DEF Untold
        <5> QED  BY <5>1, <5>2, <5>4, AddressesDistinct DEF Failed, Dgram
      <4> QED  BY <1>3, <2>1, <2>2, <2>3, <2>5, <3>1, <4>1
               DEF Told, Waiting, Reading, Answered
    <3>2. CASE net[c][a] # <<>>
      <4>1. Answered(a, c) /\ net[c][a] = <<Ack>> /\ ~RecvedACK[a]
        BY <2>1, <2>5, <3>2 DEF Told, Waiting, Reading, Answered
      <4>2. /\ DOMAIN <<Ack>> = {1} /\ <<Ack>>[1] = Ack /\ RemoveAt(<<Ack>>, 1) = <<>>
            /\ Ack.kind = "P2PMESSAGEACK"
        BY RoundPaths DEF Ack, Dgram
      <4>3. CASE s = c
        <5>1. net'[c][a] = <<>>
          BY <1>3, <4>1, <4>2, <4>3, AddressesDistinct
        <5>2. Answered(a, c)'
          BY <1>3, <2>1, <4>1, <5>1 DEF Answered
        <5> QED  BY <1>3, <2>5, <5>2 DEF Told
      <4>4. CASE s # c
        <5>1. net'[c][a] = net[c][a]
          BY <1>3, <4>4
        <5>2. r.kind # "P2PMESSAGEACK"
          <6>1. SUFFICES ASSUME r.kind = "P2PMESSAGEACK"  PROVE FALSE
            OBVIOUS
          <6>2. s \in Peer \ {a}
            BY <1>1, <6>1
          <6>3. Untold(a, s)
            BY <2>0, <2>5, <4>4, <6>2 DEF RoundsInv, Told
          <6>4. net[s][a] = <<>> /\ DOMAIN <<>> = {}
            BY <2>5, <6>3 DEF Untold
          <6> QED  BY <6>1, <6>2, <6>4, AddressesDistinct DEF Failed, Dgram
        <5>3. Answered(a, c)'
          BY <1>3, <2>1, <4>1, <5>1, <5>2 DEF Answered
        <5> QED  BY <1>3, <2>5, <5>3 DEF Told
      <4> QED  BY <4>3, <4>4
    <3> QED  BY <3>1, <3>2
  <2> QED  BY <2>4, <2>5, <2>6
<1>4. \/ pc'[a] = "exited"
      \/ /\ net' = n /\ hole' = hole /\ shown' = shown
         /\ \A d \in Peer \ {a} : rpc'[d] = rpc[d]
         /\ target' = target /\ sends' = sends
         /\ pc'[a] \in {"text", "poll"} => pc'[a] = pc[a]
         /\ pc[a] \in {"text", "poll"} => pc'[a] = pc[a]
         /\ \A d \in Peer \ {a} : pc'[d] = pc[d]
         /\ pc'[a] = "pause" <=> pc[a] = "pause"
         /\ r.kind # "P2PMESSAGEACK" => RecvedACK' = RecvedACK
  BY <1>1, SenderReads
<1> QED  BY <1>2, <1>3, <1>4

(* Somebody else reads: what it leaves of a and the rest.                  *)
LEMMA ReaderFrame ==
  ASSUME NEW a \in Peer, TypeInv, NEW c \in Peer \ {a}, NEW s, NEW r, NEW n,
         Recv(c, s, r, n)
  PROVE  /\ Frame(a)
         /\ \A d \in Peer \ {c} : rpc'[d] = rpc[d] /\ hole'[d] = hole[d] /\ shown'[d] = shown[d]
         /\ shown[c] \subseteq shown'[c]
<1> USE DEF At, Goto, LoggedIn, sendVars, userVars, history, Frame
<1>1. /\ pc \in [Peer -> MainPc] /\ rpc \in [Peer -> RecvPc] /\ hole \in [Peer -> SUBSET Addr]
      /\ RecvedACK \in [Peer -> BOOLEAN] /\ shown \in [Peer -> SUBSET (Peer \X Nat)]
  BY DEF TypeInv, TypeOK, NetTypeOK, ClientTypeOK
<1>2. CASE RecvLoginCount(c, r, n)  BY <1>1, <1>2 DEF RecvLoginCount, Terminate
<1>3. CASE RecvLoginNode(c, r, n)  BY <1>1, <1>3 DEF RecvLoginNode
<1>4. CASE RecvHeader(c, r, n)  BY <1>1, <1>4 DEF RecvHeader, Opened
<1>5. CASE RecvText(c, s, r, n)  BY <1>1, <1>5 DEF RecvText, Terminate, Opened
<1>6. CASE RecvUserCount(c, r, n)  BY <1>1, <1>6 DEF RecvUserCount, Terminate
<1>7. CASE RecvUserNode(c, r, n)  BY <1>1, <1>7 DEF RecvUserNode
<1> QED  BY <1>2, <1>3, <1>4, <1>5, <1>6, <1>7 DEF Recv

(* What somebody else reads that is not from a.                            *)
LEMMA ReadElsewhere ==
  ASSUME NEW a \in Peer, TypeInv, RolesInv(a), NEW c \in Peer \ {a}, Told(a, c),
         pc[a] # "exited", NEW s \in Addr \cup {None}, s # a, NEW r, NEW n \in Paths,
         Recv(c, s, r, n), r = Failed \/ (s \in Addr /\ MayTravel(a, s, c, r)),
         n[a][c] = net[a][c], n[c][a] = net[c][a]
  PROVE  Told(a, c)'
<1> USE DEF At, Goto
<1>1. /\ pc \in [Peer -> MainPc] /\ rpc \in [Peer -> RecvPc] /\ hole \in [Peer -> SUBSET Addr]
      /\ a \in Addr /\ c \in Addr /\ up \in SUBSET Addr
      /\ pc[c] \in {"count", "nodes"} => rpc[c] = "none"
  BY DEF TypeInv, TypeOK, NetTypeOK, ClientTypeOK, RolesInv, Addr
<1>2. Frame(a) /\ shown[c] \subseteq shown'[c]
  BY ReaderFrame
<1>3. r.kind # "P2PMESSAGE"
  <2>1. CASE r = Failed  BY <2>1 DEF Failed, Dgram
  <2> QED  BY <2>1 DEF MayTravel
<1>4. ASSUME Terminate(c, n)  PROVE Told(a, c)'
  <2>1. net' = Closed(n, c) /\ rpc'[c] = "none"
    BY <1>1, <1>4 DEF Terminate
  <2>2. net'[a][c] = <<>> /\ net'[c][a] = net[c][a]
    BY <1>1, <2>1, ClosedPaths
  <2> QED  BY <1>2, <2>1, <2>2, ToldEnded
<1>5. ASSUME net' = n, rpc'[c] = "body" => rpc[c] = "body", hole'[c] = hole[c]
      PROVE  Told(a, c)'
  <2>1. Passes(a, c)' <=> Passes(a, c)
    BY <1>5 DEF Passes
  <2> QED  BY <1>2, <1>5, <2>1, ToldKept
<1>6. CASE RecvLoginCount(c, r, n)
  BY <1>1, <1>4, <1>5, <1>6 DEF RecvLoginCount, LoggedIn
<1>7. CASE RecvLoginNode(c, r, n)
  BY <1>1, <1>5, <1>7 DEF RecvLoginNode, LoggedIn
<1>8. CASE RecvUserCount(c, r, n)
  BY <1>1, <1>4, <1>5, <1>8 DEF RecvUserCount
<1>9. CASE RecvUserNode(c, r, n)
  BY <1>1, <1>5, <1>9 DEF RecvUserNode
<1>10. CASE RecvHeader(c, r, n)
  <2>1. TypeOf(r) # "P2PMESSAGE"
    BY <1>3 DEF TypeOf
  <2>2. rpc[c] = "head" /\ rpc'[c] # "body"
    BY <1>1, <1>10, <2>1 DEF RecvHeader
  <2>3. CASE TypeOf(r) = "P2PSOMEONEWANTTOCALLYOU"
    <3> DEFINE trash == <<Dgram("P2PTRASH", None, 0)>>
    <3>1. r.who = a /\ pc[a] = "pause"
      <4>1. r.kind = "P2PSOMEONEWANTTOCALLYOU"
        BY <2>3 DEF TypeOf
      <4>2. r # Failed
        BY <4>1 DEF Failed, Dgram
      <4> QED  BY <4>1, <4>2 DEF MayTravel
    <3>2. trash \in Seq(Datagram)
      <4>1. Dgram("P2PTRASH", None, 0) \in Datagram
        BY DgramType DEF PeerMsg
      <4> QED  BY <4>1
    <3>3. net' = Sent(n, c, a, trash)
      BY <1>10, <2>3, <3>1 DEF RecvHeader
    <3> HIDE DEF trash
    <3>4. net'[a][c] = net[a][c]
      BY <1>1, <3>2, <3>3, SentPaths
    <3> QED  BY <1>2, <2>2, <3>1, <3>4 DEF Told, Untold, Frame
  <2>4. CASE TypeOf(r) # "P2PSOMEONEWANTTOCALLYOU"
    BY <1>5, <1>10, <2>2, <2>4 DEF RecvHeader
  <2> QED  BY <2>3, <2>4
<1>11. CASE RecvText(c, s, r, n)
  <2>1. CASE Terminate(c, n)
    BY <1>4, <2>1
  <2>2. CASE /\ r # Failed /\ net' = Sent(n, c, s, <<Ack>>) /\ hole' = Opened(c, {s})
             /\ rpc' = [rpc EXCEPT ![c] = "head"]
    <3>1. PICK ms \in Seq(Datagram) : ms = <<Ack>>
      <4>1. Ack \in Datagram
        BY DgramType DEF PeerMsg, Ack
      <4>2. <<Ack>> \in Seq(Datagram)
        BY <4>1
      <4> QED  BY <4>2, Zenon
    <3>5. \A x, y \in Addr : Sent(n, c, s, ms)[x][y] =
             IF x = c /\ y = s /\ s \in up THEN n[x][y] \o ms ELSE n[x][y]
      BY <1>1, SentPaths
    <3>2. net'[a][c] = net[a][c] /\ net'[c][a] = net[c][a]
      BY <1>1, <2>2, <3>1, <3>5
    <3>3. Passes(a, c)' <=> Passes(a, c)
      BY <1>1, <2>2 DEF Passes, Opened
    <3>4. rpc'[c] # "body"
      BY <1>1, <2>2
    <3> QED  BY <1>2, <3>2, <3>3, <3>4, ToldKept
  <2> QED  BY <1>11, <2>1, <2>2 DEF RecvText, Ack
<1> QED  BY <1>6, <1>7, <1>8, <1>9, <1>10, <1>11 DEF Recv

(* What somebody else reads of the sender's.                               *)
LEMMA ReadFromSender ==
  ASSUME NEW a \in Peer, TypeInv, RolesInv(a), NEW c \in Peer \ {a}, Told(a, c),
         NEW n \in Paths, NEW r, 1 \in DOMAIN net[a][c], Passes(a, c),
         r = net[a][c][1], n[a][c] = RemoveAt(net[a][c], 1), n[c][a] = net[c][a],
         Recv(c, a, r, n)
  PROVE  Told(a, c)'
<1> USE DEF At, Goto
<1>1. /\ pc \in [Peer -> MainPc] /\ rpc \in [Peer -> RecvPc] /\ hole \in [Peer -> SUBSET Addr]
      /\ a \in Addr /\ c \in Addr /\ up \in SUBSET Addr
      /\ pc[c] \in {"count", "nodes"} => rpc[c] = "none"
      /\ shown \in [Peer -> SUBSET (Peer \X Nat)]
  BY DEF TypeInv, TypeOK, NetTypeOK, ClientTypeOK, RolesInv, Addr
<1>2. Frame(a) /\ shown[c] \subseteq shown'[c]
  BY ReaderFrame
<1>3. /\ TypeOf(Header) = "P2PMESSAGE" /\ TypeOf(Text(a)) = "BODY" /\ Text(a).kind = "BODY"
      /\ ~IsInt(Header) /\ ~IsInt(Text(a)) /\ Text(a) # Failed
      /\ Text(a).who = a /\ Text(a).num = sends[a] /\ Ack \in Datagram
  BY RoundDatagrams
<1>4. /\ DOMAIN <<>> = {}
      /\ RemoveAt(<<Text(a)>>, 1) = <<>> /\ <<Text(a)>>[1] = Text(a)
      /\ RemoveAt(<<Header, Text(a)>>, 1) = <<Text(a)>> /\ <<Header, Text(a)>>[1] = Header
      /\ RemoveAt(<<Header>>, 1) = <<>> /\ <<Header>>[1] = Header
      /\ <<>> \o <<Ack>> = <<Ack>>
  BY RoundPaths
<1>11. pc[c] # "exited"
  BY <1>1 DEF RolesInv, Recv, RecvLoginCount, RecvLoginNode, RecvHeader, RecvText, RecvUserCount,
     RecvUserNode
<1>5. /\ pc[a] \in {"text", "poll"} /\ c = target[a] /\ ~RecvedACK[a] /\ net[c][a] = <<>>
      /\ pc[a] = "text" => rpc[c] # "body" /\ net[a][c] = <<Header>>
      /\ pc[a] = "poll" =>
           \/ rpc[c] # "body" /\ net[a][c] \in {<<Text(a)>>, <<Header, Text(a)>>}
           \/ rpc[c] = "body" /\ net[a][c] = <<Text(a)>>
  BY <1>4, <1>11 DEF Told, Untold, Opening, Waiting, Reading, Answered
<1>6. Text(a)' = Text(a)
  BY <1>2 DEF Text, Frame
<1>7. ASSUME Terminate(c, n)  PROVE Told(a, c)'
  <2>1. net' = Closed(n, c) /\ rpc'[c] = "none"
    BY <1>1, <1>7 DEF Terminate
  <2>2. net'[a][c] = <<>> /\ net'[c][a] = net[c][a]
    BY <1>1, <2>1, ClosedPaths
  <2> QED  BY <1>2, <2>1, <2>2, ToldEnded
<1>8. CASE rpc[c] # "body"
  <2>1. \/ pc[a] = "poll" /\ r = Text(a) /\ n[a][c] = <<>>
        \/ pc[a] = "poll" /\ r = Header /\ n[a][c] = <<Text(a)>>
        \/ pc[a] = "text" /\ r = Header /\ n[a][c] = <<>>
    BY <1>4, <1>5, <1>8
  <2>2. ASSUME net' = n, rpc'[c] # "body"  PROVE Told(a, c)'
    <3>1. CASE pc[a] = "poll"
      <4>1. Waiting(a, c)'
        BY <1>2, <1>5, <1>6, <2>1, <2>2, <3>1 DEF Waiting, Frame
      <4> QED  BY <1>2, <1>5, <3>1, <4>1 DEF Told, Frame
    <3>2. CASE pc[a] = "text"
      <4>1. Opening(a, c)'
        BY <1>2, <1>5, <2>1, <2>2, <3>2 DEF Opening, Frame
      <4> QED  BY <1>2, <1>5, <3>2, <4>1 DEF Told, Frame
    <3> QED  BY <1>5, <3>1, <3>2
  <2>3. CASE RecvLoginCount(c, r, n)
    BY <1>3, <1>7, <2>1, <2>3 DEF RecvLoginCount
  <2>4. CASE RecvLoginNode(c, r, n)
    BY <1>1, <1>8, <2>2, <2>4 DEF RecvLoginNode, LoggedIn
  <2>5. CASE RecvUserCount(c, r, n)
    BY <1>3, <1>7, <2>1, <2>5 DEF RecvUserCount
  <2>6. CASE RecvUserNode(c, r, n)
    BY <1>1, <2>2, <2>6 DEF RecvUserNode
  <2>7. CASE RecvHeader(c, r, n) /\ r = Text(a)
    BY <1>1, <1>3, <1>8, <2>2, <2>7 DEF RecvHeader
  <2>8. CASE RecvHeader(c, r, n) /\ r = Header
    <3>1. net' = n /\ hole' = hole /\ rpc'[c] = "body"
      BY <1>1, <1>3, <2>8 DEF RecvHeader
    <3>2. n[a][c] = IF pc[a] = "poll" THEN <<Text(a)>> ELSE <<>>
      BY <1>3, <2>1, <2>8
    <3>3. Passes(a, c)'
      BY <3>1 DEF Passes
    <3>4. CASE pc[a] = "poll"
      <4>1. Reading(a, c)'
        BY <1>2, <1>5, <1>6, <3>1, <3>2, <3>3, <3>4 DEF Reading, Frame
      <4> QED  BY <1>2, <1>5, <3>4, <4>1 DEF Told, Frame
    <3>5. CASE pc[a] = "text"
      <4>1. Opening(a, c)'
        BY <1>2, <1>5, <3>1, <3>2, <3>3, <3>5 DEF Opening, Frame
      <4> QED  BY <1>2, <1>5, <3>5, <4>1 DEF Told, Frame
    <3> QED  BY <1>5, <3>4, <3>5
  <2>9. CASE RecvText(c, a, r, n)
    BY <1>8, <2>9 DEF RecvText
  <2> QED  BY <2>1, <2>3, <2>4, <2>5, <2>6, <2>7, <2>8, <2>9 DEF Recv
<1>9. CASE rpc[c] = "body"
  <2>1. r = Text(a) /\ n[a][c] = <<>> /\ pc[a] = "poll"
    BY <1>4, <1>5, <1>9
  <2>2. RecvText(c, a, r, n)
    BY <1>1, <1>9 DEF Recv, RecvLoginCount, RecvLoginNode, RecvHeader, RecvUserCount, RecvUserNode
  <2>3. /\ net' = Sent(n, c, a, <<Ack>>) /\ rpc'[c] = "head"
        /\ <<a, sends[a]>> \in shown'[c]
    BY <1>1, <1>3, <2>1, <2>2 DEF RecvText, Ack
  <2>4. PICK ms \in Seq(Datagram) : ms = <<Ack>>
    <3>1. <<Ack>> \in Seq(Datagram)
      BY <1>3
    <3> QED  BY <3>1, Zenon
  <2>7. \A x, y \in Addr : Sent(n, c, a, ms)[x][y] =
           IF x = c /\ y = a /\ a \in up THEN n[x][y] \o ms ELSE n[x][y]
    <3>1. c \in Addr /\ up \in SUBSET Addr
      BY <1>1
    <3> HIDE <2>4
    <3> QED  BY <3>1, SentPaths
  <2>8. n[c][a] = <<>> /\ n[c][a] \o ms = ms
    BY <1>4, <1>5, <2>4
  <2>5. net'[a][c] = <<>> /\ net'[c][a] \in {<<>>, <<Ack>>}
    BY <1>1, <2>1, <2>3, <2>4, <2>7, <2>8
  <2>6. Answered(a, c)'
    BY <1>2, <1>5, <2>3, <2>5 DEF Answered, Frame
  <2> QED  BY <1>2, <1>5, <2>1, <2>6 DEF Told, Frame
<1> QED  BY <1>8, <1>9

(* A read of somebody else's concerns nobody but the reader.               *)
LEMMA ReaderPaths ==
  ASSUME NEW a \in Peer, TypeInv, NEW c \in Peer \ {a}, NEW s \in Addr \cup {None},
         NEW r \in Datagram \cup {Failed}, NEW n \in Paths, Recv(c, s, r, n),
         \A x, y \in Addr : y # c => n[x][y] = net[x][y]
  PROVE  \A d \in Peer \ {a, c} : net'[a][d] = net[a][d] /\ net'[d][a] = net[d][a]
<1>1. a \in Addr /\ c \in Addr /\ Peer \subseteq Addr /\ up \in SUBSET Addr
  BY DEF TypeInv, TypeOK, NetTypeOK, Addr
<1>2. \E d : \E ms \in Seq(Datagram) :
         net' = n \/ net' = Closed(n, c) \/ net' = Sent(n, c, d, ms)
  <2>1. PICK trash \in Seq(Datagram), ack \in Seq(Datagram) :
           /\ trash = <<Dgram("P2PTRASH", None, 0)>>
           /\ ack = <<Dgram("P2PMESSAGEACK", None, 0)>>
    <3>1. Dgram("P2PTRASH", None, 0) \in Datagram /\ Dgram("P2PMESSAGEACK", None, 0) \in Datagram
      BY DgramType DEF PeerMsg
    <3>2. /\ <<Dgram("P2PTRASH", None, 0)>> \in Seq(Datagram)
          /\ <<Dgram("P2PMESSAGEACK", None, 0)>> \in Seq(Datagram)
      BY <3>1
    <3> QED  BY <3>2, Zenon
  <2>2. \/ net' = n \/ net' = Closed(n, c)
        \/ net' = Sent(n, c, r.who, trash) \/ net' = Sent(n, c, s, ack)
    BY <2>1 DEF Recv, RecvLoginCount, RecvLoginNode, RecvHeader, RecvText, RecvUserCount,
       RecvUserNode, Terminate
  <2> QED  BY <2>1, <2>2
<1>5. PICK d : \E ms \in Seq(Datagram) :
         net' = n \/ net' = Closed(n, c) \/ net' = Sent(n, c, d, ms)
  BY <1>2, Zenon
<1>6. PICK ms \in Seq(Datagram) :
         net' = n \/ net' = Closed(n, c) \/ net' = Sent(n, c, d, ms)
  BY <1>5, Zenon
<1>3. \A x, y \in Addr : Closed(n, c)[x][y] = IF y = c THEN <<>> ELSE n[x][y]
  BY ClosedPaths
<1>4. \A x, y \in Addr : x # c => Sent(n, c, d, ms)[x][y] = n[x][y]
  BY <1>1, SentPaths
<1> QED  BY <1>1, <1>3, <1>4, <1>6

(* What is read is taken from one path to the reader.                      *)
LEMMA RoundsRead ==
  ASSUME NEW a \in Peer, Benign, TypeInv, RolesInv(a), TravelInv(a), RoundsInv(a),
         NEW c \in Peer, NEW s \in Addr, NEW i \in Receivable(s, c),
         Recv(c, s, net[s][c][i], Taken(s, c, i))
  PROVE  RoundsInv(a)'
<1>1. /\ net \in Paths /\ a \in Addr /\ c \in Addr /\ Peer \subseteq Addr
      /\ i \in DOMAIN net[s][c] /\ net[s][c] \in Seq(Datagram)
      /\ Passes(s, c) /\ i = 1
  BY DEF TypeInv, TypeOK, NetTypeOK, Addr, Paths, Receivable, Benign
<1> PICK n, r : n = Taken(s, c, i) /\ r = net[s][c][i]
  OBVIOUS
<1>2. n \in Paths /\ r \in Datagram /\ Recv(c, s, r, n)
  BY <1>1, TakenPaths
<1>3. \A x, y \in Addr :
         n[x][y] = IF x = s /\ y = c THEN RemoveAt(net[x][y], i) ELSE net[x][y]
  BY <1>1, TakenPaths
<1>4. CASE c = a
  <2>1. \A y \in Peer \ {a} : n[a][y] = net[a][y]
    BY <1>1, <1>3, <1>4
  <2>2. \A x \in Peer : x # s => n[x][a] = net[x][a]
    BY <1>1, <1>3, <1>4
  <2>3. \E j \in DOMAIN net[s][a] : r = net[s][a][j] /\ n[s][a] = RemoveAt(net[s][a], j)
    BY <1>1, <1>3, <1>4
  <2>4. Recv(a, s, r, n)
    BY <1>2, <1>4
  <2> QED  BY <2>1, <2>2, <2>3, <2>4, RoundsReadBySender
<1>5. CASE c # a
  <2>1. Frame(a) /\ \A d \in Peer \ {c} : rpc'[d] = rpc[d] /\ hole'[d] = hole[d] /\ shown'[d] = shown[d]
    BY <1>2, <1>5, ReaderFrame
  <2>2. \A d \in Peer \ {a, c} : net'[a][d] = net[a][d] /\ net'[d][a] = net[d][a]
    <3>1. \A x, y \in Addr : y # c => n[x][y] = net[x][y]
      BY <1>3
    <3> QED  BY <1>2, <1>5, <3>1, ReaderPaths
  <2>3. ASSUME pc[a] # "exited"  PROVE Told(a, c)'
    <3>1. Told(a, c)
      BY <1>5, <2>3 DEF RoundsInv
    <3>2. n[c][a] = net[c][a]
      BY <1>1, <1>3, <1>5
    <3>3. CASE s = a
      <4>1. r = net[a][c][1] /\ n[a][c] = RemoveAt(net[a][c], 1) /\ 1 \in DOMAIN net[a][c]
        BY <1>1, <1>3, <3>3
      <4> QED  BY <1>1, <1>2, <1>5, <3>1, <3>2, <3>3, <4>1, ReadFromSender
    <3>4. CASE s # a
      <4>1. n[a][c] = net[a][c]
        BY <1>1, <1>3, <3>4
      <4>2. MayTravel(a, s, c, r)
        <5>1. r \in Range(net[s][c])
          BY <1>1 DEF Range
        <5> QED  BY <1>1, <5>1 DEF TravelInv
      <4> QED  BY <1>2, <1>5, <2>3, <3>1, <3>2, <3>4, <4>1, <4>2, ReadElsewhere
    <3> QED  BY <3>3, <3>4
  <2> QED  BY <1>5, <2>1, <2>2, <2>3, RoundsKept
<1> QED  BY <1>4, <1>5

(* A read that fails leaves the paths as they are.                         *)
LEMMA RoundsFail ==
  ASSUME NEW a \in Peer, TypeInv, RolesInv(a), TravelInv(a), RoundsInv(a),
         NEW c \in Peer, Recv(c, None, Failed, net)
  PROVE  RoundsInv(a)'
<1>1. net \in Paths /\ a \in Addr /\ c \in Addr /\ Peer \subseteq Addr /\ None \notin Peer
  BY AddressesDistinct DEF TypeInv, TypeOK, NetTypeOK, Addr
<1> PICK n, r, s : n = net /\ r = Failed /\ s = None
  OBVIOUS
<1>2. Recv(c, s, r, n) /\ s \in Addr \cup {None} /\ s # a
  BY <1>1
<1>4. CASE c = a
  BY <1>2, <1>4, RoundsReadBySender
<1>5. CASE c # a
  <2>1. Frame(a) /\ \A d \in Peer \ {c} : rpc'[d] = rpc[d] /\ hole'[d] = hole[d] /\ shown'[d] = shown[d]
    BY <1>2, <1>5, ReaderFrame
  <2>2. \A d \in Peer \ {a, c} : net'[a][d] = net[a][d] /\ net'[d][a] = net[d][a]
    BY <1>1, <1>2, <1>5, ReaderPaths
  <2>3. ASSUME pc[a] # "exited"  PROVE Told(a, c)'
    <3>1. Told(a, c)
      BY <1>5, <2>3 DEF RoundsInv
    <3> QED  BY <1>1, <1>2, <1>5, <2>3, <3>1, ReadElsewhere
  <2> QED  BY <1>5, <2>1, <2>2, <2>3, RoundsKept
<1> QED  BY <1>4, <1>5

(* Every step of the system keeps the rounds.                              *)
LEMMA RoundsNext ==
  ASSUME NEW a \in Peer, OnlySender(a), Benign, TypeInv, ProcessInv, RolesInv(a),
         TravelInv(a), RoundsInv(a), [Next]_vars
  PROVE  RoundsInv(a)'
<1>1. CASE ServerStep
  BY <1>1, RoundsServer DEF ServerStep
<1>2. CASE NetStep
  BY <1>2, RoundsDrop DEF NetStep
<1>3. ASSUME NEW c \in Peer, ClientStep(c)  PROVE RoundsInv(a)'
  <2>1. CASE (Command(c) \/ Main(c)) /\ c = a
    BY <2>1, RoundsSender
  <2>2. CASE (Command(c) \/ Main(c)) /\ c # a
    BY <2>2, RoundsCommand
  <2>3. CASE RecvDatagram(c)
    <3>1. PICK s \in Addr : \E i \in Receivable(s, c) :
                                Recv(c, s, net[s][c][i], Taken(s, c, i))
      BY <2>3 DEF RecvDatagram
    <3>2. PICK i \in Receivable(s, c) : Recv(c, s, net[s][c][i], Taken(s, c, i))
      BY <3>1
    <3> QED  BY <3>2, RoundsRead
  <2>4. CASE RecvFails(c)
    BY <2>4, RoundsFail DEF RecvFails
  <2> QED  BY <1>3, <2>1, <2>2, <2>3, <2>4 DEF ClientStep
<1>4. CASE UNCHANGED vars
  BY <1>4 DEF vars, netVars, clientVars, threadVars, sendVars, userVars, history, RoundsInv,
     Told, Untold, Opening, Waiting, Reading, Answered, Passes, Text
<1> QED  BY <1>1, <1>2, <1>3, <1>4 DEF Next

(* Nothing is under way at first.                                          *)
LEMMA RoundsInit ==
  ASSUME NEW a \in Peer, Init
  PROVE  RolesInv(a) /\ TravelInv(a) /\ RoundsInv(a)
<1>1. /\ \A c \in Peer : pc[c] = "start" /\ rpc[c] = "none"
      /\ \A s, d \in Addr : net[s][d] = <<>>
      /\ Peer \subseteq Addr
  BY DEF Init, NetInit, ClientInit, Addr
<1>2. Range(<<>>) = {}
  BY DEF Range
<1> QED  BY <1>1, <1>2 DEF RolesInv, TravelInv, RoundsInv, Sending, Told, Untold

(* "Send OK!" means shown, where one client sends and nothing is lost,     *)
(* overtaken or slower than the sleeps (SendMessageTo, RecvThreadProc): a  *)
(* late answer cannot be taken for the one to the message being sent.      *)
THEOREM OkIsShown ==
  ASSUME NEW a \in Peer, OnlySender(a), Benign
  PROVE  Spec => OkMeansShown
<1> DEFINE Inv == TypeInv /\ ProcessInv /\ RolesInv(a) /\ TravelInv(a) /\ RoundsInv(a)
<1>1. Init => Inv
  BY TypesInit, ProcessInit, RoundsInit
<1>2. Inv /\ [Next]_vars => Inv'
  BY TypesNext, ProcessNext, TravelNext, RoundsNext
<1>3. ASSUME Inv, [Next]_vars
      PROVE  [\A c \in Peer : SeeACK(c) => <<c, sends[c]>> \in shown[target[c]]]_vars
  <2> SUFFICES ASSUME NEW c \in Peer, SeeACK(c)  PROVE <<c, sends[c]>> \in shown[target[c]]
    OBVIOUS
  <2>1. pc[c] = "poll" /\ RecvedACK[c]
    BY DEF SeeACK, At
  <2>2. c = a /\ target[a] \in Peer \ {a}
    BY <1>3, <2>1 DEF RolesInv, Sending
  <2>3. Told(a, target[a])
    BY <1>3, <2>1, <2>2 DEF RoundsInv
  <2> QED  BY <2>1, <2>2, <2>3 DEF Told, Waiting, Reading, Answered
<1> HIDE DEF Inv
<1> QED
  BY <1>1, <1>2, <1>3, PTL DEF Spec, OkMeansShown

-----------------------------------------------------------------------------
(* Failure.                                                                *)

(* Two clients of their own names; a sends, b asks for no list.            *)
OneCaller(a, b) ==
  /\ a # b /\ Peer = {a, b} /\ OnlySender(a) /\ MaxGetu[b] = 0
  /\ UniqueNames /\ Benign /\ MAXRETRY >= 2

(* What a step may put on the path from x to y.                            *)
Fresh(x, y, m) ==
  /\ m.kind = "LOGIN" => x \in Peer /\ pc[x] = "start"
  /\ m.kind = "GETALLUSER" =>
       \/ x \in Peer /\ y = Server /\ getus[x] < MaxGetu[x] /\ pc[x] = "cmd"
       \/ x = Server /\ y \in Peer /\ \E g \in Range(net[y][Server]) : g.kind = "GETALLUSER"
  /\ m.kind = "COUNT" => /\ x = Server /\ y \in Peer
                         /\ \E g \in Range(net[y][Server]) : g.kind \in {"LOGIN", "GETALLUSER"}
  /\ m.kind = "NODE" => m.who \in Range(ClientList')
  /\ m.kind = "P2PTRANS" => x \in Peer /\ pc[x] = "lastsleep" /\ m.who = wanted[x]

NewDatagrams == \A x, y \in Addr : \A m \in Range(net'[x][y]) :
                  m \in Range(net[x][y]) \/ Fresh(x, y, m)

LEMMA OneDatagram ==
  ASSUME NEW m \in Datagram
  PROVE  <<m>> \in Seq(Datagram) /\ Range(<<m>>) = {m} /\ Len(<<m>>) = 1 /\ <<m>>[1] = m
<1>1. <<m>> \in Seq(Datagram) /\ DOMAIN <<m>> = {1} /\ Len(<<m>>) = 1 /\ <<m>>[1] = m
  OBVIOUS
<1> QED  BY <1>1 DEF Range

LEMMA SentFresh ==
  ASSUME up \in SUBSET Addr, NEW n, Shrunk(n), NEW s \in Addr, NEW d, NEW ms \in Seq(Datagram),
         d \in Addr => \A m \in Range(ms) : Fresh(s, d, m),
         \/ net' = Sent(n, s, d, ms)
         \/ \E c \in Addr : net' = Closed(Sent(n, s, d, ms), c)
  PROVE  NewDatagrams
<1>1. n \in Paths /\ \A x, y \in Addr : Range(n[x][y]) \subseteq Range(net[x][y])
  BY DEF Shrunk
<1> DEFINE k == Sent(n, s, d, ms)
<1>2. k \in Paths /\ \A x, y \in Addr :
         Range(k[x][y]) \subseteq Range(n[x][y]) \cup (IF x = s /\ y = d THEN Range(ms) ELSE {})
  BY <1>1, SentPaths, SentRange
<1>3. net' = k \/ \E c \in Addr : net' = Closed(k, c)
  OBVIOUS
<1> HIDE DEF k
<1>4. Range(<<>>) = {}
  BY DEF Range
<1>5. \A x, y \in Addr : Range(net'[x][y]) \subseteq Range(k[x][y])
  <2>1. CASE net' = k  BY <2>1
  <2>2. ASSUME NEW c \in Addr, net' = Closed(k, c)
        PROVE  \A x, y \in Addr : Range(net'[x][y]) \subseteq Range(k[x][y])
    <3>1. \A x, y \in Addr : net'[x][y] = IF y = c THEN <<>> ELSE k[x][y]
      BY <1>2, <2>2, ClosedPaths
    <3> QED  BY <1>4, <3>1
  <2> QED  BY <1>3, <2>1, <2>2
<1> QED  BY <1>1, <1>2, <1>5 DEF NewDatagrams

LEMMA ShrunkFresh ==
  ASSUME NEW n, Shrunk(n), net' = n \/ \E c : net' = Closed(n, c)
  PROVE  NewDatagrams
<1>1. Shrunk(net')
  BY ClosedShrinks
<1> QED  BY <1>1 DEF NewDatagrams, Shrunk

(* The nodes of a reply are those of the list.                             *)
LEMMA ListingNodes ==
  ASSUME NEW l \in Seq(Peer)
  PROVE  \A m \in Range(Listing(l)) :
           m.kind = "COUNT" \/ (m.kind = "NODE" /\ m.who \in Range(l))
<1> DEFINE nodes == [i \in DOMAIN l |-> Dgram("NODE", l[i], 0)]
           head == <<Dgram("COUNT", None, Len(l))>>
<1>1. DOMAIN l = 1..Len(l) /\ Len(l) \in Nat /\ \A i \in 1..Len(l) : l[i] \in Peer
  BY LenProperties, ElementOfSeq
<1>2. nodes \in Seq(Datagram)
  <2>1. \A i \in 1..Len(l) : Dgram("NODE", l[i], 0) \in Datagram
    BY <1>1, DgramType DEF Reply
  <2>2. nodes \in [1..Len(l) -> Datagram]
    BY <1>1, <2>1
  <2> QED  BY <1>1, <2>2, SeqDef
<1>3. \A m \in Range(nodes) : m.kind = "NODE" /\ m.who \in Range(l)
  BY DEF Range, Dgram
<1>4. head \in Seq(Datagram) /\ \A m \in Range(head) : m.kind = "COUNT"
  <2>1. Dgram("COUNT", None, Len(l)) \in Datagram
    BY <1>1, DgramType DEF Reply
  <2> QED  BY <2>1, OneDatagram DEF Dgram
<1> HIDE DEF nodes, head
<1>6. Range(head \o nodes) = Range(head) \cup Range(nodes)
  BY <1>2, <1>4, RangeConcatenation
<1> QED  BY <1>3, <1>4, <1>6 DEF Listing, nodes, head

LEMMA ServerSends ==
  ASSUME TypeInv, NEW c \in Peer, ServerNext(c)
  PROVE  NewDatagrams
<1> PICK i \in Receivable(c, Server) :
          \/ Login(c, i) \/ Logout(c, i) \/ P2PTrans(c, i)
          \/ GetAllUser(c, i) \/ ServerIgnores(c, i)
  BY DEF ServerNext
<1> DEFINE n == Taken(c, Server, i)
           r == net[c][Server][i]
<1>1. /\ i \in DOMAIN net[c][Server]
      /\ c \in Addr /\ Server \in Addr /\ Server \notin Peer
      /\ up \in SUBSET Addr /\ net \in Paths /\ ClientList \in Seq(Peer)
  BY AddressesDistinct DEF Receivable, TypeInv, TypeOK, NetTypeOK, ServerTypeOK, Addr
<1>2. Shrunk(n) /\ r \in Range(net[c][Server])
  BY <1>1, TakenShrinks
<1> HIDE DEF n
<1>6. CASE Login(c, i)
  <2>1. ClientList' \in Seq(Peer) /\ r.kind = "LOGIN"
    BY <1>1, <1>6, AppendProperties DEF Login
  <2>2. Listing(ClientList') \in Seq(Datagram)
    BY <2>1, ListingType
  <2>3. \A m \in Range(Listing(ClientList')) : Fresh(Server, c, m)
    BY <1>2, <2>1, ListingNodes DEF Fresh
  <2> QED  BY <1>1, <1>2, <1>6, <2>2, <2>3, SentFresh DEF Login, n
<1>7. CASE Logout(c, i) \/ ServerIgnores(c, i)
  BY <1>2, <1>7, ShrunkFresh DEF Logout, ServerIgnores, n
<1>8. CASE P2PTrans(c, i)
  <2> DEFINE found == Matches(ClientList, r.who)
             call == Dgram("P2PSOMEONEWANTTOCALLYOU", c, 0)
  <2>2. CASE found # {}
    <3>1. PICK d : net' = Sent(n, Server, d, <<call>>)
      BY <1>8, <2>2 DEF P2PTrans, n, IsFirst
    <3>2. call \in Datagram /\ call.kind = "P2PSOMEONEWANTTOCALLYOU"
      <4>1. /\ "P2PSOMEONEWANTTOCALLYOU" \in Request \cup Reply \cup PeerMsg
            /\ c \in Peer \cup Name \cup {None} /\ 0 \in Nat
        BY DEF Reply
      <4> QED  BY <4>1, DgramType
    <3> HIDE DEF call
    <3>3. PICK ms \in Seq(Datagram) : ms = <<call>> /\ Range(ms) = {call}
      BY <3>2, OneDatagram
    <3>4. \A m \in Range(ms) : Fresh(Server, d, m)
      BY <3>2, <3>3 DEF Fresh
    <3> QED  BY <1>1, <1>2, <3>1, <3>3, <3>4, SentFresh
  <2>3. CASE found = {}
    <3>1. net' = Closed(net, Server)
      BY <1>8, <2>3 DEF P2PTrans
    <3> QED  BY <1>1, <3>1, ShrunkNow, ShrunkFresh
  <2> QED  BY <2>2, <2>3
<1>9. CASE GetAllUser(c, i)
  <2> DEFINE get == Dgram("GETALLUSER", None, 0)
  <2>1. get \in Datagram /\ get.kind = "GETALLUSER" /\ r.kind = "GETALLUSER"
    BY <1>9, DgramType DEF Reply, GetAllUser
  <2>3. Listing(ClientList) \in Seq(Datagram) /\ ClientList' = ClientList
    BY <1>1, <1>9, ListingType DEF GetAllUser
  <2>4. \A m \in Range(Listing(ClientList)) :
           m.kind = "COUNT" \/ (m.kind = "NODE" /\ m.who \in Range(ClientList))
    BY <1>1, ListingNodes
  <2>5. net' = Sent(n, Server, c, <<get>> \o Listing(ClientList))
    BY <1>9 DEF GetAllUser, n
  <2> HIDE DEF get
  <2>6. PICK first \in Seq(Datagram) : first = <<get>> /\ Range(first) = {get}
    BY <2>1, OneDatagram
  <2>7. PICK ms \in Seq(Datagram) :
           /\ ms = first \o Listing(ClientList)
           /\ Range(ms) = Range(first) \cup Range(Listing(ClientList))
    BY <2>3, ConcatProperties, RangeConcatenation
  <2>8. \A m \in Range(ms) : Fresh(Server, c, m)
    BY <1>2, <2>1, <2>3, <2>4, <2>6, <2>7 DEF Fresh
  <2> QED  BY <1>1, <1>2, <2>5, <2>6, <2>7, <2>8, SentFresh
<1> QED  BY <1>6, <1>7, <1>8, <1>9

LEMMA MainSends ==
  ASSUME TypeInv, NEW c \in Peer, Command(c) \/ Main(c)
  PROVE  NewDatagrams
<1> USE DEF At, Goto
<1>1. /\ c \in Addr /\ Server \in Addr /\ up \in SUBSET Addr /\ net \in Paths
      /\ wanted[c] \in Name \cup {None} /\ sends[c] \in Nat /\ NameOf[c] \in Name
      /\ Shrunk(net)
  BY EveryPeerNamed, ShrunkNow DEF TypeInv, TypeOK, NetTypeOK, ClientTypeOK, Addr
<1>2. ASSUME NEW kind \in {"LOGIN", "LOGOUT", "GETALLUSER", "P2PTRANS"},
             NEW who \in Name \cup {None},
             \/ net' = Sent(net, c, Server, <<Dgram(kind, who, 0)>>)
             \/ net' = Closed(Sent(net, c, Server, <<Dgram(kind, who, 0)>>), c),
             kind = "LOGIN" => pc[c] = "start",
             kind = "GETALLUSER" => getus[c] < MaxGetu[c] /\ pc[c] = "cmd",
             kind = "P2PTRANS" => pc[c] = "lastsleep" /\ who = wanted[c]
      PROVE  NewDatagrams
  <2> DEFINE m == Dgram(kind, who, 0)
  <2>1. m \in Datagram /\ m.kind = kind /\ m.who = who
    BY DgramType DEF Request
  <2>2. net' = Sent(net, c, Server, <<m>>) \/ net' = Closed(Sent(net, c, Server, <<m>>), c)
    BY <1>2
  <2> HIDE DEF m
  <2>3. PICK ms \in Seq(Datagram) : ms = <<m>> /\ Range(ms) = {m}
    BY <2>1, OneDatagram
  <2>4. \A x \in Range(ms) : Fresh(c, Server, x)
    BY <1>2, <2>1, <2>3 DEF Fresh
  <2> QED  BY <1>1, <2>2, <2>3, <2>4, SentFresh
<1>5. CASE SendLogin(c)
  BY <1>1, <1>2, <1>5 DEF SendLogin, Transmit
<1>6. CASE Exit(c)
  BY <1>1, <1>2, <1>6 DEF Exit, Terminate
<1>7. CASE GetUsers(c)
  BY <1>1, <1>2, <1>7 DEF GetUsers, Transmit
<1>8. CASE \/ \E name \in Name \ {NameOf[c]} : SendCommand(c, name)
           \/ FindUser(c) \/ NotFound(c) \/ GiveUp(c) \/ SeeACK(c) \/ MissACK(c)
           \/ Retry(c)
  <2>1. net' = net
    BY <1>8 DEF SendCommand, FindUser, NotFound, GiveUp, SeeACK, MissACK, Retry, netVars
  <2> QED  BY <1>1, <2>1, ShrunkFresh
<1>9. CASE SendHeader(c) \/ SendText(c)
  <2>1. PICK m \in Datagram : /\ m.kind \in {"P2PMESSAGE", "BODY"}
                              /\ Transmit(c, target[c], <<m>>)
    BY <1>9, RoundSends
  <2>2. PICK d : net' = Sent(net, c, d, <<m>>)
    BY <2>1 DEF Transmit
  <2>3. PICK ms \in Seq(Datagram) : ms = <<m>> /\ Range(ms) = {m}
    BY OneDatagram
  <2>4. \A x \in Range(ms) : Fresh(c, d, x)
    BY <2>1, <2>3 DEF Fresh
  <2> QED  BY <1>1, <2>2, <2>3, <2>4, SentFresh
<1>10. CASE AskServer(c)
  BY <1>1, <1>2, <1>10 DEF AskServer, Transmit
<1> QED  BY <1>5, <1>6, <1>7, <1>8, <1>9, <1>10 DEF Command, Main

LEMMA RecvSends ==
  ASSUME TypeInv, NEW c \in Peer, NEW s, NEW r, NEW n, Shrunk(n), Recv(c, s, r, n)
  PROVE  NewDatagrams
<1>1. c \in Addr /\ up \in SUBSET Addr
  BY DEF TypeInv, TypeOK, NetTypeOK, Addr
<1>2. ASSUME NEW kind \in {"P2PTRASH", "P2PMESSAGEACK"}, NEW d,
             net' = Sent(n, c, d, <<Dgram(kind, None, 0)>>)
      PROVE  NewDatagrams
  <2> DEFINE m == Dgram(kind, None, 0)
  <2>1. m \in Datagram /\ m.kind = kind
    <3>1. /\ kind \in Request \cup Reply \cup PeerMsg
          /\ kind \notin {"NODE", "P2PSOMEONEWANTTOCALLYOU", "BODY"}
      BY DEF PeerMsg
    <3> QED  BY <3>1, DgramType
  <2>2. net' = Sent(n, c, d, <<m>>)
    BY <1>2
  <2> HIDE DEF m
  <2>3. PICK ms \in Seq(Datagram) : ms = <<m>> /\ Range(ms) = {m}
    BY <2>1, OneDatagram
  <2>4. \A x \in Range(ms) : Fresh(c, d, x)
    BY <2>1, <2>3 DEF Fresh
  <2> QED  BY <1>1, <2>2, <2>3, <2>4, SentFresh
<1>3. \/ net' = n \/ net' = Closed(n, c)
      \/ \E kind \in {"P2PTRASH", "P2PMESSAGEACK"} : \E d :
            net' = Sent(n, c, d, <<Dgram(kind, None, 0)>>)
  BY DEF Recv, RecvLoginCount, RecvLoginNode, RecvHeader, RecvText, RecvUserCount,
     RecvUserNode, Terminate
<1> QED  BY <1>2, <1>3, ShrunkFresh

(* Every step.                                                             *)
LEMMA NextSends == TypeInv /\ [Next]_vars => NewDatagrams
<1> SUFFICES ASSUME TypeInv, [Next]_vars  PROVE NewDatagrams
  OBVIOUS
<1>1. net \in Paths /\ Peer \subseteq Addr /\ Shrunk(net)
  BY ShrunkNow DEF TypeInv, TypeOK, NetTypeOK, Addr
<1>2. CASE ServerStep
  BY <1>2, ServerSends DEF ServerStep
<1>3. CASE NetStep
  <2>1. PICK s \in Addr, d \in Addr : \E i \in DOMAIN net[s][d] : net' = Taken(s, d, i)
    BY <1>3 DEF NetStep, Drop
  <2> QED  BY <1>1, <2>1, TakenShrinks, ShrunkFresh
<1>4. ASSUME NEW c \in Peer, ClientStep(c)  PROVE NewDatagrams
  <2>1. CASE Command(c) \/ Main(c)
    BY <2>1, MainSends
  <2>2. CASE RecvDatagram(c)
    <3>1. PICK s \in Addr : \E i \in Receivable(s, c) :
               Recv(c, s, net[s][c][i], Taken(s, c, i))
      BY <2>2 DEF RecvDatagram
    <3>2. PICK i \in Receivable(s, c) : Recv(c, s, net[s][c][i], Taken(s, c, i))
      BY <3>1
    <3>3. i \in DOMAIN net[s][c] /\ c \in Addr
      BY <1>1 DEF Receivable
    <3> QED  BY <1>1, <3>2, <3>3, TakenShrinks, RecvSends
  <2>3. CASE RecvFails(c)
    BY <1>1, <2>3, RecvSends DEF RecvFails
  <2> QED  BY <1>4, <2>1, <2>2, <2>3 DEF ClientStep
<1>5. CASE UNCHANGED vars
  BY <1>5 DEF vars, netVars, NewDatagrams
<1> QED  BY <1>2, <1>3, <1>4, <1>5 DEF Next

(* Only who has ended is taken from the list.                              *)
LEMMA StaysListed ==
  ASSUME UniqueNames, TypeInv, DirectoryInv, [Next]_vars,
         \A x \in Peer : pc[x] = "exited" => pc'[x] = "exited"
  PROVE  \A x \in Peer : ListedOrGone(x) => ListedOrGone(x)'
<1> SUFFICES ASSUME NEW x \in Peer, x \in Range(ClientList), pc[x] # "exited"
             PROVE  x \in Range(ClientList')
  BY DEF ListedOrGone, Listed
<1>1. ClientList \in Seq(Peer) /\ net \in Paths /\ Peer \subseteq Addr /\ Server \in Addr
  BY DEF TypeInv, TypeOK, NetTypeOK, ServerTypeOK, Addr
<1>2. ASSUME NEW c \in Peer, NEW i \in Receivable(c, Server), Logout(c, i)
      PROVE  x \in Range(ClientList')
  <2> DEFINE m == net[c][Server][i]
  <2>1. m \in Range(net[c][Server])
    BY DEF Receivable, Range
  <2>2. pc[c] = "exited" /\ m.who = NameOf[c]
    BY <1>2, <2>1 DEF DirectoryInv, RequestsInv, Logout
  <2>3. CASE ClientList' = ClientList
    BY <2>3
  <2>4. ASSUME NEW k \in DOMAIN ClientList, k \in Matches(ClientList, m.who),
               ClientList' = RemoveAt(ClientList, k)
        PROVE  x \in Range(ClientList')
    <3>1. ClientList[k] = c
      BY <1>1, <2>2, <2>4, LenProperties, ElementOfSeq DEF Matches, UniqueNames
    <3>2. Range(ClientList') = Range(ClientList) \ {ClientList[k]}
      BY <1>1, <2>4, RemoveAtUnique DEF DirectoryInv, NoDuplicates
    <3> QED  BY <2>2, <3>1, <3>2
  <2> QED  BY <1>2, <2>3, <2>4 DEF Logout, IsFirst
<1>3. ASSUME NEW c \in Peer, NEW i \in Receivable(c, Server), Login(c, i)
      PROVE  x \in Range(ClientList')
  BY <1>1, <1>3, AppendRange DEF Login
<1>4. ASSUME ClientList' = ClientList  PROVE x \in Range(ClientList')
  BY <1>4
<1>5. CASE ServerStep
  BY <1>2, <1>3, <1>4, <1>5 DEF ServerStep, ServerNext, P2PTrans, GetAllUser, ServerIgnores
<1>6. CASE NetStep  BY <1>4, <1>6 DEF NetStep
<1>7. ASSUME NEW c \in Peer, ClientStep(c)  PROVE ClientList' = ClientList
  BY <1>7 DEF ClientStep
<1>8. CASE UNCHANGED vars  BY <1>4, <1>8 DEF vars
<1> QED  BY <1>4, <1>5, <1>6, <1>7, <1>8 DEF Next

LEMMA EndsStay ==
  ASSUME TypeInv, [Next]_vars
  PROVE  \A x \in Peer : pc[x] = "exited" => pc'[x] = "exited"
<1>1. ASSUME pc' = pc  PROVE \A x \in Peer : pc[x] = "exited" => pc'[x] = "exited"
  BY <1>1
<1>2. ASSUME NEW c \in Peer, ClientStep(c)
      PROVE  \A x \in Peer : pc[x] = "exited" => pc'[x] = "exited"
  <2> DEFINE gone == {x \in Peer : pc[x] = "exited"}
  <2>1. gone' = gone \/ gone' = gone \cup {c}
    BY <1>2, ClientEnds
  <2> QED  BY <2>1
<1> QED  BY <1>1, <1>2 DEF Next, ServerStep, NetStep, vars, clientVars, threadVars

(* Nodes and requests to be called name somebody listed or gone; so does   *)
(* what a has found; the server runs until b is gone.                      *)
NodesInv(a, b) ==
  /\ \A s, d \in Addr : \A m \in Range(net[s][d]) :
       /\ m.kind = "NODE" => ListedOrGone(m.who)
       /\ m.kind = "P2PTRANS" => m.who = NameOf[b] /\ ListedOrGone(b)
       /\ m.kind = "GETALLUSER" => b \notin {s, d}
  /\ \A p \in Range(list[a]) : p # None => ListedOrGone(p)
  /\ pc[a] \in Sending \ {"find"} => ListedOrGone(b) /\ wanted[a] = NameOf[b]
  /\ Server \notin up => pc[b] = "exited"

LEMMA NodesRead ==
  ASSUME NEW a \in Peer, NEW b \in Peer, TypeInv, NodesInv(a, b), NEW c \in Peer, NEW s,
         NEW r \in Datagram \cup {Failed}, NEW n, Recv(c, s, r, n),
         r.kind = "NODE" => ListedOrGone(r.who)
  PROVE  /\ \A p \in Range(list'[a]) : p # None => ListedOrGone(p)
         /\ pc'[a] \in Sending => pc'[a] = pc[a]
         /\ wanted' = wanted /\ (Server \in up => Server \in up')
<1> USE DEF At, Goto, LoggedIn
<1>1. /\ pc \in [Peer -> MainPc] /\ list \in [Peer -> Seq(Peer \cup {None})]
      /\ Server \notin Peer
  BY AddressesDistinct DEF TypeInv, TypeOK, ClientTypeOK
<1>2. NodeOf(r) \in Peer \cup {None} /\ (NodeOf(r) # None => ListedOrGone(NodeOf(r)))
  BY DEF NodeOf, Failed, Dgram, Datagram
<1>3. \/ list' = list \/ list' = [list EXCEPT ![c] = <<>>]
      \/ list' = [list EXCEPT ![c] = Append(list[c], NodeOf(r))]
  BY DEF Recv, RecvLoginCount, RecvLoginNode, RecvHeader, RecvText, RecvUserCount,
     RecvUserNode
<1>4. \/ pc' = pc \/ \E l \in {"exited", "nodes", "cmd"} : pc' = [pc EXCEPT ![c] = l]
  BY DEF Recv, RecvLoginCount, RecvLoginNode, RecvHeader, RecvText, RecvUserCount,
     RecvUserNode, Terminate
<1>5. wanted' = wanted
  BY DEF Recv, RecvLoginCount, RecvLoginNode, RecvHeader, RecvText, RecvUserCount,
     RecvUserNode, sendVars
<1>6. up' = up \/ up' = up \ {c}
  BY DEF Recv, RecvLoginCount, RecvLoginNode, RecvHeader, RecvText, RecvUserCount,
     RecvUserNode, Terminate
<1>7. Range(Append(list[c], NodeOf(r))) = Range(list[c]) \cup {NodeOf(r)}
  BY <1>1, <1>2, AppendRange
<1>8. Range(<<>>) = {}
  BY DEF Range
<1>9. \A p \in Range(list'[a]) : p # None => ListedOrGone(p)
  <2>1. \A p \in Range(list[a]) : p # None => ListedOrGone(p)
    BY DEF NodesInv
  <2>2. PICK nd : nd = NodeOf(r)
    OBVIOUS
  <2>3. \/ list'[a] = list[a] \/ list'[a] = <<>>
        \/ c = a /\ list'[a] = Append(list[c], nd)
    BY <1>1, <1>3, <2>2
  <2> QED  BY <1>2, <1>7, <1>8, <2>1, <2>2, <2>3
<1>10. pc'[a] \in Sending => pc'[a] = pc[a]
  BY <1>1, <1>4 DEF Sending
<1> QED  BY <1>1, <1>5, <1>6, <1>9, <1>10

LEMMA NodesMain ==
  ASSUME NEW a \in Peer, NEW b \in Peer, OneCaller(a, b), TypeInv, RolesInv(a),
         NodesInv(a, b), NEW c \in Peer, Command(c) \/ Main(c)
  PROVE  /\ list' = list
         /\ pc'[a] \in Sending \ {"find"} => ListedOrGone(b) /\ wanted'[a] = NameOf[b]
         /\ Server \in up => Server \in up'
<1> USE DEF At, Goto, Sending, sendVars, threadVars
<1>1. /\ pc \in [Peer -> MainPc] /\ list \in [Peer -> Seq(Peer \cup {None})]
      /\ wanted \in [Peer -> Name \cup {None}] /\ Server \notin Peer
  BY AddressesDistinct DEF TypeInv, TypeOK, ClientTypeOK
<1>2. /\ pc[a] \in Sending \ {"find"} => ListedOrGone(b) /\ wanted[a] = NameOf[b]
      /\ pc[c] \in Sending => c = a
      /\ pc[a] \in Sending => wanted[a] # NameOf[a]
  BY DEF NodesInv, RolesInv
<1>3. CASE FindUser(c)
  <2>1. c = a
    BY <1>2, <1>3 DEF FindUser
  <2>2. list' = list /\ up' = up /\ wanted' = wanted
    BY <1>3 DEF FindUser, netVars
  <2>3. PICK k \in Matching(a) : TRUE
    BY <1>3, <2>1 DEF FindUser
  <2>4. ListedOrGone(b) /\ wanted[a] = NameOf[b]
    <3>1. k \in DOMAIN list[a] /\ list[a][k] # None /\ NameOf[list[a][k]] = wanted[a]
      BY DEF Matching
    <3>2. list[a][k] \in Peer
      BY <1>1, <3>1, LenProperties, ElementOfSeq
    <3>3. list[a][k] # a
      BY <1>2, <1>3, <2>1, <3>1 DEF FindUser
    <3>4. list[a][k] = b
      BY <3>2, <3>3 DEF OneCaller
    <3>5. list[a][k] \in Range(list[a])
      BY <3>1 DEF Range
    <3> QED  BY <3>1, <3>4, <3>5 DEF NodesInv
  <2> QED  BY <2>2, <2>4
<1>4. CASE \E name \in Name \ {NameOf[c]} : SendCommand(c, name)
  BY <1>1, <1>2, <1>4 DEF SendCommand, netVars
<1>5. CASE SendLogin(c) \/ GetUsers(c)
  BY <1>1, <1>2, <1>5 DEF SendLogin, GetUsers, Transmit
<1>6. CASE Exit(c)
  BY <1>1, <1>2, <1>6 DEF Exit, Terminate
<1>7. CASE NotFound(c) \/ GiveUp(c) \/ SeeACK(c) \/ MissACK(c) \/ Retry(c)
  BY <1>1, <1>2, <1>7 DEF NotFound, GiveUp, SeeACK, MissACK, Retry, netVars
<1>8. CASE SendHeader(c) \/ SendText(c) \/ AskServer(c)
  BY <1>1, <1>2, <1>8 DEF SendHeader, SendText, AskServer, Transmit
<1> QED  BY <1>3, <1>4, <1>5, <1>6, <1>7, <1>8 DEF Command, Main

LEMMA NodesServer ==
  ASSUME NEW a \in Peer, NEW b \in Peer, TypeInv, NodesInv(a, b),
         NEW c \in Peer, ServerNext(c), Server \notin up'
  PROVE  pc[b] = "exited"
<1> PICK i \in Receivable(c, Server) :
          \/ Login(c, i) \/ Logout(c, i) \/ P2PTrans(c, i)
          \/ GetAllUser(c, i) \/ ServerIgnores(c, i)
  BY DEF ServerNext
<1>1. CASE Server \notin up
  BY <1>1 DEF NodesInv
<1>2. CASE Server \in up
  <2>1. P2PTrans(c, i) /\ Matches(ClientList, net[c][Server][i].who) = {}
    BY <1>2 DEF Login, Logout, P2PTrans, GetAllUser, ServerIgnores
  <2>2. net[c][Server][i] \in Range(net[c][Server]) /\ net[c][Server][i].kind = "P2PTRANS"
    BY <2>1 DEF Receivable, Range, P2PTrans
  <2>3. net[c][Server][i].who = NameOf[b] /\ ListedOrGone(b)
    BY <2>2 DEF NodesInv, Addr
  <2>4. ~Listed(b)
    <3>1. \A k \in DOMAIN ClientList : NameOf[ClientList[k]] # NameOf[b]
      BY <2>1, <2>3 DEF Matches
    <3> QED  BY <3>1 DEF Listed, Range
  <2> QED  BY <2>3, <2>4 DEF ListedOrGone
<1> QED  BY <1>1, <1>2

LEMMA NodesNext ==
  ASSUME NEW a \in Peer, NEW b \in Peer, OneCaller(a, b), TypeInv, DirectoryInv,
         RolesInv(a), NodesInv(a, b), [Next]_vars
  PROVE  NodesInv(a, b)'
<1>0. /\ net \in Paths /\ Peer \subseteq Addr /\ Server \notin Peer /\ UniqueNames
      /\ getus \in [Peer -> Nat] /\ pc \in [Peer -> MainPc]
      /\ MaxGetu[b] = 0 /\ Addr = Peer \cup {Server}
      /\ list \in [Peer -> Seq(Peer \cup {None})] /\ net' \in Paths
  BY AddressesDistinct, TypesNext DEF TypeInv, TypeOK, NetTypeOK, ClientTypeOK, Addr, OneCaller
<1>1. \A x \in Peer : pc[x] = "exited" => pc'[x] = "exited"
  BY EndsStay
<1>2. \A x \in Peer : ListedOrGone(x) => ListedOrGone(x)'
  BY <1>0, <1>1, StaysListed
<1>3. NewDatagrams
  BY NextSends
<1>4. ASSUME NEW s \in Addr, NEW d \in Addr, NEW m \in Range(net'[s][d])
      PROVE  /\ m.kind = "NODE" => ListedOrGone(m.who)'
             /\ m.kind = "P2PTRANS" => m.who = NameOf[b] /\ ListedOrGone(b)'
             /\ m.kind = "GETALLUSER" => b \notin {s, d}
  <2>1. CASE m \in Range(net[s][d])
    <3>1. m.kind = "NODE" => m.who \in Peer
      <4>1. net[s][d] \in Seq(Datagram)
        <5>1. net \in Paths
          BY <1>0
        <5> QED  BY <5>1 DEF Paths
      <4>2. m \in Datagram
        BY <2>1, <4>1, LenProperties, ElementOfSeq DEF Range
      <4> QED  BY <4>2 DEF Datagram
    <3> QED  BY <1>2, <2>1, <3>1 DEF NodesInv
  <2>2. CASE Fresh(s, d, m)
    <3>1. m.kind = "NODE" => ListedOrGone(m.who)'
      BY <2>2 DEF Fresh, ListedOrGone, Listed
    <3>2. m.kind = "P2PTRANS" => m.who = NameOf[b] /\ ListedOrGone(b)'
      BY <1>2, <2>2 DEF Fresh, RolesInv, NodesInv, Sending
    <3>3. m.kind = "GETALLUSER" => b \notin {s, d}
      BY <1>0, <2>2 DEF Fresh, NodesInv
    <3> QED  BY <3>1, <3>2, <3>3
  <2> QED  BY <1>3, <2>1, <2>2 DEF NewDatagrams
<1>5. /\ \A p \in Range(list'[a]) : p # None => ListedOrGone(p)
      /\ pc'[a] \in Sending \ {"find"} => ListedOrGone(b) /\ wanted'[a] = NameOf[b]
      /\ Server \in up' \/ pc[b] = "exited"
  <2>0. /\ \A p \in Range(list[a]) : p # None => ListedOrGone(p)
        /\ pc[a] \in Sending \ {"find"} => ListedOrGone(b) /\ wanted[a] = NameOf[b]
        /\ Server \in up \/ pc[b] = "exited"
    BY DEF NodesInv
  <2>1. CASE ServerStep
    <3>1. Server \in up' \/ pc[b] = "exited"
      BY <2>1, NodesServer DEF ServerStep
    <3> QED  BY <2>0, <2>1, <3>1 DEF ServerStep, clientVars, threadVars, sendVars
  <2>2. CASE NetStep
    BY <2>0, <2>2 DEF NetStep, Drop, clientVars, threadVars, sendVars
  <2>3. ASSUME NEW c \in Peer, Command(c) \/ Main(c)
        PROVE  /\ list' = list
               /\ pc'[a] \in Sending \ {"find"} => ListedOrGone(b) /\ wanted'[a] = NameOf[b]
               /\ Server \in up => Server \in up'
    BY <2>3, NodesMain
  <2>4. ASSUME NEW c \in Peer, NEW s, NEW r \in Datagram \cup {Failed}, NEW n, Recv(c, s, r, n),
               r.kind = "NODE" => ListedOrGone(r.who)
        PROVE  /\ \A p \in Range(list'[a]) : p # None => ListedOrGone(p)
               /\ pc'[a] \in Sending => pc'[a] = pc[a]
               /\ wanted' = wanted /\ (Server \in up => Server \in up')
    BY <2>4, NodesRead
  <2>5. ASSUME NEW c \in Peer, RecvDatagram(c)
        PROVE  \E s : \E r \in Datagram \cup {Failed} : \E n :
                 Recv(c, s, r, n) /\ (r.kind = "NODE" => ListedOrGone(r.who))
    <3>1. PICK s \in Addr : \E i \in Receivable(s, c) :
               Recv(c, s, net[s][c][i], Taken(s, c, i))
      BY <2>5 DEF RecvDatagram
    <3>2. PICK i \in Receivable(s, c) : Recv(c, s, net[s][c][i], Taken(s, c, i))
      BY <3>1
    <3>3. i \in DOMAIN net[s][c] /\ c \in Addr
      BY <1>0 DEF Receivable
    <3>4. net[s][c][i] \in Datagram /\ net[s][c][i] \in Range(net[s][c])
      BY <1>0, <3>3, TakenPaths, TakenShrinks
    <3>5. net[s][c][i].kind = "NODE" => ListedOrGone(net[s][c][i].who)
      BY <3>3, <3>4 DEF NodesInv
    <3> QED  BY <3>2, <3>4, <3>5
  <2>6. ASSUME NEW c \in Peer, RecvFails(c)
        PROVE  Recv(c, None, Failed, net) /\ Failed.kind # "NODE"
    BY <2>6 DEF RecvFails, Failed, Dgram
  <2>7. ASSUME NEW c \in Peer, ClientStep(c)  PROVE
          /\ \A p \in Range(list'[a]) : p # None => ListedOrGone(p)
          /\ pc'[a] \in Sending \ {"find"} => ListedOrGone(b) /\ wanted'[a] = NameOf[b]
          /\ Server \in up' \/ pc[b] = "exited"
    <3>1. CASE Command(c) \/ Main(c)
      BY <2>0, <2>3, <3>1
    <3>2. ASSUME NEW s, NEW r \in Datagram \cup {Failed}, NEW n, Recv(c, s, r, n),
                 r.kind = "NODE" => ListedOrGone(r.who)
          PROVE  /\ \A p \in Range(list'[a]) : p # None => ListedOrGone(p)
                 /\ pc'[a] \in Sending \ {"find"} => ListedOrGone(b) /\ wanted'[a] = NameOf[b]
                 /\ Server \in up' \/ pc[b] = "exited"
      BY <2>0, <2>4, <3>2
    <3> QED  BY <2>5, <2>6, <2>7, <3>1, <3>2 DEF ClientStep
  <2>8. CASE UNCHANGED vars
    BY <2>0, <2>8 DEF vars, netVars, clientVars, threadVars, sendVars
  <2> QED  BY <2>1, <2>2, <2>7, <2>8 DEF Next
<1>6. \A p \in Range(list'[a]) : p # None => ListedOrGone(p)'
  <2>1. list'[a] \in Seq(Peer \cup {None})
    BY TypesNext DEF TypeInv, TypeOK, ClientTypeOK
  <2>2. \A p \in Range(list'[a]) : p \in Peer \cup {None}
    BY <2>1, LenProperties, ElementOfSeq DEF Range
  <2> QED  BY <1>2, <1>5, <2>2
<1>7. pc'[a] \in Sending \ {"find"} => ListedOrGone(b)' /\ wanted'[a] = NameOf[b]
  BY <1>2, <1>5
<1>8. Server \notin up' => pc'[b] = "exited"
  BY <1>1, <1>5
<1> QED  BY <1>4, <1>6, <1>7, <1>8 DEF NodesInv

(* The paths a step of c's main thread leaves alone.                       *)
LEMMA MainPaths ==
  ASSUME TypeInv, NEW c \in Peer, Command(c) \/ Main(c)
  PROVE  \A x \in Addr \ {c}, y \in Addr :
           \/ net'[x][y] = net[x][y]
           \/ y = c /\ pc'[c] = "exited" /\ net'[x][y] = <<>>
<1> USE DEF At, Goto
<1>1. /\ c \in Addr /\ Server \in Addr /\ up \in SUBSET Addr /\ net \in Paths
      /\ wanted[c] \in Name \cup {None} /\ sends[c] \in Nat /\ NameOf[c] \in Name
      /\ pc \in [Peer -> MainPc]
  BY EveryPeerNamed DEF TypeInv, TypeOK, NetTypeOK, ClientTypeOK, Addr
<1>2. ASSUME NEW d, NEW ms \in Seq(Datagram), net' = Sent(net, c, d, ms)
      PROVE  \A x \in Addr \ {c}, y \in Addr : net'[x][y] = net[x][y]
  BY <1>1, <1>2, SentPaths
<1>3. ASSUME NEW kind \in {"LOGIN", "LOGOUT", "GETALLUSER", "P2PTRANS"},
             NEW who \in Name \cup {None}
      PROVE  <<Dgram(kind, who, 0)>> \in Seq(Datagram)
  BY DgramType, OneDatagram DEF Request
<1>4. CASE SendLogin(c)
  BY <1>1, <1>2, <1>3, <1>4 DEF SendLogin, Transmit
<1>5. CASE Exit(c)
  <2>1. PICK ms \in Seq(Datagram) : ms = <<Dgram("LOGOUT", NameOf[c], 0)>>
    BY <1>1, <1>3
  <2>2. net' = Closed(Sent(net, c, Server, ms), c) /\ pc'[c] = "exited"
    BY <1>1, <1>5, <2>1 DEF Exit, Terminate
  <2>3. /\ Sent(net, c, Server, ms) \in Paths
        /\ \A x \in Addr \ {c}, y \in Addr : Sent(net, c, Server, ms)[x][y] = net[x][y]
    BY <1>1, SentPaths
  <2> QED  BY <2>2, <2>3, ClosedPaths
<1>6. CASE GetUsers(c)
  BY <1>1, <1>2, <1>3, <1>6 DEF GetUsers, Transmit
<1>7. CASE \/ \E name \in Name \ {NameOf[c]} : SendCommand(c, name)
           \/ FindUser(c) \/ NotFound(c) \/ GiveUp(c) \/ SeeACK(c) \/ MissACK(c)
           \/ Retry(c)
  BY <1>7 DEF SendCommand, FindUser, NotFound, GiveUp, SeeACK, MissACK, Retry, netVars
<1>8. CASE SendHeader(c) \/ SendText(c)
  <2>1. PICK m \in Datagram : <<m>> \in Seq(Datagram) /\ Transmit(c, target[c], <<m>>)
    BY <1>8, RoundSends
  <2>2. PICK ms \in Seq(Datagram) : ms = <<m>>
    BY <2>1, Zenon
  <2>3. net' = Sent(net, c, target[c], ms)
    BY <2>1, <2>2 DEF Transmit
  <2> QED  BY <1>2, <2>3
<1>9. CASE AskServer(c)
  BY <1>1, <1>2, <1>3, <1>9 DEF AskServer, Transmit
<1> QED  BY <1>4, <1>5, <1>6, <1>7, <1>8, <1>9 DEF Command, Main

LEMMA RecvPaths ==
  ASSUME TypeInv, NEW c \in Peer, NEW s, NEW r, NEW n \in Paths, Recv(c, s, r, n)
  PROVE  \A x \in Addr \ {c}, y \in Addr :
           \/ net'[x][y] = n[x][y]
           \/ y = c /\ pc'[c] = "exited" /\ net'[x][y] = <<>>
<1>1. c \in Addr /\ up \in SUBSET Addr /\ pc \in [Peer -> MainPc]
  BY DEF TypeInv, TypeOK, NetTypeOK, ClientTypeOK, Addr
<1>2. PICK trash \in Seq(Datagram), ack \in Seq(Datagram) :
         /\ trash = <<Dgram("P2PTRASH", None, 0)>>
         /\ ack = <<Dgram("P2PMESSAGEACK", None, 0)>>
  <2>1. Dgram("P2PTRASH", None, 0) \in Datagram /\ Dgram("P2PMESSAGEACK", None, 0) \in Datagram
    BY DgramType DEF PeerMsg
  <2>2. /\ <<Dgram("P2PTRASH", None, 0)>> \in Seq(Datagram)
        /\ <<Dgram("P2PMESSAGEACK", None, 0)>> \in Seq(Datagram)
    BY <2>1
  <2> QED  BY <2>2, Zenon
<1>3. \/ net' = n \/ (net' = Closed(n, c) /\ pc' = [pc EXCEPT ![c] = "exited"])
      \/ net' = Sent(n, c, r.who, trash) \/ net' = Sent(n, c, s, ack)
  BY <1>2 DEF Recv, RecvLoginCount, RecvLoginNode, RecvHeader, RecvText, RecvUserCount,
     RecvUserNode, Terminate
<1>4. CASE net' = Closed(n, c) /\ pc' = [pc EXCEPT ![c] = "exited"]
  <2>1. pc'[c] = "exited" /\ \A x, y \in Addr : net'[x][y] = IF y = c THEN <<>> ELSE n[x][y]
    BY <1>1, <1>4, ClosedPaths
  <2> QED  BY <2>1
<1>5. ASSUME NEW d, NEW ms \in Seq(Datagram), net' = Sent(n, c, d, ms)
      PROVE  \A x \in Addr \ {c}, y \in Addr : net'[x][y] = n[x][y]
  BY <1>1, <1>5, SentPaths
<1> QED  BY <1>3, <1>4, <1>5

-----------------------------------------------------------------------------
(* The server's replies, on their path: a count is followed by as many     *)
(* nodes, the command by the count.                                        *)
Counted(q) ==
  \A i \in 1 .. Len(q) :
    /\ q[i].kind = "COUNT" => q[i].num <= Len(q) - i /\ q[i].num <= 2
    /\ q[i].kind = "GETALLUSER" => i < Len(q) /\ q[i + 1].kind = "COUNT"

LEMMA CountedRemove ==
  ASSUME NEW q \in Seq(Datagram), Counted(q), q # <<>>
  PROVE  /\ Counted(RemoveAt(q, 1)) /\ Len(RemoveAt(q, 1)) = Len(q) - 1
         /\ q[1].kind = "COUNT" => q[1].num <= Len(RemoveAt(q, 1)) /\ q[1].num <= 2
         /\ q[1].kind = "GETALLUSER" => /\ RemoveAt(q, 1) # <<>>
                                        /\ RemoveAt(q, 1)[1].kind = "COUNT"
<1>1. /\ 1 \in DOMAIN q /\ DOMAIN q = 1 .. Len(q) /\ Len(q) \in Nat /\ 1 <= Len(q)
  BY EmptySeq, LenProperties
<1> DEFINE t == RemoveAt(q, 1)
<1>2. /\ t \in Seq(Datagram) /\ Len(t) = Len(q) - 1
      /\ \A j \in 1 .. Len(q) - 1 : t[j] = q[j + 1]
  <2>1. \A j \in 1 .. Len(q) - 1 : t[j] = IF j < 1 THEN q[j] ELSE q[j + 1]
    BY <1>1, RemoveAtShifts
  <2>2. t \in Seq(Datagram) /\ Len(t) = Len(q) - 1
    BY <1>1, RemoveAtShifts
  <2> HIDE DEF t
  <2>3. \A j \in 1 .. Len(q) - 1 : ~ (j < 1)
    BY <1>1
  <2> QED  BY <2>1, <2>2, <2>3
<1> HIDE DEF t
<1>3. ASSUME NEW i \in 1 .. Len(t)
      PROVE  /\ t[i].kind = "COUNT" => t[i].num <= Len(t) - i /\ t[i].num <= 2
             /\ t[i].kind = "GETALLUSER" => i < Len(t) /\ t[i + 1].kind = "COUNT"
  <2>1. PICK k \in 1 .. Len(q) : k = i + 1
    BY <1>1, <1>2
  <2>2. /\ t[i] = q[k] /\ Len(t) - i = Len(q) - k
        /\ k < Len(q) => i < Len(t) /\ i + 1 \in 1 .. Len(q) - 1 /\ t[i + 1] = q[k + 1]
    BY <1>1, <1>2, <2>1
  <2>3. /\ q[k].kind = "COUNT" => q[k].num <= Len(q) - k /\ q[k].num <= 2
        /\ q[k].kind = "GETALLUSER" => k < Len(q) /\ q[k + 1].kind = "COUNT"
    BY DEF Counted
  <2> QED  BY <2>2, <2>3
<1>4. /\ q[1].kind = "COUNT" => q[1].num <= Len(q) - 1 /\ q[1].num <= 2
      /\ q[1].kind = "GETALLUSER" => 1 < Len(q) /\ q[1 + 1].kind = "COUNT"
  BY <1>1 DEF Counted
<1>5. 1 < Len(q) => t # <<>> /\ t[1] = q[1 + 1]
  <2>1. Len(<<>>) = 0
    OBVIOUS
  <2> QED  BY <1>1, <1>2, <2>1
<1> QED  BY <1>2, <1>3, <1>4, <1>5 DEF Counted, t

LEMMA CountedConcat ==
  ASSUME NEW q \in Seq(Datagram), NEW t \in Seq(Datagram), Counted(q), Counted(t)
  PROVE  Counted(q \o t)
<1> DEFINE u == q \o t
<1>1. /\ u \in Seq(Datagram) /\ Len(q) \in Nat /\ Len(t) \in Nat /\ Len(u) = Len(q) + Len(t)
      /\ \A i \in 1 .. Len(q) + Len(t) : u[i] = IF i <= Len(q) THEN q[i] ELSE t[i - Len(q)]
  BY ConcatProperties, LenProperties
<1> HIDE DEF u
<1> SUFFICES ASSUME NEW i \in 1 .. Len(u)
             PROVE  /\ u[i].kind = "COUNT" => u[i].num <= Len(u) - i /\ u[i].num <= 2
                    /\ u[i].kind = "GETALLUSER" => i < Len(u) /\ u[i + 1].kind = "COUNT"
  BY DEF Counted, u
<1>2. CASE i <= Len(q)
  <2>1. i \in 1 .. Len(q) /\ u[i] = q[i]
    BY <1>1, <1>2
  <2>2. /\ q[i].kind = "COUNT" => q[i].num <= Len(q) - i /\ q[i].num <= 2
        /\ q[i].kind = "GETALLUSER" => i < Len(q) /\ q[i + 1].kind = "COUNT"
    BY <2>1 DEF Counted
  <2>3. i < Len(q) => u[i + 1] = q[i + 1]
    BY <1>1, <2>1
  <2>4. q[i].kind = "COUNT" => q[i].num \in Nat
    <3>1. q[i] \in Datagram  BY <2>1, ElementOfSeq
    <3> QED  BY <3>1 DEF Datagram
  <2> QED  BY <1>1, <2>1, <2>2, <2>3, <2>4
<1>3. CASE i > Len(q)
  <2>1. PICK k \in 1 .. Len(t) : k = i - Len(q)
    BY <1>1, <1>3
  <2>2. u[i] = t[k] /\ Len(u) - i = Len(t) - k
    BY <1>1, <1>3, <2>1
  <2>3. /\ t[k].kind = "COUNT" => t[k].num <= Len(t) - k /\ t[k].num <= 2
        /\ t[k].kind = "GETALLUSER" => k < Len(t) /\ t[k + 1].kind = "COUNT"
    BY DEF Counted
  <2>4. k < Len(t) => i < Len(u) /\ u[i + 1] = t[k + 1]
    <3>1. (i + 1) - Len(q) = k + 1
      BY <1>1, <2>1
    <3> QED  BY <1>1, <1>3, <2>1, <3>1
  <2> QED  BY <2>2, <2>3, <2>4
<1> QED  BY <1>1, <1>2, <1>3

LEMMA CountedListing ==
  ASSUME NEW l \in Seq(Peer), Len(l) <= 2
  PROVE  /\ Counted(Listing(l)) /\ Listing(l) # <<>>
         /\ Counted(<<Dgram("GETALLUSER", None, 0)>> \o Listing(l))
<1> DEFINE nodes == [i \in DOMAIN l |-> Dgram("NODE", l[i], 0)]
           head == <<Dgram("COUNT", None, Len(l))>>
           get == <<Dgram("GETALLUSER", None, 0)>>
           t == Listing(l)
<1>1. DOMAIN l = 1..Len(l) /\ Len(l) \in Nat /\ \A i \in 1..Len(l) : l[i] \in Peer
  BY LenProperties, ElementOfSeq
<1>2. nodes \in Seq(Datagram) /\ Len(nodes) = Len(l)
  <2>1. \A i \in 1..Len(l) : Dgram("NODE", l[i], 0) \in Datagram
    BY <1>1, DgramType DEF Reply
  <2>2. nodes \in [1..Len(l) -> Datagram]
    BY <1>1, <2>1
  <2>3. nodes \in Seq(Datagram)
    BY <1>1, <2>2, SeqDef
  <2>4. DOMAIN nodes = 1 .. Len(l)
    BY <1>1
  <2> HIDE DEF nodes
  <2> QED  BY <1>1, <2>3, <2>4, LenProperties
<1>3. \A i \in 1 .. Len(l) : nodes[i].kind = "NODE"
  BY <1>1 DEF Dgram
<1>4. head \in Seq(Datagram) /\ Len(head) = 1 /\ head[1].kind = "COUNT" /\ head[1].num = Len(l)
  <2>1. Dgram("COUNT", None, Len(l)) \in Datagram
    BY <1>1, DgramType DEF Reply
  <2> QED  BY <2>1, OneDatagram DEF Dgram
<1>5. get \in Seq(Datagram) /\ Len(get) = 1 /\ get[1].kind = "GETALLUSER"
  <2>1. Dgram("GETALLUSER", None, 0) \in Datagram
    BY DgramType DEF Reply
  <2> QED  BY <2>1, OneDatagram DEF Dgram
<1>6. t = head \o nodes
  BY DEF Listing
<1> HIDE DEF nodes, head, get, t
<1>7. /\ t \in Seq(Datagram) /\ Len(t) = Len(l) + 1
      /\ \A i \in 1 .. Len(l) + 1 : t[i] = IF i <= 1 THEN head[i] ELSE nodes[i - 1]
  <2>1. /\ t \in Seq(Datagram) /\ Len(t) = Len(head) + Len(nodes)
        /\ \A i \in 1 .. Len(head) + Len(nodes) :
              t[i] = IF i <= Len(head) THEN head[i] ELSE nodes[i - Len(head)]
    BY <1>2, <1>4, <1>6, ConcatProperties
  <2>2. Len(head) + Len(nodes) = Len(l) + 1
    BY <1>1, <1>2, <1>4
  <2> QED  BY <1>4, <2>1, <2>2
<1>8. /\ t[1].kind = "COUNT" /\ t[1].num = Len(l)
      /\ \A i \in 2 .. Len(l) + 1 : t[i].kind = "NODE"
  <2>1. \A i \in 2 .. Len(l) + 1 : i - 1 \in 1 .. Len(l) /\ ~(i <= 1) /\ i \in 1 .. Len(l) + 1
    BY <1>1
  <2>2. 1 \in 1 .. Len(l) + 1 /\ 1 <= 1
    BY <1>1
  <2> QED  BY <1>3, <1>4, <1>7, <2>1, <2>2
<1>9. ASSUME NEW i \in 1 .. Len(t), t[i].kind \in {"COUNT", "GETALLUSER"}
      PROVE  i = 1 /\ t[i].kind = "COUNT"
  BY <1>1, <1>7, <1>8, <1>9
<1>10. Counted(t) /\ t # <<>>
  <2>1. Len(<<>>) = 0
    OBVIOUS
  <2>2. t # <<>>
    BY <1>1, <1>7, <2>1
  <2> QED  BY <1>1, <1>7, <1>8, <1>9, <2>2 DEF Counted
<1> DEFINE u == get \o t
<1>11. /\ u \in Seq(Datagram) /\ Len(u) = Len(t) + 1
       /\ \A i \in 1 .. Len(t) + 1 : u[i] = IF i <= 1 THEN get[i] ELSE t[i - 1]
  <2>1. /\ u \in Seq(Datagram) /\ Len(u) = Len(get) + Len(t)
        /\ \A i \in 1 .. Len(get) + Len(t) :
              u[i] = IF i <= Len(get) THEN get[i] ELSE t[i - Len(get)]
    <3>1. get \in Seq(Datagram) /\ t \in Seq(Datagram)
      BY <1>5, <1>7
    <3> QED  BY <3>1, ConcatProperties
  <2> HIDE DEF u
  <2>2. Len(get) + Len(t) = Len(t) + 1
    BY <1>1, <1>5, <1>7
  <2> QED  BY <1>5, <2>1, <2>2
<1> HIDE DEF u
<1>12. u[1].kind = "GETALLUSER" /\ u[2] = t[1] /\ u[1 + 1] = t[1]
  BY <1>1, <1>5, <1>7, <1>11
<1>13. ASSUME NEW i \in 1 .. Len(u)
       PROVE  /\ u[i].kind = "COUNT" => u[i].num <= Len(u) - i /\ u[i].num <= 2
              /\ u[i].kind = "GETALLUSER" => i < Len(u) /\ u[i + 1].kind = "COUNT"
  <2>1. CASE i = 1
    BY <1>1, <1>7, <1>8, <1>11, <1>12, <2>1
  <2>2. CASE i # 1
    <3>1. PICK k \in 1 .. Len(t) : k = i - 1
      BY <1>1, <1>7, <1>11, <2>2
    <3>2. u[i] = t[k] /\ Len(u) - i = Len(t) - k
      BY <1>1, <1>7, <1>11, <2>2, <3>1
    <3>3. t[k].kind # "GETALLUSER"
      BY <1>9
    <3>4. t[k].kind = "COUNT" => t[k].num <= Len(t) - k /\ t[k].num <= 2
      BY <1>10 DEF Counted
    <3> QED  BY <3>2, <3>3, <3>4
  <2> QED  BY <2>1, <2>2
<1> QED  BY <1>10, <1>13 DEF Counted, u, get, t

LEMMA CountedEmpty == Counted(<<>>)
BY DEF Counted

LEMMA RangeStays ==
  ASSUME NEW S, NEW q \in Seq(S), NEW i \in DOMAIN q, NEW m \in Range(q), m # q[i]
  PROVE  m \in Range(RemoveAt(q, i))
<1>1. DOMAIN q = 1 .. Len(q) /\ Len(q) \in Nat
  BY LenProperties
<1>2. PICK j \in 1 .. Len(q) : m = q[j]
  BY <1>1 DEF Range
<1> PICK t : t = RemoveAt(q, i)
  OBVIOUS
<1>3. /\ t \in Seq(S) /\ Len(t) = Len(q) - 1
      /\ \A k \in 1 .. Len(q) - 1 : t[k] = IF k < i THEN q[k] ELSE q[k + 1]
  BY RemoveAtShifts
<1>4. DOMAIN t = 1 .. Len(q) - 1
  BY <1>3, LenProperties
<1>5. CASE j < i
  <2>1. j \in 1 .. Len(q) - 1 /\ t[j] = q[j]
    BY <1>1, <1>3, <1>5
  <2> QED  BY <1>2, <1>4, <2>1 DEF Range
<1>6. CASE j > i
  <2>1. PICK k \in 1 .. Len(q) - 1 : k = j - 1
    BY <1>1, <1>6
  <2>2. t[k] = q[k + 1] /\ k + 1 = j
    BY <1>1, <1>3, <1>6, <2>1
  <2> QED  BY <1>2, <1>4, <2>2 DEF Range
<1> QED  BY <1>1, <1>2, <1>5, <1>6

LEMMA ShortList ==
  ASSUME NEW a, NEW b, Peer = {a, b}, NEW l \in Seq(Peer),
         \A i, j \in DOMAIN l : l[i] = l[j] => i = j
  PROVE  Len(l) <= 2
<1>1. DOMAIN l = 1 .. Len(l) /\ Len(l) \in Nat
  BY LenProperties
<1> SUFFICES ASSUME Len(l) >= 3  PROVE FALSE
  BY <1>1
<1>2. 1 \in 1 .. Len(l) /\ 2 \in 1 .. Len(l) /\ 3 \in 1 .. Len(l)
  BY <1>1
<1>3. l[1] \in {a, b} /\ l[2] \in {a, b} /\ l[3] \in {a, b}
  BY <1>2, ElementOfSeq
<1> QED  BY <1>1, <1>2, <1>3

(* What the server's turn does: it takes a request and answers somebody    *)
(* who is listed or has asked; or it ends.                                 *)
LEMMA ServerServes ==
  ASSUME NEW a \in Peer, NEW b \in Peer, OneCaller(a, b), TypeInv, DirectoryInv, DirectoryInv',
         NEW c \in Peer, ServerNext(c)
  PROVE  \/ up' = up \ {Server} /\ net' = Closed(net, Server)
         \/ /\ up' = up
            /\ \E i \in DOMAIN net[c][Server], d \in Peer \cup {None} :
                 \E ms \in Seq(Datagram) :
                   /\ net' = Sent(Taken(c, Server, i), Server, d, ms) /\ Counted(ms)
                   /\ \/ ms = <<>> \/ Listed(d)
                      \/ d = c /\ net[c][Server][i].kind \in {"LOGIN", "GETALLUSER"}
                   /\ net[c][Server][i].kind = "LOGIN" => d = c /\ ms # <<>>
<1> PICK i \in Receivable(c, Server) :
          \/ Login(c, i) \/ Logout(c, i) \/ P2PTrans(c, i)
          \/ GetAllUser(c, i) \/ ServerIgnores(c, i)
  BY DEF ServerNext
<1> DEFINE n == Taken(c, Server, i)
           r == net[c][Server][i]
<1>1. /\ i \in DOMAIN net[c][Server]
      /\ c \in Addr /\ Server \in Addr /\ None \notin Addr
      /\ up \in SUBSET Addr /\ net \in Paths /\ ClientList \in Seq(Peer)
  BY AddressesDistinct DEF Receivable, TypeInv, TypeOK, NetTypeOK, ServerTypeOK, Addr
<1> HIDE DEF n
<1>3. ASSUME NEW l \in Seq(Peer), l = ClientList \/ l = ClientList'
      PROVE  Len(l) <= 2
  <2>1. \A j, k \in DOMAIN l : l[j] = l[k] => j = k
    BY <1>3 DEF DirectoryInv, NoDuplicates
  <2> QED  BY <2>1, ShortList DEF OneCaller
<1>6. CASE Login(c, i)
  <2>1. ClientList' \in Seq(Peer) /\ r.kind = "LOGIN" /\ up' = up
    BY <1>1, <1>6, AppendProperties DEF Login
  <2>2. PICK l \in Seq(Peer) : l = ClientList'
    BY <2>1
  <2>3. Listing(l) \in Seq(Datagram) /\ Counted(Listing(l)) /\ Listing(l) # <<>>
    BY <1>3, <2>2, ListingType, CountedListing
  <2>4. net' = Sent(n, Server, c, Listing(l))
    BY <1>6, <2>2 DEF Login, n
  <2> QED  BY <1>1, <2>1, <2>3, <2>4 DEF n
<1>7. CASE Logout(c, i) \/ ServerIgnores(c, i)
  <2>1. net' = n /\ r.kind # "LOGIN" /\ up' = up
    BY <1>7 DEF Logout, ServerIgnores, n, Request
  <2>2. <<>> \in Seq(Datagram) /\ Sent(n, Server, None, <<>>) = n
    BY <1>1, EmptySeq DEF Sent
  <2> QED  BY <1>1, <2>1, <2>2, CountedEmpty DEF n
<1>8. CASE P2PTrans(c, i)
  <2> DEFINE found == Matches(ClientList, r.who)
             call == Dgram("P2PSOMEONEWANTTOCALLYOU", c, 0)
  <2>1. r.kind = "P2PTRANS"
    BY <1>8 DEF P2PTrans
  <2>2. CASE found # {}
    <3>1. PICK d \in Peer : Listed(d) /\ up' = up /\ net' = Sent(n, Server, d, <<call>>)
      <4>1. PICK k \in DOMAIN ClientList :
              up' = up /\ net' = Sent(n, Server, ClientList[k], <<call>>)
        BY <1>8, <2>2 DEF P2PTrans, n
      <4>2. ClientList[k] \in Peer /\ Listed(ClientList[k])
        BY <1>1, LenProperties, ElementOfSeq DEF Listed, Range
      <4> QED  BY <4>1, <4>2
    <3>2. call \in Datagram /\ call.kind = "P2PSOMEONEWANTTOCALLYOU"
      <4>1. /\ "P2PSOMEONEWANTTOCALLYOU" \in Request \cup Reply \cup PeerMsg
            /\ c \in Peer \cup Name \cup {None} /\ 0 \in Nat
        BY DEF Reply
      <4> QED  BY <4>1, DgramType
    <3> HIDE DEF call
    <3>3. PICK ms \in Seq(Datagram) : ms = <<call>> /\ Len(ms) = 1 /\ ms[1] = call
      BY <3>2, OneDatagram
    <3>4. Counted(ms)
      BY <3>2, <3>3 DEF Counted
    <3>5. net' = Sent(n, Server, d, ms)
      BY <3>1, <3>3
    <3> QED  BY <1>1, <2>1, <3>1, <3>4, <3>5 DEF n
  <2>3. CASE found = {}
    BY <1>8, <2>3 DEF P2PTrans
  <2> QED  BY <2>2, <2>3
<1>9. CASE GetAllUser(c, i)
  <2> DEFINE get == <<Dgram("GETALLUSER", None, 0)>>
  <2>1. r.kind = "GETALLUSER" /\ up' = up /\ net' = Sent(n, Server, c, get \o Listing(ClientList))
    BY <1>9 DEF GetAllUser, n
  <2>2. get \in Seq(Datagram)
    <3>1. Dgram("GETALLUSER", None, 0) \in Datagram
      BY DgramType DEF Reply
    <3> QED  BY <3>1, OneDatagram
  <2>3. Listing(ClientList) \in Seq(Datagram) /\ Counted(get \o Listing(ClientList))
    BY <1>1, <1>3, ListingType, CountedListing
  <2> HIDE DEF get
  <2>4. get \o Listing(ClientList) \in Seq(Datagram)
    BY <2>2, <2>3, ConcatProperties
  <2> QED  BY <1>1, <2>1, <2>3, <2>4 DEF n
<1> QED  BY <1>6, <1>7, <1>8, <1>9

(* What the server still owes c: the nodes c waits for and the count it    *)
(* waits for are on their way.                                             *)
ReplyInv(c) ==
  /\ Counted(net[Server][c])
  /\ pc[c] = "nodes" \/ rpc[c] = "unodes" =>
       0 < left[c] /\ left[c] <= Len(net[Server][c])
  /\ rpc[c] = "ucount" => net[Server][c] # <<>> /\ net[Server][c][1].kind = "COUNT"

(* Nothing is on its way to who has not called; who waits for the login's  *)
(* count has one coming or a LOGIN going.                                  *)
LoginInv(c) ==
  /\ pc[c] = "start" => net[Server][c] = <<>>
  /\ pc[c] \in {"start", "count"} =>
       \A m \in Range(net[c][Server]) \cup Range(net[Server][c]) : m.kind # "GETALLUSER"
  /\ pc[c] = "count" /\ Server \in up =>
       net[Server][c] # <<>> \/ \E m \in Range(net[c][Server]) : m.kind = "LOGIN"

LEMMA ReplyAside ==
  ASSUME NEW c \in Peer, ReplyInv(c), LoginInv(c),
         net'[Server][c] = net[Server][c], net'[c][Server] = net[c][Server],
         pc'[c] = pc[c], rpc'[c] = rpc[c], left'[c] = left[c],
         Server \in up' => Server \in up
  PROVE  ReplyInv(c)' /\ LoginInv(c)'
<1>1. ReplyInv(c)'
  BY DEF ReplyInv, Counted
<1>2. LoginInv(c)'
  BY DEF LoginInv
<1> QED  BY <1>1, <1>2

(* The server's turn.                                                      *)
LEMMA ReplyServer ==
  ASSUME NEW a \in Peer, NEW b \in Peer, OneCaller(a, b), TypeInv, DirectoryInv, DirectoryInv',
         ProcessInv, NEW c \in Peer, ReplyInv(c), LoginInv(c),
         NEW x \in Peer, ServerNext(x), UNCHANGED clientVars
  PROVE  ReplyInv(c)' /\ LoginInv(c)'
<1>1. /\ c \in Addr /\ x \in Addr /\ Server \in Addr /\ Server # c /\ Server # x
      /\ up \in SUBSET Addr /\ net \in Paths
      /\ pc' = pc /\ rpc' = rpc /\ left' = left
  BY AddressesDistinct DEF TypeInv, TypeOK, NetTypeOK, Addr, clientVars, threadVars
<1>2. net[Server][c] \in Seq(Datagram) /\ net[c][Server] \in Seq(Datagram)
  BY <1>1 DEF Paths
<1>3. pc[c] \in {"start", "count"} =>
        \A m \in Range(net'[c][Server]) \cup Range(net'[Server][c]) : m.kind # "GETALLUSER"
  <2>1. NewDatagrams
    BY ServerSends
  <2> SUFFICES ASSUME pc[c] \in {"start", "count"},
                      NEW m \in Range(net'[c][Server]) \cup Range(net'[Server][c]),
                      m.kind = "GETALLUSER"
               PROVE  FALSE
    OBVIOUS
  <2>2. m \notin Range(net[c][Server]) /\ m \notin Range(net[Server][c])
    BY DEF LoginInv
  <2>3. Fresh(c, Server, m) \/ Fresh(Server, c, m)
    BY <1>1, <2>1, <2>2 DEF NewDatagrams
  <2> QED  BY <1>1, <2>3 DEF Fresh, LoginInv
<1>4. CASE up' = up \ {Server} /\ net' = Closed(net, Server)
  <2>1. net'[Server][c] = net[Server][c]
    BY <1>1, <1>4, ClosedPaths
  <2>2. ReplyInv(c)'
    BY <1>1, <2>1 DEF ReplyInv, Counted
  <2> QED  BY <1>1, <1>3, <1>4, <2>1, <2>2 DEF LoginInv
<1>5. ASSUME up' = up, NEW i \in DOMAIN net[x][Server], NEW d \in Peer \cup {None},
             NEW ms \in Seq(Datagram),
             net' = Sent(Taken(x, Server, i), Server, d, ms), Counted(ms),
             \/ ms = <<>> \/ Listed(d)
             \/ d = x /\ net[x][Server][i].kind \in {"LOGIN", "GETALLUSER"},
             net[x][Server][i].kind = "LOGIN" => d = x /\ ms # <<>>
      PROVE  ReplyInv(c)' /\ LoginInv(c)'
  <2> DEFINE n == Taken(x, Server, i)
  <2>1. /\ n \in Paths /\ n[Server][c] = net[Server][c]
        /\ n[c][Server] = IF c = x THEN RemoveAt(net[c][Server], i) ELSE net[c][Server]
        /\ net[x][Server][i] \in Range(net[x][Server])
    BY <1>1, TakenPaths, TakenShrinks
  <2>2. net' = Sent(n, Server, d, ms)
    BY <1>5
  <2> HIDE DEF n
  <2>3. /\ net'[Server][c] = IF c = d /\ d \in up THEN net[Server][c] \o ms ELSE net[Server][c]
        /\ net'[c][Server] = n[c][Server]
    <3>1. \A y, z \in Addr : Sent(n, Server, d, ms)[y][z] =
             IF y = Server /\ z = d /\ d \in up THEN n[y][z] \o ms ELSE n[y][z]
      BY <1>1, <2>1, SentPaths
    <3> QED  BY <1>1, <2>1, <2>2, <3>1
  <2>4. PICK t \in Seq(Datagram) :
           /\ Counted(t) /\ net'[Server][c] = net[Server][c] \o t
           /\ t = <<>> \/ (t = ms /\ c = d)
           /\ (c = d /\ d \in up) => t = ms
    <3>1. net[Server][c] \o <<>> = net[Server][c] /\ <<>> \in Seq(Datagram)
      BY <1>2, EmptySeq, ConcatEmptySeq
    <3> QED  BY <1>5, <2>3, <3>1, CountedEmpty
  <2>5. /\ net'[Server][c] \in Seq(Datagram)
        /\ Len(net[Server][c]) \in Nat /\ Len(net'[Server][c]) \in Nat
        /\ Len(net[Server][c]) <= Len(net'[Server][c])
        /\ net[Server][c] # <<>> => /\ net'[Server][c] # <<>>
                                    /\ net'[Server][c][1] = net[Server][c][1]
    BY <1>2, <2>4, ConcatProperties, LenProperties, EmptySeq
  <2>6. ReplyInv(c)'
    <3>1. Counted(net'[Server][c])
      BY <1>2, <2>4, CountedConcat DEF ReplyInv
    <3>2. left[c] \in Nat
      BY DEF TypeInv, TypeOK, ClientTypeOK
    <3>3. Counted(net[Server][c])'
      BY <3>1 DEF Counted
    <3> QED  BY <1>1, <2>5, <3>2, <3>3 DEF ReplyInv
  <2>7. ASSUME pc[c] = "start"  PROVE net'[Server][c] = <<>>
    <3>1. ~Listed(c) /\ \A m \in Range(net[c][Server]) : m.kind \notin {"LOGIN", "GETALLUSER"}
      BY <2>7 DEF DirectoryInv, RequestsInv, ListedOrGone
    <3>2. c = d => ms = <<>>
      BY <1>5, <2>1, <3>1
    <3>3. t = <<>>
      BY <2>4, <3>2
    <3> QED  BY <1>2, <2>4, <2>7, <3>3, ConcatEmptySeq DEF LoginInv
  <2>8. ASSUME pc[c] = "count", Server \in up
        PROVE  net'[Server][c] # <<>> \/ \E m \in Range(net'[c][Server]) : m.kind = "LOGIN"
    <3>1. CASE net[Server][c] # <<>>
      BY <2>5, <3>1
    <3>2. ASSUME NEW m \in Range(net[c][Server]), m.kind = "LOGIN"
          PROVE  net'[Server][c] # <<>> \/ m \in Range(net'[c][Server])
      <4>1. CASE c # x
        BY <2>1, <2>3, <4>1
      <4>2. CASE c = x /\ m # net[c][Server][i]
        BY <1>2, <2>1, <2>3, <4>2, RangeStays
      <4>3. CASE c = x /\ m = net[c][Server][i]
        <5>1. d = c /\ ms # <<>>
          BY <1>5, <3>2, <4>3
        <5>2. c \in up
          BY <2>8 DEF ProcessInv
        <5>3. net'[Server][c] = net[Server][c] \o ms
          BY <2>3, <5>1, <5>2
        <5> QED  BY <1>2, <5>1, <5>3, ConcatProperties, LenProperties, EmptySeq
      <4> QED  BY <4>1, <4>2, <4>3
    <3> QED  BY <2>8, <3>1, <3>2 DEF LoginInv
  <2> QED  BY <1>1, <1>3, <1>5, <2>6, <2>7, <2>8 DEF LoginInv
<1> QED  BY <1>4, <1>5, ServerServes

(* The main threads.                                                       *)
LEMMA ReplyMain ==
  ASSUME TypeInv, NEW c \in Peer, ReplyInv(c), LoginInv(c),
         NEW x \in Peer, Command(x) \/ Main(x)
  PROVE  ReplyInv(c)' /\ LoginInv(c)'
<1> USE DEF At, Goto
<1>1. /\ c \in Addr /\ x \in Addr /\ Server \in Addr /\ Server # c /\ Server # x
      /\ up \in SUBSET Addr /\ net \in Paths
      /\ pc \in [Peer -> MainPc] /\ rpc \in [Peer -> RecvPc] /\ NameOf[c] \in Name
  BY AddressesDistinct, EveryPeerNamed DEF TypeInv, TypeOK, NetTypeOK, ClientTypeOK, Addr
<1>2. /\ left' = left /\ (Server \in up' => Server \in up)
      /\ \A y \in Peer \ {x} : pc'[y] = pc[y] /\ rpc'[y] = rpc[y]
      /\ \/ pc'[x] = "exited" /\ rpc'[x] = "none"
         \/ SendLogin(x) /\ pc'[x] = "count" /\ rpc'[x] = rpc[x]
         \/ rpc'[x] = rpc[x] /\ pc'[x] \notin {"start", "count", "nodes", "exited"}
  BY <1>1 DEF Command, Main, SendLogin, Exit, GetUsers, SendCommand, FindUser, NotFound,
     SendHeader, SendText, GiveUp, SeeACK, MissACK, AskServer, Retry, Terminate, Transmit,
     threadVars, netVars
<1>3. CASE x # c
  <2>1. net'[Server][c] = net[Server][c] /\ net'[c][Server] = net[c][Server]
    BY <1>1, <1>3, MainPaths
  <2> QED  BY <1>2, <1>3, <2>1, ReplyAside
<1>4. CASE x = c
  <2>1. \/ net'[Server][c] = net[Server][c]
        \/ pc'[c] = "exited" /\ net'[Server][c] = <<>>
    BY <1>1, <1>4, MainPaths
  <2>2. Counted(net'[Server][c])
    BY <2>1, CountedEmpty DEF ReplyInv
  <2>3. Counted(net[Server][c])'
    BY <2>2 DEF Counted
  <2>4. ReplyInv(c)'
    BY <1>2, <1>4, <2>1, <2>3 DEF ReplyInv
  <2>5. CASE pc'[c] \notin {"start", "count"}
    BY <2>4, <2>5 DEF LoginInv
  <2>6. CASE SendLogin(c) /\ pc'[c] = "count"
    <3> DEFINE login == Dgram("LOGIN", NameOf[c], 0)
    <3>1. login \in Datagram /\ login.kind = "LOGIN"
      BY <1>1, DgramType DEF Request
    <3>2. net' = Sent(net, c, Server, <<login>>) /\ up' = up /\ pc[c] = "start"
      BY <2>6 DEF SendLogin, Transmit
    <3> HIDE DEF login
    <3>3. PICK ms \in Seq(Datagram) : ms = <<login>> /\ Range(ms) = {login}
      BY <3>1, OneDatagram
    <3>4. \A y, z \in Addr : Sent(net, c, Server, ms)[y][z] =
             IF y = c /\ z = Server /\ Server \in up THEN net[y][z] \o ms ELSE net[y][z]
      BY <1>1, SentPaths
    <3>5. /\ net'[c][Server] = IF Server \in up THEN net[c][Server] \o ms ELSE net[c][Server]
          /\ net'[Server][c] = net[Server][c]
      BY <1>1, <3>2, <3>3, <3>4
    <3>6. Range(net[c][Server] \o ms) = Range(net[c][Server]) \cup {login}
      <4>1. PICK p \in Seq(Datagram) : p = net[c][Server]
        BY <1>1 DEF Paths
      <4>2. Range(p \o ms) = Range(p) \cup Range(ms)
        BY <4>1, <3>3, RangeConcatenation, Zenon
      <4> QED  BY <3>3, <4>1, <4>2
    <3>7. \A m \in Range(net'[c][Server]) \cup Range(net'[Server][c]) : m.kind # "GETALLUSER"
      BY <3>1, <3>2, <3>5, <3>6 DEF LoginInv
    <3>8. Server \in up => \E m \in Range(net'[c][Server]) : m.kind = "LOGIN"
      BY <3>1, <3>5, <3>6
    <3> QED  BY <2>4, <2>6, <3>2, <3>7, <3>8 DEF LoginInv
  <2> QED  BY <1>2, <1>4, <2>5, <2>6
<1> QED  BY <1>3, <1>4

(* Nothing between a client and the server is dropped.                     *)
LEMMA ReplyDrop ==
  ASSUME Benign, TypeInv, ProcessInv, NEW c \in Peer, ReplyInv(c), LoginInv(c),
         NEW s \in Addr, NEW d \in Addr, NEW i \in DOMAIN net[s][d], Drop(s, d, i),
         UNCHANGED clientVars
  PROVE  ReplyInv(c)' /\ LoginInv(c)'
<1>1. /\ net \in Paths /\ net' = Taken(s, d, i) /\ ~Passes(s, d) /\ up' = up
      /\ c \in Addr /\ Server \in Addr
      /\ pc' = pc /\ rpc' = rpc /\ left' = left
  BY DEF TypeInv, TypeOK, NetTypeOK, Drop, Benign, Addr, clientVars, threadVars
<1>2. \A x, y \in Addr : net'[x][y] = IF x = s /\ y = d THEN RemoveAt(net[x][y], i) ELSE net[x][y]
  BY <1>1, TakenPaths
<1>3. d # Server /\ ~ (s = Server /\ d = c)
  <2>1. d # Server
    BY <1>1 DEF Passes
  <2>2. ASSUME s = Server, d = c  PROVE FALSE
    <3>1. Server \notin hole[c]
      BY <1>1, <2>2 DEF Passes
    <3>2. net[s][d] = <<>>
      BY <2>2, <3>1 DEF ProcessInv, LoginInv
    <3> QED  BY <3>2
  <2> QED  BY <2>1, <2>2
<1>4. net'[Server][c] = net[Server][c] /\ net'[c][Server] = net[c][Server]
  BY <1>1, <1>2, <1>3
<1> QED  BY <1>1, <1>4, ReplyAside

(* What c reads: of the server's reply, or of somebody else and no int.    *)
LEMMA ReplyOwn ==
  ASSUME NEW a \in Peer, TypeInv, RolesInv(a), NEW c \in Peer, ReplyInv(c), LoginInv(c),
         NEW s, NEW r, NEW n \in Paths, Recv(c, s, r, n),
         \/ n[Server][c] = net[Server][c] /\ ~IsInt(r)
         \/ /\ net[Server][c] # <<>> /\ r = net[Server][c][1]
            /\ n[Server][c] = RemoveAt(net[Server][c], 1)
  PROVE  ReplyInv(c)' /\ LoginInv(c)'
<1> USE DEF At, Goto, LoggedIn
<1>1. /\ pc \in [Peer -> MainPc] /\ rpc \in [Peer -> RecvPc] /\ left \in [Peer -> Nat]
      /\ c \in Addr /\ Server \in Addr /\ Server # c
      /\ rpc[c] # "none" => pc[c] \notin {"start", "count", "nodes", "exited"}
  BY AddressesDistinct DEF TypeInv, TypeOK, ClientTypeOK, Addr, RolesInv
<1> PICK q \in Seq(Datagram), t \in Seq(Datagram) : q = net[Server][c] /\ t = n[Server][c]
  BY <1>1 DEF TypeInv, TypeOK, NetTypeOK, Paths
<1>2. Counted(q)
  BY DEF ReplyInv
<1>3. /\ Counted(t) /\ Len(t) \in Nat /\ Len(q) \in Nat /\ Len(q) <= Len(t) + 1
      /\ IsInt(r) => q # <<>> /\ r = q[1] /\ t = RemoveAt(q, 1)
  <2>1. Len(t) \in Nat /\ Len(q) \in Nat
    BY LenProperties
  <2>2. CASE t = q /\ ~IsInt(r)
    BY <1>2, <2>1, <2>2
  <2>3. CASE q # <<>> /\ r = q[1] /\ t = RemoveAt(q, 1)
    BY <1>2, <2>1, <2>3, CountedRemove
  <2> QED  BY <2>2, <2>3
<1>4. IsInt(r) => /\ r.kind = "COUNT" => r.num <= Len(t) /\ r.num <= 2 /\ r.num \in Nat
                  /\ r.kind = "GETALLUSER" => t # <<>> /\ t[1].kind = "COUNT"
  <2>1. q # <<>> => q[1] \in Datagram
    BY EmptySeq, LenProperties, ElementOfSeq
  <2> QED  BY <1>2, <1>3, <2>1, CountedRemove DEF Datagram
<1>5. \/ net'[Server][c] = t
      \/ pc'[c] = "exited" /\ net'[Server][c] = <<>>
  <2>1. Server \in Addr \ {c}
    BY <1>1
  <2> QED  BY <1>1, <2>1, RecvPaths
<1>6. Counted(net'[Server][c])
  BY <1>3, <1>5, CountedEmpty
<1>7. Counted(net[Server][c])'
  BY <1>6 DEF Counted
<1>8. ASSUME \/ pc'[c] = "exited" /\ rpc'[c] = "none"
             \/ /\ pc'[c] \notin {"start", "count"}
                /\ pc'[c] # "exited"
                /\ pc'[c] = "nodes" \/ rpc'[c] = "unodes" => 0 < left'[c] /\ left'[c] <= Len(t)
                /\ rpc'[c] = "ucount" => t # <<>> /\ t[1].kind = "COUNT"
      PROVE  ReplyInv(c)' /\ LoginInv(c)'
  BY <1>5, <1>7, <1>8 DEF ReplyInv, LoginInv
<1>9. CASE RecvLoginCount(c, r, n)
  <2>1. CASE ~IsInt(r)
    BY <1>1, <1>8, <1>9, <2>1 DEF RecvLoginCount, Terminate
  <2>2. CASE IsInt(r)
    <3>1. r.kind = "COUNT"
      <4>1. r \in Range(q)
        BY <1>3, <2>2, EmptySeq, LenProperties DEF Range
      <4> QED  BY <1>9, <2>2, <4>1 DEF RecvLoginCount, LoginInv, IsInt
    <3>2. IntOf(r) = r.num
      BY <3>1 DEF IntOf
    <3>3. pc[c] = "count" /\ rpc[c] = "none"
      BY <1>1, <1>9 DEF RecvLoginCount, RecvPc
    <3>4. left'[c] = r.num /\ (\/ r.num = 0 /\ pc'[c] = "cmd" /\ rpc'[c] = "head"
                               \/ r.num # 0 /\ pc'[c] = "nodes" /\ rpc'[c] = "none")
      BY <1>1, <1>9, <2>2, <3>2, <3>3 DEF RecvLoginCount
    <3> QED  BY <1>4, <1>8, <2>2, <3>1, <3>4
  <2> QED  BY <2>1, <2>2
<1>10. CASE RecvLoginNode(c, r, n)
  <2>1. pc[c] = "nodes" /\ rpc[c] = "none" /\ 0 < left[c] /\ left[c] <= Len(q)
    BY <1>1, <1>10 DEF RecvLoginNode, ReplyInv, RecvPc
  <2>2. /\ left'[c] = left[c] - 1
        /\ \/ left[c] = 1 /\ pc'[c] = "cmd" /\ rpc'[c] = "head"
           \/ left[c] # 1 /\ pc'[c] = "nodes" /\ rpc'[c] = "none"
    BY <1>1, <1>10, <2>1 DEF RecvLoginNode
  <2>3. left[c] # 1 => 0 < left'[c] /\ left'[c] <= Len(t)
    <3>1. left[c] \in Nat
      BY <1>1
    <3> QED  BY <1>3, <2>1, <2>2, <3>1
  <2> QED  BY <1>8, <2>2, <2>3
<1>11. CASE RecvHeader(c, r, n)
  <2>1. rpc[c] = "head" /\ pc' = pc /\ left' = left
    BY <1>11 DEF RecvHeader
  <2>2. rpc'[c] = "ucount" => TypeOf(r) = "GETALLUSER"
    BY <1>1, <1>11, <2>1 DEF RecvHeader
  <2>3. TypeOf(r) = "GETALLUSER" => IsInt(r) /\ r.kind = "GETALLUSER"
    BY <1>4 DEF TypeOf, IsInt, IntOf
  <2>4. rpc'[c] # "unodes"
    BY <1>1, <1>11, <2>1 DEF RecvHeader
  <2>5. pc'[c] \notin {"start", "count", "nodes", "exited"}
    BY <1>1, <2>1
  <2> QED  BY <1>4, <1>8, <2>2, <2>3, <2>4, <2>5
<1>12. CASE RecvText(c, s, r, n)
  <2>1. \/ pc'[c] = "exited" /\ rpc'[c] = "none"
        \/ rpc'[c] = "head" /\ pc'[c] = pc[c]
    BY <1>1, <1>12 DEF RecvText, Terminate
  <2>2. pc[c] \notin {"start", "count", "nodes", "exited"}
    BY <1>1, <1>12 DEF RecvText
  <2> QED  BY <1>8, <2>1, <2>2
<1>13. CASE RecvUserCount(c, r, n)
  <2>1. pc[c] \notin {"start", "count", "nodes", "exited"} /\ rpc[c] = "ucount"
    BY <1>1, <1>13 DEF RecvUserCount
  <2>2. CASE Terminate(c, n)
    BY <1>1, <1>8, <2>2 DEF Terminate
  <2>3. CASE ~Terminate(c, n)
    <3>1. /\ IsInt(r) /\ left'[c] = IntOf(r) /\ pc'[c] = pc[c]
          /\ rpc'[c] = IF IntOf(r) = 0 THEN "head" ELSE "unodes"
      BY <1>1, <1>13, <2>3 DEF RecvUserCount
    <3>2. r.kind = "COUNT"
      BY <1>3, <2>1, <3>1 DEF ReplyInv
    <3>3. IntOf(r) = r.num /\ r.num <= Len(t) /\ r.num \in Nat
      BY <1>4, <3>1, <3>2 DEF IntOf
    <3> QED  BY <1>8, <2>1, <3>1, <3>3
  <2> QED  BY <2>2, <2>3
<1>14. CASE RecvUserNode(c, r, n)
  <2>1. /\ pc[c] \notin {"start", "count", "nodes", "exited"} /\ rpc[c] = "unodes"
        /\ 0 < left[c] /\ left[c] <= Len(q)
    BY <1>1, <1>14 DEF RecvUserNode, ReplyInv
  <2>2. /\ left'[c] = left[c] - 1 /\ pc'[c] = pc[c]
        /\ \/ left[c] = 1 /\ rpc'[c] = "head"
           \/ left[c] # 1 /\ rpc'[c] = "unodes"
    BY <1>1, <1>14 DEF RecvUserNode
  <2>3. left[c] # 1 => 0 < left'[c] /\ left'[c] <= Len(t)
    <3>1. left[c] \in Nat
      BY <1>1
    <3> QED  BY <1>3, <2>1, <2>2, <3>1
  <2>4. pc'[c] \notin {"start", "count", "nodes", "exited"}
    BY <2>1, <2>2
  <2> QED  BY <1>8, <2>2, <2>3, <2>4
<1> QED  BY <1>9, <1>10, <1>11, <1>12, <1>13, <1>14 DEF Recv

(* What others read.                                                       *)
LEMMA ReplyOther ==
  ASSUME TypeInv, NEW c \in Peer, ReplyInv(c), LoginInv(c), NEW x \in Peer \ {c},
         NEW s, NEW r, NEW n \in Paths, Recv(x, s, r, n),
         \A y, z \in Addr : z # x => n[y][z] = net[y][z]
  PROVE  ReplyInv(c)' /\ LoginInv(c)'
<1>1. /\ pc \in [Peer -> MainPc] /\ rpc \in [Peer -> RecvPc] /\ left \in [Peer -> Nat]
      /\ c \in Addr /\ x \in Addr /\ Server \in Addr /\ Server # c /\ Server # x
      /\ up \in SUBSET Addr
  BY AddressesDistinct DEF TypeInv, TypeOK, NetTypeOK, ClientTypeOK, Addr
<1>2. net'[Server][c] = net[Server][c] /\ net'[c][Server] = net[c][Server]
  BY <1>1, RecvPaths
<1>3. pc'[c] = pc[c] /\ rpc'[c] = rpc[c] /\ left'[c] = left[c] /\ (Server \in up' => Server \in up)
  BY <1>1 DEF At, Goto, LoggedIn, Recv, RecvLoginCount, RecvLoginNode, RecvHeader, RecvText,
     RecvUserCount, RecvUserNode, Terminate
<1> QED  BY <1>2, <1>3, ReplyAside

LEMMA ReplyNext ==
  ASSUME NEW a \in Peer, NEW b \in Peer, OneCaller(a, b), TypeInv, DirectoryInv, DirectoryInv',
         ProcessInv, RolesInv(a), NEW c \in Peer, ReplyInv(c), LoginInv(c), [Next]_vars
  PROVE  ReplyInv(c)' /\ LoginInv(c)'
<1>1. /\ net \in Paths /\ Benign /\ c \in Addr /\ Server \in Addr /\ Peer \subseteq Addr
      /\ Server \notin Peer
  BY AddressesDistinct DEF TypeInv, TypeOK, NetTypeOK, OneCaller, Addr
<1>2. ASSUME NEW x \in Peer, ServerNext(x), UNCHANGED clientVars
      PROVE  ReplyInv(c)' /\ LoginInv(c)'
  BY <1>2, ReplyServer
<1>3. CASE NetStep
  BY <1>1, <1>3, ReplyDrop DEF NetStep
<1>4. ASSUME NEW x \in Peer, NEW s \in Addr, NEW i \in Receivable(s, x),
             Recv(x, s, net[s][x][i], Taken(s, x, i))
      PROVE  ReplyInv(c)' /\ LoginInv(c)'
  <2>1. i \in DOMAIN net[s][x] /\ i = 1 /\ x \in Addr
    BY <1>1, <1>4 DEF Receivable, Benign
  <2> PICK n, r : n = Taken(s, x, i) /\ r = net[s][x][i]
    OBVIOUS
  <2>2. /\ n \in Paths /\ r \in Range(net[s][x]) /\ Recv(x, s, r, n)
        /\ \A y, z \in Addr : n[y][z] = IF y = s /\ z = x THEN RemoveAt(net[y][z], i) ELSE net[y][z]
    BY <1>1, <1>4, <2>1, TakenPaths, TakenShrinks
  <2>3. CASE x # c
    BY <2>1, <2>2, <2>3, ReplyOther
  <2>4. CASE x = c /\ s # Server
    <3>1. s \in Peer
      BY <2>4 DEF Addr
    <3>2. ~IsInt(r)
      BY <2>2, <2>4, <3>1 DEF DirectoryInv, AnswersInv
    <3>3. n[Server][c] = net[Server][c]
      BY <1>1, <2>1, <2>2, <2>4
    <3> QED  BY <2>2, <2>4, <3>2, <3>3, ReplyOwn
  <2>5. CASE x = c /\ s = Server
    <3>1. net[Server][c] # <<>>
      BY <2>1, <2>5
    <3>2. r = net[Server][c][1] /\ n[Server][c] = RemoveAt(net[Server][c], 1)
      BY <1>1, <2>1, <2>2, <2>5
    <3> QED  BY <2>2, <2>5, <3>1, <3>2, ReplyOwn
  <2> QED  BY <2>3, <2>4, <2>5
<1>5. ASSUME NEW x \in Peer, RecvFails(x)
      PROVE  ReplyInv(c)' /\ LoginInv(c)'
  <2> PICK n, r, s : n = net /\ r = Failed /\ s = None
    OBVIOUS
  <2>1. Recv(x, s, r, n) /\ ~IsInt(r) /\ n \in Paths
    BY <1>1, <1>5 DEF RecvFails, IsInt, Failed, Dgram
  <2> QED  BY <2>1, ReplyOwn, ReplyOther
<1>6. ASSUME NEW x \in Peer, ClientStep(x)
      PROVE  ReplyInv(c)' /\ LoginInv(c)'
  BY <1>4, <1>5, <1>6, ReplyMain DEF ClientStep, RecvDatagram
<1>7. CASE UNCHANGED vars
  BY <1>7, ReplyAside DEF vars, netVars, clientVars, threadVars
<1> QED  BY <1>2, <1>3, <1>6, <1>7 DEF Next, ServerStep

LEMMA ReplyInit ==
  ASSUME Init, NEW c \in Peer
  PROVE  ProcessInv /\ ReplyInv(c) /\ LoginInv(c)
<1>1. /\ \A x \in Peer : pc[x] = "start" /\ rpc[x] = "none" /\ x \in up
      /\ net[Server][c] = <<>> /\ net[c][Server] = <<>>
  BY DEF Init, NetInit, ClientInit, Addr
<1>2. Range(<<>>) = {} /\ Counted(<<>>)
  BY CountedEmpty DEF Range
<1> QED  BY <1>1, <1>2 DEF ProcessInv, ReplyInv, LoginInv, LoggedInPc

CallerInv(a, b) ==
  /\ TypeInv /\ DirectoryInv /\ ProcessInv
  /\ RolesInv(a) /\ TravelInv(a) /\ RoundsInv(a) /\ NodesInv(a, b)
  /\ \A c \in Peer : ReplyInv(c) /\ LoginInv(c)

LEMMA CallerNext ==
  ASSUME NEW a \in Peer, NEW b \in Peer, OneCaller(a, b), CallerInv(a, b), [Next]_vars
  PROVE  CallerInv(a, b)'
<1>1. /\ UniqueNames /\ OnlySender(a) /\ Benign
      /\ TypeInv /\ DirectoryInv /\ ProcessInv
      /\ RolesInv(a) /\ TravelInv(a) /\ RoundsInv(a) /\ NodesInv(a, b)
      /\ \A c \in Peer : ReplyInv(c) /\ LoginInv(c)
  BY DEF OneCaller, CallerInv
<1>2. TypeInv' /\ DirectoryInv' /\ ProcessInv'
  BY <1>1, TypesNext, DirectoryNext, ProcessNext
<1>3. RolesInv(a)' /\ TravelInv(a)' /\ RoundsInv(a)'
  BY <1>1, TravelNext, RoundsNext
<1>4. NodesInv(a, b)'
  BY <1>1, NodesNext
<1>5. \A c \in Peer : ReplyInv(c)' /\ LoginInv(c)'
  BY <1>1, <1>2, ReplyNext
<1> QED  BY <1>2, <1>3, <1>4, <1>5 DEF CallerInv

LEMMA CallerInit ==
  ASSUME NEW a \in Peer, NEW b \in Peer, Init
  PROVE  CallerInv(a, b)
<1>1. TypeInv /\ DirectoryInv /\ RolesInv(a) /\ TravelInv(a) /\ RoundsInv(a)
  BY TypesInit, DirectoryInit, RoundsInit
<1>2. ProcessInv /\ \A c \in Peer : ReplyInv(c) /\ LoginInv(c)
  BY ReplyInit
<1>3. NodesInv(a, b)
  <2>1. /\ \A c \in Peer : pc[c] = "start" /\ list[c] = <<>>
        /\ \A s, d \in Addr : net[s][d] = <<>>
        /\ Server \in up
    BY DEF Init, NetInit, ClientInit, Addr
  <2>2. Range(<<>>) = {}
    BY DEF Range
  <2> QED  BY <2>1, <2>2 DEF NodesInv, Sending
<1> QED  BY <1>1, <1>2, <1>3 DEF CallerInv

-----------------------------------------------------------------------------
(* A datagram is read off the head of its path; or the read fails.         *)
Reads(c, s, r, n) ==
  /\ Recv(c, s, r, n)
  /\ \/ s = None /\ r = Failed /\ n = net
     \/ /\ s \in Addr /\ Passes(s, c) /\ net[s][c] # <<>>
        /\ r = net[s][c][1] /\ r \in Range(net[s][c])
        /\ \A x, y \in Addr :
             n[x][y] = IF x = s /\ y = c THEN RemoveAt(net[x][y], 1) ELSE net[x][y]

LEMMA ReadStep ==
  ASSUME Benign, TypeInv, NEW c \in Peer, RecvDatagram(c) \/ RecvFails(c)
  PROVE  \E s \in Addr \cup {None}, r \in Datagram \cup {Failed}, n \in Paths : Reads(c, s, r, n)
<1>1. net \in Paths /\ c \in Addr
  BY DEF TypeInv, TypeOK, NetTypeOK, Addr
<1>2. CASE RecvFails(c)
  <2> PICK s \in Addr \cup {None}, r \in Datagram \cup {Failed}, n \in Paths :
             s = None /\ r = Failed /\ n = net
    BY <1>1
  <2>1. Reads(c, s, r, n)
    BY <1>2 DEF Reads, RecvFails
  <2> QED  BY <2>1
<1>3. CASE RecvDatagram(c)
  <2>1. PICK s \in Addr : \E i \in Receivable(s, c) : Recv(c, s, net[s][c][i], Taken(s, c, i))
    BY <1>3 DEF RecvDatagram
  <2>2. PICK i \in Receivable(s, c) : Recv(c, s, net[s][c][i], Taken(s, c, i))
    BY <2>1
  <2>3. Passes(s, c) /\ i = 1 /\ i \in DOMAIN net[s][c]
    BY DEF Receivable, Benign
  <2>4. net[s][c] # <<>>
    BY <2>3
  <2> PICK r, n : r = net[s][c][i] /\ n = Taken(s, c, i)
    OBVIOUS
  <2>5. /\ n \in Paths /\ r \in Datagram /\ r \in Range(net[s][c])
        /\ \A x, y \in Addr :
             n[x][y] = IF x = s /\ y = c THEN RemoveAt(net[x][y], i) ELSE net[x][y]
    BY <1>1, <2>3, TakenPaths, TakenShrinks
  <2>6. Reads(c, s, r, n)
    <3>1. Recv(c, s, r, n) /\ r = net[s][c][1]
      BY <2>2, <2>3
    <3> QED  BY <2>3, <2>4, <2>5, <3>1 DEF Reads
  <2> QED  BY <2>5, <2>6
<1> QED  BY <1>2, <1>3

-----------------------------------------------------------------------------
(* No login and no reply is under way.                                     *)
Calm == \A s, d \in Addr : \A m \in Range(net[s][d]) :
          m.kind \notin {"COUNT", "GETALLUSER", "LOGIN"}

(* Both are logged in and have nothing of the server's to read.            *)
Settled(a, b) == Calm /\ rpc[a] = "head" /\ pc[b] = "cmd"

LEMMA CalmStays ==
  ASSUME NEW a \in Peer, NEW b \in Peer, OneCaller(a, b), TypeInv, Settled(a, b),
         pc[a] \in Sending, [Next]_vars
  PROVE  Calm'
<1>1. NewDatagrams
  BY NextSends
<1> SUFFICES ASSUME NEW s \in Addr, NEW d \in Addr, NEW m \in Range(net'[s][d]),
                    m.kind \in {"COUNT", "GETALLUSER", "LOGIN"}
             PROVE  FALSE
  BY DEF Calm
<1>2. m \notin Range(net[s][d])
  BY DEF Settled, Calm
<1>3. Fresh(s, d, m)
  BY <1>1, <1>2 DEF NewDatagrams
<1>4. Peer \subseteq Addr /\ Server \in Addr /\ Peer = {a, b} /\ MaxGetu[b] = 0 /\ getus[b] \in Nat
  BY DEF Addr, OneCaller, TypeInv, TypeOK, ClientTypeOK
<1>5. pc[a] \notin {"start", "cmd"} /\ pc[b] = "cmd" /\ ~(getus[b] < MaxGetu[b])
  BY <1>4 DEF Sending, Settled
<1>6. CASE m.kind = "LOGIN"
  BY <1>3, <1>4, <1>5, <1>6 DEF Fresh
<1>7. CASE m.kind = "COUNT"
  <2>1. d \in Peer /\ \E g \in Range(net[d][Server]) : g.kind \in {"LOGIN", "GETALLUSER"}
    BY <1>3, <1>7 DEF Fresh
  <2> QED  BY <1>4, <2>1 DEF Settled, Calm
<1>8. CASE m.kind = "GETALLUSER"
  <2>1. CASE s \in Peer /\ getus[s] < MaxGetu[s] /\ pc[s] = "cmd"
    BY <1>4, <1>5, <2>1
  <2>2. CASE d \in Peer /\ \E g \in Range(net[d][Server]) : g.kind = "GETALLUSER"
    BY <1>4, <2>2 DEF Settled, Calm
  <2> QED  BY <1>3, <1>8, <2>1, <2>2 DEF Fresh
<1> QED  BY <1>6, <1>7, <1>8

(* What may be read then.                                                  *)
LEMMA ReadKinds ==
  ASSUME NEW a \in Peer, NEW b \in Peer, TravelInv(a), Settled(a, b), NEW c \in Peer,
         NEW s, NEW r, NEW n, Reads(c, s, r, n)
  PROVE  /\ ~IsInt(r) /\ TypeOf(r) = r.kind /\ r.kind \notin {"COUNT", "GETALLUSER"}
         /\ r.kind = "P2PMESSAGE" => s = a /\ c # a
         /\ r.kind = "P2PMESSAGEACK" => s \in Peer \ {a}
         /\ r.kind = "P2PSOMEONEWANTTOCALLYOU" =>
              c # a /\ r.who = a /\ pc[a] \in {"pause", "exited"}
<1>1. c \in Addr
  BY DEF Addr
<1>2. CASE r = Failed
  BY <1>2 DEF Failed, Dgram, IsInt, TypeOf
<1>3. CASE s \in Addr /\ r \in Range(net[s][c])
  <2>1. r.kind \notin {"COUNT", "GETALLUSER"} /\ MayTravel(a, s, c, r)
    BY <1>1, <1>3 DEF Settled, Calm, TravelInv
  <2> QED  BY <2>1 DEF MayTravel, IsInt, TypeOf
<1> QED  BY <1>2, <1>3 DEF Reads

(* b leaves its command only to end.                                       *)
LEMMA IdleStays ==
  ASSUME NEW a \in Peer, NEW b \in Peer, OneCaller(a, b), TypeInv, RolesInv(a),
         pc[b] = "cmd", NEW c \in Peer,
         \/ Command(c) \/ Main(c)
         \/ \E s, r, n : Recv(c, s, r, n)
  PROVE  pc'[b] \in {"cmd", "exited"} /\ (pc'[b] = "cmd" => (Command(c) \/ Main(c) => c = a))
<1> USE DEF At, Goto, LoggedIn
<1>1. /\ pc \in [Peer -> MainPc] /\ rpc[b] \in RecvPc /\ MaxSend[b] = 0 /\ MaxGetu[b] = 0
      /\ Peer = {a, b} /\ a # b /\ sends[b] \in Nat /\ getus[b] \in Nat
  BY DEF TypeInv, TypeOK, ClientTypeOK, OneCaller, OnlySender
<1>2. CASE c = a
  <2>1. ASSUME Command(c) \/ Main(c)  PROVE pc'[b] = "cmd"
    BY <1>1, <1>2, <2>1 DEF Command, Main, SendLogin, Exit, GetUsers, SendCommand, FindUser,
       NotFound, SendHeader, SendText, GiveUp, SeeACK, MissACK, AskServer, Retry, Terminate, threadVars
  <2>2. ASSUME NEW s, NEW r, NEW n, Recv(c, s, r, n)
        PROVE  pc'[b] = "cmd"
    BY <1>1, <1>2, <2>2 DEF Recv, RecvLoginCount, RecvLoginNode, RecvHeader, RecvText,
       RecvUserCount, RecvUserNode, Terminate
  <2> QED  BY <1>2, <2>1, <2>2
<1>3. CASE c = b
  <2>1. ASSUME Command(c) \/ Main(c)  PROVE pc'[b] = "exited"
    BY <1>1, <1>3, <2>1 DEF Command, Main, SendLogin, Exit, GetUsers, SendCommand, FindUser,
       NotFound, SendHeader, SendText, GiveUp, SeeACK, MissACK, AskServer, Retry, Terminate
  <2>2. ASSUME NEW s, NEW r, NEW n, Recv(c, s, r, n)
        PROVE  pc'[b] \in {"cmd", "exited"}
    BY <1>1, <1>3, <2>2 DEF Recv, RecvLoginCount, RecvLoginNode, RecvHeader, RecvText,
       RecvUserCount, RecvUserNode, Terminate
  <2> QED  BY <1>1, <2>1, <2>2
<1> QED  BY <1>1, <1>2, <1>3

LEMMA SettledStays ==
  ASSUME NEW a \in Peer, NEW b \in Peer, OneCaller(a, b), CallerInv(a, b), Settled(a, b),
         pc[a] \in Sending, [Next]_vars, pc'[a] # "exited", pc'[b] # "exited"
  PROVE  Settled(a, b)'
<1>1. /\ TypeInv /\ Benign /\ RolesInv(a) /\ TravelInv(a) /\ pc[b] = "cmd" /\ rpc[a] = "head"
      /\ pc \in [Peer -> MainPc] /\ rpc \in [Peer -> RecvPc] /\ Peer = {a, b} /\ a # b
  BY DEF CallerInv, OneCaller, Settled, TypeInv, TypeOK, ClientTypeOK
<1>2. Calm'
  BY <1>1, CalmStays
<1>3. ASSUME NEW c \in Peer, Command(c) \/ Main(c)
      PROVE  pc'[b] = "cmd" /\ rpc'[a] = "head"
  <2>1. pc'[b] = "cmd"
    BY <1>1, <1>3, IdleStays
  <2>2. rpc'[a] = "head"
    BY <1>1, <1>3 DEF At, Goto, Command, Main, SendLogin, Exit, GetUsers, SendCommand, FindUser,
       NotFound, SendHeader, SendText, GiveUp, SeeACK, MissACK, AskServer, Retry, Terminate, threadVars
  <2> QED  BY <2>1, <2>2
<1>4. ASSUME NEW c \in Peer, NEW s, NEW r, NEW n, Reads(c, s, r, n)
      PROVE  pc'[b] = "cmd" /\ rpc'[a] = "head"
  <2>1. Recv(c, s, r, n)
    BY <1>4 DEF Reads
  <2>2. pc'[b] = "cmd"
    BY <1>1, <2>1, IdleStays
  <2>3. c = a => r.kind # "P2PMESSAGE" /\ TypeOf(r) = r.kind /\ r.kind # "GETALLUSER"
    BY <1>1, <1>4, ReadKinds
  <2>4. rpc'[a] = "head"
    BY <1>1, <2>1, <2>3 DEF At, Goto, LoggedIn, Sending, Recv, RecvLoginCount, RecvLoginNode,
       RecvHeader, RecvText, RecvUserCount, RecvUserNode, Terminate
  <2> QED  BY <2>2, <2>4
<1>5. ASSUME NEW c \in Peer, ClientStep(c)
      PROVE  pc'[b] = "cmd" /\ rpc'[a] = "head"
  BY <1>1, <1>3, <1>4, <1>5, ReadStep DEF ClientStep
<1>6. ASSUME pc' = pc /\ rpc' = rpc
      PROVE  pc'[b] = "cmd" /\ rpc'[a] = "head"
  BY <1>1, <1>6
<1> QED  BY <1>2, <1>5, <1>6 DEF Next, ServerStep, NetStep, vars, clientVars, threadVars, Settled

(* With nothing under way, both are ready for the next round.              *)
LEMMA QuietReady ==
  ASSUME NEW a \in Peer, NEW b \in Peer, OneCaller(a, b), CallerInv(a, b), Quiet,
         pc[a] \in {"poll", "pause"}, pc[b] # "exited"
  PROVE  Settled(a, b) /\ rpc[b] = "head" /\ target[a] = b
<1>1. /\ TypeInv /\ DirectoryInv /\ ProcessInv /\ RolesInv(a) /\ RoundsInv(a) /\ NodesInv(a, b)
      /\ \A c \in Peer : ReplyInv(c) /\ LoginInv(c)
      /\ pc \in [Peer -> MainPc] /\ rpc \in [Peer -> RecvPc] /\ left \in [Peer -> Nat]
      /\ Peer = {a, b} /\ a # b /\ Peer \subseteq Addr /\ Server \in Addr
  BY DEF CallerInv, OneCaller, TypeInv, TypeOK, ClientTypeOK, Addr
<1>2. /\ \A s, d \in Addr : net[s][d] = <<>>
      /\ Range(<<>>) = {} /\ Len(<<>>) = 0
  BY DEF Quiet, Range
<1>3. Calm
  BY <1>2 DEF Calm
<1>4. ASSUME NEW c \in Peer  PROVE pc[c] # "nodes" /\ rpc[c] \notin {"unodes", "ucount"}
  <2>1. net[Server][c] = <<>> /\ left[c] \in Nat
    BY <1>1, <1>2
  <2> QED  BY <1>1, <1>2, <2>1 DEF ReplyInv
<1>5. target[a] = b
  BY <1>1 DEF RolesInv, Sending
<1>6. pc[b] = "cmd"
  <2>1. Listed(b) /\ Server \in up
    BY <1>1 DEF NodesInv, Sending, ListedOrGone
  <2>2. pc[b] # "start"
    BY <1>1, <2>1 DEF DirectoryInv
  <2>3. pc[b] # "count"
    BY <1>1, <1>2, <2>1 DEF LoginInv
  <2> QED  BY <1>1, <1>4, <2>2, <2>3 DEF RolesInv, MainPc, Sending
<1>7. rpc[b] # "body"
  <2>1. Told(a, b) /\ net[a][b] = <<>>
    BY <1>1, <1>2 DEF RoundsInv
  <2>2. Untold(a, b) \/ Waiting(a, b) \/ Reading(a, b) \/ Answered(a, b)
    BY <2>1 DEF Told
  <2> QED  BY <2>1, <2>2, <1>2 DEF Waiting, Reading, Answered, Untold
<1>8. rpc[a] = "head" /\ rpc[b] = "head"
  <2>1. rpc[a] # "none" /\ rpc[b] # "none"
    BY <1>1, <1>6 DEF ProcessInv, LoggedInPc, MainPc
  <2>2. rpc[a] # "body"
    BY <1>1 DEF RolesInv
  <2> QED  BY <1>1, <1>4, <1>7, <2>1, <2>2 DEF RecvPc
<1> QED  BY <1>3, <1>5, <1>6, <1>8 DEF Settled

-----------------------------------------------------------------------------
(* The rounds of a message to b that b lives through.  The first was       *)
(* missed; b is asked to call, or has; the second is coming; its header is *)
(* out; it is under way, being read, answered or confirmed, and nothing    *)
(* is in between.                                                          *)
Called(a, b) ==
  \/ Passes(a, b)
  \/ \E m \in Range(net[a][Server]) : m.kind = "P2PTRANS"
  \/ \E m \in Range(net[Server][b]) : m.kind = "P2PSOMEONEWANTTOCALLYOU"
Reachable(a, b) ==
  Passes(a, b) /\ retry[a] = 1 /\ \A s \in Addr \ {a} : net[s][b] = <<>>

Missed(a, b) == pc[a] = "lastsleep" /\ retry[a] = 0 /\ rpc[b] = "head"
Asked(a, b)  == pc[a] = "pause" /\ retry[a] = 0 /\ rpc[b] = "head" /\ Called(a, b)
Again(a, b)  == pc[a] = "send" /\ Reachable(a, b) /\ rpc[b] = "head"
Half(a, b) ==
  /\ pc[a] = "text" /\ Reachable(a, b) /\ Passes(b, a)
  /\ \/ rpc[b] = "head" /\ net[a][b] = <<Header>>
     \/ rpc[b] = "body" /\ net[a][b] = <<>>
Resent(a, b) ==
  /\ pc[a] = "poll" /\ Reachable(a, b) /\ rpc[b] \in {"head", "body"} /\ Passes(b, a)
  /\ \/ RecvedACK[a] \/ net[b][a] # <<>> \/ rpc[b] = "body"
     \/ net[a][b] = <<Header, Text(a)>>

AnyPhase(a, b) == \/ Missed(a, b) \/ Asked(a, b) \/ Again(a, b) \/ Half(a, b)
                  \/ Resent(a, b)

(* Past its first look in vain.                                            *)
Repeating(a) == \/ pc[a] \in {"lastsleep", "pause"}
                \/ pc[a] \in {"send", "text", "poll"} /\ retry[a] > 0
PhaseInv(a, b) ==
  pc[b] # "exited" /\ Repeating(a) =>
    /\ Settled(a, b)
    /\ AnyPhase(a, b)

(* The network.                                                            *)
LEMMA PhaseDrop ==
  ASSUME NEW a \in Peer, NEW b \in Peer, OneCaller(a, b), CallerInv(a, b), PhaseInv(a, b),
         Settled(a, b)', NEW s \in Addr, NEW d \in Addr, NEW i \in DOMAIN net[s][d],
         Drop(s, d, i), UNCHANGED clientVars, pc[b] # "exited", Repeating(a)
  PROVE  PhaseInv(a, b)'
<1>1. /\ net \in Paths /\ net' = Taken(s, d, i) /\ ~Passes(s, d) /\ hole' = hole
      /\ a \in Addr /\ b \in Addr /\ Server \in Addr
      /\ pc' = pc /\ rpc' = rpc /\ retry' = retry /\ RecvedACK' = RecvedACK /\ sends' = sends
  BY DEF CallerInv, OneCaller, TypeInv, TypeOK, NetTypeOK, Drop, Benign, Addr, clientVars, threadVars,
     sendVars, userVars
<1>2. \A x, y \in Addr : net'[x][y] = IF x = s /\ y = d THEN RemoveAt(net[x][y], i) ELSE net[x][y]
  BY <1>1, TakenPaths
<1>3. \A x, y \in Addr : /\ Passes(x, y)' <=> Passes(x, y)
                         /\ Passes(x, y) => net'[x][y] = net[x][y]
                         /\ net[x][y] = <<>> => net'[x][y] = <<>>
  BY <1>1, <1>2 DEF Passes
<1>4. Settled(a, b) /\ AnyPhase(a, b)
  BY DEF PhaseInv
<1>5. CASE Missed(a, b)
  BY <1>1, <1>5 DEF Missed, PhaseInv, AnyPhase
<1>6. CASE Asked(a, b)
  <2>1. Passes(a, Server) /\ Passes(Server, b)
    BY <1>4 DEF Passes, CallerInv, ProcessInv, Settled
  <2>2. Called(a, b)'
    BY <1>1, <1>3, <1>6, <2>1 DEF Asked, Called
  <2> QED  BY <1>1, <1>6, <2>2 DEF Asked, PhaseInv, AnyPhase
<1>7. ASSUME Reachable(a, b)  PROVE Reachable(a, b)'
  BY <1>1, <1>3, <1>7 DEF Reachable
<1>8. CASE Again(a, b)
  BY <1>1, <1>7, <1>8 DEF Again, PhaseInv, AnyPhase
<1>9. CASE Resent(a, b)
  <2>1. Passes(a, b) /\ Passes(b, a)
    BY <1>9 DEF Resent, Reachable
  <2>2. net'[a][b] = net[a][b] /\ net'[b][a] = net[b][a] /\ Passes(b, a)'
    BY <1>1, <1>3, <2>1
  <2>3. Text(a)' = Text(a)
    BY <1>1 DEF Text
  <2>4. Resent(a, b)'
    BY <1>1, <1>7, <1>9, <2>2, <2>3 DEF Resent
  <2> QED  BY <2>4 DEF PhaseInv, AnyPhase
<1>10. CASE Half(a, b)
  <2>1. net'[a][b] = net[a][b] /\ Passes(b, a)'
    BY <1>1, <1>3, <1>10 DEF Half, Reachable
  <2>2. Half(a, b)'
    BY <1>1, <1>7, <1>10, <2>1 DEF Half, Header
  <2> QED  BY <2>2 DEF PhaseInv, AnyPhase
<1> QED  BY <1>4, <1>5, <1>6, <1>8, <1>9, <1>10 DEF AnyPhase

(* The server takes a's request to be called and calls b; it has nothing   *)
(* else to send.                                                           *)
LEMMA ServerCalls ==
  ASSUME NEW a \in Peer, NEW b \in Peer, OneCaller(a, b), CallerInv(a, b), CallerInv(a, b)',
         Settled(a, b), NEW x \in Peer, ServerNext(x), UNCHANGED clientVars
  PROVE  /\ hole' = hole
         /\ \E i \in DOMAIN net[x][Server] : \E ms \in Seq(Datagram) :
              IF net[x][Server][i].kind = "P2PTRANS"
              THEN /\ pc[a] \in {"pause", "exited"} /\ b \in up
                   /\ net' = Sent(Taken(x, Server, i), Server, b, ms)
                   /\ \E m \in Range(ms) : m.kind = "P2PSOMEONEWANTTOCALLYOU"
              ELSE net' = Taken(x, Server, i)
<1>1. /\ TypeInv /\ DirectoryInv /\ ProcessInv /\ TravelInv(a) /\ NodesInv(a, b) /\ NodesInv(a, b)'
      /\ UniqueNames /\ net \in Paths /\ ClientList \in Seq(Peer) /\ Server \notin Peer
      /\ x \in Addr /\ Server \in Addr /\ pc' = pc /\ pc[b] = "cmd"
  BY AddressesDistinct DEF CallerInv, OneCaller, TypeInv, TypeOK, NetTypeOK, ServerTypeOK, Addr,
     clientVars, threadVars, Settled
<1>2. Server \in up' /\ b \in up
  BY <1>1 DEF NodesInv, ProcessInv
<1>3. PICK i \in Receivable(x, Server) :
          \/ Login(x, i) \/ Logout(x, i) \/ P2PTrans(x, i)
          \/ GetAllUser(x, i) \/ ServerIgnores(x, i)
  BY DEF ServerNext
<1> DEFINE r == net[x][Server][i]
<1>4. i \in DOMAIN net[x][Server] /\ r \in Range(net[x][Server])
  BY DEF Receivable, Range
<1>5. /\ r.kind \notin {"LOGIN", "GETALLUSER"}
      /\ r.kind = "P2PTRANS" => /\ pc[a] \in {"pause", "exited"} /\ r.who = NameOf[b]
                                /\ ListedOrGone(b)
  BY <1>1, <1>4 DEF Settled, Calm, TravelInv, MayTravel, NodesInv
<1>6. CASE r.kind # "P2PTRANS"
  <2>1. net' = Taken(x, Server, i) /\ hole' = hole
    BY <1>3, <1>5, <1>6 DEF Login, Logout, P2PTrans, GetAllUser, ServerIgnores
  <2>2. <<>> \in Seq(Datagram)
    BY EmptySeq
  <2> QED  BY <1>4, <1>6, <2>1, <2>2
<1>7. CASE r.kind = "P2PTRANS"
  <2> DEFINE call == Dgram("P2PSOMEONEWANTTOCALLYOU", x, 0)
  <2>1. P2PTrans(x, i)
    BY <1>3, <1>5, <1>7 DEF Login, Logout, GetAllUser, ServerIgnores, Request
  <2>2. PICK k \in DOMAIN ClientList :
           /\ NameOf[ClientList[k]] = NameOf[b]
           /\ net' = Sent(Taken(x, Server, i), Server, ClientList[k], <<call>>)
    BY <1>1, <1>2, <1>5, <1>7, <2>1 DEF P2PTrans, IsFirst, Matches
  <2>3. ClientList[k] = b
    BY <1>1, <2>2, LenProperties, ElementOfSeq DEF UniqueNames
  <2>4. call \in Datagram /\ call.kind = "P2PSOMEONEWANTTOCALLYOU"
    BY DgramType DEF Reply, Dgram
  <2>5. hole' = hole
    BY <2>1 DEF P2PTrans
  <2> HIDE DEF call
  <2>6. PICK ms \in Seq(Datagram) : ms = <<call>> /\ Range(ms) = {call}
    BY <2>4, OneDatagram
  <2>7. net' = Sent(Taken(x, Server, i), Server, b, ms)
    BY <2>2, <2>3, <2>6
  <2> QED  BY <1>2, <1>4, <1>5, <1>7, <2>4, <2>5, <2>6, <2>7
<1> QED  BY <1>6, <1>7

LEMMA PhaseServer ==
  ASSUME NEW a \in Peer, NEW b \in Peer, OneCaller(a, b), CallerInv(a, b), CallerInv(a, b)',
         PhaseInv(a, b), Settled(a, b)', NEW x \in Peer, ServerNext(x), UNCHANGED clientVars,
         pc[b] # "exited", Repeating(a)
  PROVE  PhaseInv(a, b)'
<1>1. /\ net \in Paths /\ a \in Addr /\ b \in Addr /\ x \in Addr /\ Server \in Addr
      /\ Server \notin {a, b, x} /\ up \in SUBSET Addr
      /\ pc' = pc /\ rpc' = rpc /\ retry' = retry /\ RecvedACK' = RecvedACK /\ sends' = sends
  BY AddressesDistinct DEF CallerInv, TypeInv, TypeOK, NetTypeOK, Addr, clientVars, threadVars,
     sendVars, userVars
<1>2. Settled(a, b) /\ AnyPhase(a, b)
  BY DEF PhaseInv
<1>3. hole' = hole
  BY <1>2, ServerCalls
<1>4. PICK i \in DOMAIN net[x][Server] : \E ms \in Seq(Datagram) :
              IF net[x][Server][i].kind = "P2PTRANS"
              THEN /\ pc[a] \in {"pause", "exited"} /\ b \in up
                   /\ net' = Sent(Taken(x, Server, i), Server, b, ms)
                   /\ \E m \in Range(ms) : m.kind = "P2PSOMEONEWANTTOCALLYOU"
              ELSE net' = Taken(x, Server, i)
  BY <1>2, ServerCalls
<1> DEFINE n == Taken(x, Server, i)
           r == net[x][Server][i]
<1>5. /\ n \in Paths
      /\ \A y, z \in Addr : n[y][z] = IF y = x /\ z = Server THEN RemoveAt(net[y][z], i) ELSE net[y][z]
  BY <1>1, TakenPaths
<1>6. PICK ms \in Seq(Datagram) :
         IF r.kind = "P2PTRANS"
         THEN /\ pc[a] \in {"pause", "exited"} /\ b \in up
              /\ net' = Sent(n, Server, b, ms)
              /\ \E m \in Range(ms) : m.kind = "P2PSOMEONEWANTTOCALLYOU"
         ELSE net' = n
  BY <1>4
<1> HIDE DEF n
<1>7. \A y, z \in Addr : Sent(n, Server, b, ms)[y][z] =
         IF y = Server /\ z = b /\ b \in up THEN n[y][z] \o ms ELSE n[y][z]
  BY <1>1, <1>5, SentPaths
<1>8. Passes(a, b)' <=> Passes(a, b)
  BY <1>3 DEF Passes
<1>9. CASE Missed(a, b)
  BY <1>1, <1>9 DEF Missed, PhaseInv, AnyPhase
<1>10. CASE Asked(a, b)
  <2>1. CASE Passes(a, b)
    BY <1>1, <1>8, <1>10, <2>1 DEF Asked, Called, PhaseInv, AnyPhase
  <2>2. net[Server][b] \in Seq(Datagram) /\ net[a][Server] \in Seq(Datagram)
    BY <1>1 DEF Paths
  <2>3. ASSUME NEW m \in Range(net[Server][b]), m.kind = "P2PSOMEONEWANTTOCALLYOU"
        PROVE  m \in Range(net'[Server][b])
    <3>1. net'[Server][b] = net[Server][b] \/ net'[Server][b] = net[Server][b] \o ms
      BY <1>1, <1>5, <1>6, <1>7
    <3>2. Range(net[Server][b] \o ms) = Range(net[Server][b]) \cup Range(ms)
      BY <2>2, RangeConcatenation
    <3> QED  BY <2>3, <3>1, <3>2
  <2>4. ASSUME NEW m \in Range(net[a][Server]), m.kind = "P2PTRANS"
        PROVE  \/ m \in Range(net'[a][Server])
               \/ \E g \in Range(net'[Server][b]) : g.kind = "P2PSOMEONEWANTTOCALLYOU"
    <3>1. net'[a][Server] = n[a][Server]
      BY <1>1, <1>6, <1>7
    <3>2. CASE x # a
      BY <1>1, <1>5, <2>4, <3>1, <3>2
    <3>3. CASE x = a /\ m # r
      <4>1. net'[a][Server] = RemoveAt(net[a][Server], i)
        BY <1>1, <1>5, <3>1, <3>3
      <4> QED  BY <2>2, <2>4, <3>3, <4>1, RangeStays
    <3>4. CASE m = r
      <4>1. net'[Server][b] = net[Server][b] \o ms
        BY <1>1, <1>5, <1>6, <1>7, <2>4, <3>4
      <4>2. Range(net'[Server][b]) = Range(net[Server][b]) \cup Range(ms)
        BY <2>2, <4>1, RangeConcatenation
      <4> QED  BY <1>6, <2>4, <3>4, <4>2
    <3> QED  BY <3>2, <3>3, <3>4
  <2>5. Called(a, b)'
    BY <1>8, <1>10, <2>3, <2>4 DEF Asked, Called
  <2> QED  BY <1>1, <1>10, <2>5 DEF Asked, PhaseInv, AnyPhase
<1>11. ASSUME pc[a] \in {"send", "text", "poll"}
       PROVE  \A y \in Addr, z \in Peer : net'[y][z] = net[y][z]
  <2>1. net' = n
    BY <1>6, <1>11
  <2>2. \A z \in Peer : z \in Addr /\ z # Server
    BY AddressesDistinct DEF Addr
  <2> QED  BY <1>5, <2>1, <2>2
<1>12. CASE Again(a, b)
  BY <1>1, <1>8, <1>11, <1>12 DEF Again, Reachable, PhaseInv, AnyPhase
<1>13. CASE Resent(a, b)
  <2>1. pc[a] = "poll"
    BY <1>13 DEF Resent
  <2>2. net'[a][b] = net[a][b] /\ net'[b][a] = net[b][a] /\ \A s \in Addr : net'[s][b] = net[s][b]
    BY <1>1, <1>11, <2>1
  <2>3. (Passes(b, a)' <=> Passes(b, a)) /\ Text(a)' = Text(a)
    BY <1>1, <1>3 DEF Passes, Text
  <2>4. Resent(a, b)'
    BY <1>1, <1>8, <1>13, <2>2, <2>3 DEF Resent, Reachable
  <2> QED  BY <2>4 DEF PhaseInv, AnyPhase
<1>14. CASE Half(a, b)
  <2>1. net'[a][b] = net[a][b] /\ \A s \in Addr : net'[s][b] = net[s][b]
    BY <1>1, <1>11, <1>14 DEF Half
  <2>2. Passes(b, a)' <=> Passes(b, a)
    BY <1>1, <1>3 DEF Passes
  <2>3. Half(a, b)'
    BY <1>1, <1>8, <1>14, <2>1, <2>2 DEF Half, Reachable, Header
  <2> QED  BY <2>3 DEF PhaseInv, AnyPhase
<1> QED  BY <1>2, <1>9, <1>10, <1>12, <1>13, <1>14 DEF AnyPhase

(* The sender.                                                             *)
LEMMA PhaseSender ==
  ASSUME NEW a \in Peer, NEW b \in Peer, OneCaller(a, b), CallerInv(a, b), CallerInv(a, b)',
         PhaseInv(a, b), Command(a) \/ Main(a),
         Settled(a, b) /\ pc[a] \in Sending /\ pc'[a] # "exited" => Settled(a, b)'
  PROVE  PhaseInv(a, b)'
<1> USE DEF At, Goto
<1>1. /\ TypeInv /\ RolesInv(a) /\ RoundsInv(a) /\ NodesInv(a, b) /\ ProcessInv /\ Timely
      /\ pc \in [Peer -> MainPc] /\ rpc \in [Peer -> RecvPc] /\ retry \in [Peer -> 0..MAXRETRY]
      /\ wanted \in [Peer -> Name \cup {None}] /\ sends[a] \in Nat
      /\ RecvedACK \in [Peer -> BOOLEAN] /\ hole \in [Peer -> SUBSET Addr]
      /\ Peer = {a, b} /\ a # b /\ net \in Paths /\ up \in SUBSET Addr
      /\ a \in Addr /\ b \in Addr /\ Server \in Addr /\ Server \notin {a, b}
  BY AddressesDistinct DEF CallerInv, OneCaller, Benign, TypeInv, TypeOK, NetTypeOK, ClientTypeOK, Addr
<1> SUFFICES ASSUME pc'[b] # "exited", Repeating(a)'
             PROVE  /\ Settled(a, b)'
                    /\ AnyPhase(a, b)'
  BY DEF PhaseInv
<1>2. pc'[b] = pc[b] /\ pc[b] # "exited"
  BY <1>1 DEF Command, Main, SendLogin, Exit, GetUsers, SendCommand, FindUser, NotFound,
     SendHeader, SendText, GiveUp, SeeACK, MissACK, AskServer, Retry, Terminate, threadVars
<1>3. SendHeader(a) \/ SendText(a) \/ MissACK(a) \/ AskServer(a) \/ Retry(a)
  <2>1. ASSUME \/ SendLogin(a) \/ Exit(a) \/ GetUsers(a) \/ NotFound(a) \/ GiveUp(a)
               \/ SeeACK(a) \/ FindUser(a)
               \/ \E name \in Name \ {NameOf[a]} : SendCommand(a, name)
        PROVE  \/ pc'[a] \in {"count", "exited", "cmd", "find"}
               \/ pc'[a] = "send" /\ retry'[a] = 0
    BY <1>1, <2>1 DEF SendLogin, Exit, GetUsers, SendCommand, FindUser, NotFound, GiveUp,
       SeeACK, Terminate, threadVars
  <2>2. /\ pc'[a] \notin {"count", "exited", "cmd", "find"}
        /\ ~(pc'[a] = "send" /\ retry'[a] = 0)
    BY DEF Repeating
  <2> QED  BY <2>1, <2>2 DEF Command, Main
<1>4. ASSUME Repeating(a)
      PROVE  /\ Settled(a, b) /\ AnyPhase(a, b)
             /\ (pc'[a] # "exited" => Settled(a, b)')
  BY <1>2, <1>4 DEF PhaseInv, Repeating, Sending
<1>5. CASE SendHeader(a)
  <2>1. /\ pc[a] = "send" /\ pc' = [pc EXCEPT ![a] = "text"] /\ rpc' = rpc /\ retry' = retry
        /\ hole' = Opened(a, {target[a]})
        /\ net' = Sent(net, a, target[a], <<Header>>)
    BY <1>5 DEF SendHeader, Transmit, Header
  <2>2. target[a] = b
    BY <1>1, <2>1 DEF RolesInv, Sending
  <2>3. pc'[a] = "text" /\ retry'[a] = retry[a] /\ Repeating(a)
    BY <1>1, <2>1 DEF Repeating
  <2>4. Settled(a, b)' /\ Again(a, b)
    BY <1>4, <2>1, <2>3 DEF AnyPhase, Missed, Asked, Half, Resent
  <2>5. /\ b \in hole'[a] /\ hole'[b] = hole[b]
    BY <1>1, <2>1, <2>2 DEF Opened
  <2>6. Passes(b, a)' /\ (Passes(a, b)' <=> Passes(a, b))
    BY <1>1, <2>5 DEF Passes
  <2>7. Header \in Datagram
    BY DgramType DEF PeerMsg, Header
  <2>8. PICK ms \in Seq(Datagram) : ms = <<Header>>
    BY <2>7, OneDatagram
  <2>9. \A y, z \in Addr : Sent(net, a, b, ms)[y][z] =
            IF y = a /\ z = b /\ b \in up THEN net[y][z] \o ms ELSE net[y][z]
    BY <1>1, SentPaths
  <2>10. /\ net' = Sent(net, a, b, ms) /\ b \in up
    BY <1>1, <1>2, <2>1, <2>2, <2>8 DEF ProcessInv
  <2>11. /\ \A s \in Addr \ {a} : net'[s][b] = net[s][b]
         /\ net'[a][b] = net[a][b] \o ms
    BY <1>1, <2>9, <2>10
  <2>12. net[a][b] = <<>>
    BY <1>1, <2>1 DEF RoundsInv, Told, Untold
  <2>13. net'[a][b] = <<Header>>
    BY <2>8, <2>11, <2>12, ConcatEmptySeq
  <2>14. Reachable(a, b)'
    BY <2>3, <2>4, <2>6, <2>11 DEF Again, Reachable
  <2>15. rpc'[b] = "head"
    BY <2>1, <2>4 DEF Again
  <2>16. Half(a, b)'
    BY <2>3, <2>6, <2>13, <2>14, <2>15 DEF Half, Header
  <2> QED  BY <2>4, <2>16 DEF AnyPhase
<1>9. CASE SendText(a)
  <2>1. /\ pc[a] = "text" /\ pc' = [pc EXCEPT ![a] = "poll"] /\ rpc' = rpc /\ retry' = retry
        /\ sends' = sends /\ hole' = Opened(a, {target[a]})
        /\ net' = Sent(net, a, target[a], <<Text(a)>>)
    BY <1>9 DEF SendText, Transmit, userVars, sendVars, Text
  <2>2. target[a] = b
    BY <1>1, <2>1 DEF RolesInv, Sending
  <2>3. pc'[a] = "poll" /\ retry'[a] = retry[a] /\ Repeating(a)
    BY <1>1, <2>1 DEF Repeating
  <2>4. Settled(a, b)' /\ Half(a, b)
    BY <1>4, <2>1, <2>3 DEF AnyPhase, Missed, Asked, Again, Resent
  <2>5. /\ b \in hole'[a] /\ hole'[b] = hole[b]
    BY <1>1, <2>1, <2>2 DEF Opened
  <2>6. Passes(b, a)' /\ (Passes(a, b)' <=> Passes(a, b))
    BY <1>1, <2>5 DEF Passes
  <2>7. Header \in Datagram /\ Text(a) \in Datagram
    <3>1. Header \in Datagram
      BY DgramType DEF PeerMsg, Header
    <3>2. "BODY" \in Request \cup Reply \cup PeerMsg /\ a \in Peer \cup Name \cup {None}
      BY DEF PeerMsg
    <3>3. \A num \in Nat : Dgram("BODY", a, num) \in Datagram
      BY <3>2, DgramType
    <3> QED  BY <1>1, <3>1, <3>3 DEF Text
  <2>8. PICK ms \in Seq(Datagram) : ms = <<Text(a)>>
    BY <2>7, OneDatagram
  <2>9. \A y, z \in Addr : Sent(net, a, b, ms)[y][z] =
            IF y = a /\ z = b /\ b \in up THEN net[y][z] \o ms ELSE net[y][z]
    BY <1>1, SentPaths
  <2>10. /\ net' = Sent(net, a, b, ms) /\ b \in up
    BY <1>1, <1>2, <2>1, <2>2, <2>8 DEF ProcessInv
  <2>11. /\ \A s \in Addr \ {a} : net'[s][b] = net[s][b]
         /\ net'[a][b] = net[a][b] \o <<Text(a)>>
    BY <1>1, <2>8, <2>9, <2>10
  <2>12. rpc[b] = "body" \/ net'[a][b] = <<Header, Text(a)>>
    <3>1. <<Header>> \o <<Text(a)>> = <<Header, Text(a)>>
      BY <2>7, ShortPaths
    <3>2. rpc[b] = "body" \/ net[a][b] = <<Header>>
      BY <2>4 DEF Half
    <3>3. CASE net[a][b] = <<Header>>
      BY <2>11, <3>1, <3>3, Zenon
    <3> QED  BY <3>2, <3>3
  <2>13. Text(a)' = Text(a)
    BY <2>1 DEF Text
  <2>14. Reachable(a, b)'
    BY <2>3, <2>4, <2>6, <2>11 DEF Half, Reachable
  <2>15. rpc'[b] = rpc[b] /\ rpc[b] \in {"head", "body"}
    BY <2>1, <2>4 DEF Half
  <2>16. Resent(a, b)'
    BY <2>3, <2>6, <2>12, <2>13, <2>14, <2>15 DEF Resent, Header
  <2> QED  BY <2>4, <2>16 DEF AnyPhase
<1>6. CASE MissACK(a)
  <2>1. /\ pc[a] = "poll" /\ ~RecvedACK[a] /\ Quiet /\ pc' = [pc EXCEPT ![a] = "lastsleep"]
        /\ rpc' = rpc /\ retry' = retry
    BY <1>1, <1>6 DEF MissACK, sendVars
  <2>2. Settled(a, b) /\ rpc[b] = "head" /\ target[a] = b
    BY <1>2, <2>1, QuietReady
  <2>3. retry[a] = 0
    <3>1. CASE Repeating(a)
      <4>1. Resent(a, b)
        BY <1>4, <2>1, <3>1 DEF AnyPhase, Missed, Asked, Again, Half
      <4>2. /\ net[b][a] = <<>> /\ net[a][b] = <<>>
        BY <1>1, <2>1 DEF Quiet
      <4> QED  BY <2>1, <2>2, <4>1, <4>2 DEF Resent
    <3>2. CASE ~Repeating(a)
      BY <1>1, <2>1, <3>2 DEF Repeating
    <3> QED  BY <3>1, <3>2
  <2>4. Settled(a, b)'
    BY <1>1, <2>1, <2>2 DEF Sending
  <2>5. Missed(a, b)'
    BY <1>1, <2>1, <2>2, <2>3 DEF Missed
  <2> QED  BY <2>4, <2>5 DEF AnyPhase
<1>7. CASE AskServer(a)
  <2> DEFINE ask == Dgram("P2PTRANS", wanted[a], 0)
  <2>1. /\ pc[a] = "lastsleep" /\ pc' = [pc EXCEPT ![a] = "pause"]
        /\ rpc' = rpc /\ retry' = retry /\ net' = Sent(net, a, Server, <<ask>>)
    BY <1>7 DEF AskServer, Transmit, sendVars
  <2>2. Settled(a, b)' /\ Missed(a, b)
    BY <1>1, <1>4, <2>1 DEF Repeating, AnyPhase, Asked, Again, Half, Resent
  <2>3. Server \in up
    BY <1>1, <1>2 DEF NodesInv
  <2>4. ask \in Datagram /\ ask.kind = "P2PTRANS"
    BY <1>1, DgramType DEF Request, Dgram
  <2> HIDE DEF ask
  <2>5. PICK ms \in Seq(Datagram) : ms = <<ask>> /\ Range(ms) = {ask}
    BY <2>4, OneDatagram
  <2>6. \A y, z \in Addr : Sent(net, a, Server, ms)[y][z] =
            IF y = a /\ z = Server /\ Server \in up THEN net[y][z] \o ms ELSE net[y][z]
    BY <1>1, SentPaths
  <2>7. net'[a][Server] = net[a][Server] \o ms
    BY <1>1, <2>1, <2>3, <2>5, <2>6
  <2>8. net[a][Server] \in Seq(Datagram)
    BY <1>1 DEF Paths
  <2>9. Range(net[a][Server] \o ms) = Range(net[a][Server]) \cup Range(ms)
    BY <2>8, RangeConcatenation
  <2>10. ask \in Range(net'[a][Server])
    BY <2>5, <2>7, <2>9
  <2>11. Called(a, b)'
    BY <2>4, <2>10 DEF Called
  <2>12. Asked(a, b)'
    BY <1>1, <2>1, <2>2, <2>11 DEF Missed, Asked
  <2> QED  BY <2>2, <2>12 DEF AnyPhase
<1>8. CASE Retry(a)
  <2>1. /\ pc[a] = "pause" /\ Quiet /\ pc' = [pc EXCEPT ![a] = "send"]
        /\ rpc' = rpc /\ retry' = [retry EXCEPT ![a] = @ + 1] /\ net' = net /\ hole' = hole
    BY <1>1, <1>8 DEF Retry, netVars
  <2>2. Settled(a, b)' /\ Asked(a, b)
    BY <1>1, <1>4, <2>1 DEF Repeating, AnyPhase, Missed, Again, Half, Resent
  <2>3. /\ \A s, d \in Addr : net[s][d] = <<>>
        /\ Range(<<>>) = {}
    BY <2>1 DEF Quiet, Range
  <2>4. Passes(a, b)
    BY <1>1, <2>2, <2>3 DEF Asked, Called
  <2>5. Passes(a, b)'
    BY <2>1, <2>4 DEF Passes
  <2>6. retry'[a] = 1
    BY <1>1, <2>1, <2>2 DEF Asked
  <2>7. Reachable(a, b)'
    BY <1>1, <2>1, <2>3, <2>5, <2>6 DEF Reachable
  <2>8. Again(a, b)'
    BY <1>1, <2>1, <2>2, <2>7 DEF Asked, Again
  <2> QED  BY <2>2, <2>8 DEF AnyPhase
<1> QED  BY <1>3, <1>5, <1>6, <1>7, <1>8, <1>9

LEMMA ReadsFrom ==
  ASSUME net \in Paths, NEW c \in Peer, NEW s, NEW r, NEW n, Reads(c, s, r, n)
  PROVE  /\ \A x, y \in Addr : y # c \/ x # s => n[x][y] = net[x][y]
         /\ s \in Addr => n[s][c] = RemoveAt(net[s][c], 1)
         /\ s \notin Addr => r = Failed
BY AddressesDistinct DEF Reads, Addr

(* What the sender reads.                                                  *)
LEMMA PhaseReadBySender ==
  ASSUME NEW a \in Peer, NEW b \in Peer, OneCaller(a, b), CallerInv(a, b), PhaseInv(a, b),
         NEW s \in Addr \cup {None}, NEW r \in Datagram \cup {Failed}, NEW n \in Paths,
         Reads(a, s, r, n),
         Settled(a, b) /\ pc[a] \in Sending /\ pc'[a] # "exited" => Settled(a, b)'
  PROVE  PhaseInv(a, b)'
<1> USE DEF At, Goto, LoggedIn
<1>1. /\ TypeInv /\ RolesInv(a) /\ RoundsInv(a) /\ TravelInv(a)
      /\ pc \in [Peer -> MainPc] /\ rpc \in [Peer -> RecvPc]
      /\ RecvedACK \in [Peer -> BOOLEAN]
      /\ Peer = {a, b} /\ a # b /\ net \in Paths
      /\ a \in Addr /\ b \in Addr /\ Server \in Addr /\ Server \notin {a, b}
      /\ Recv(a, s, r, n)
  BY AddressesDistinct DEF CallerInv, OneCaller, TypeInv, TypeOK, NetTypeOK, ClientTypeOK, Addr, Reads
<1> SUFFICES ASSUME pc'[b] # "exited", Repeating(a)'
             PROVE  /\ Settled(a, b)'
                    /\ AnyPhase(a, b)'
  BY DEF PhaseInv
<1>2. /\ pc'[b] = pc[b] /\ rpc'[b] = rpc[b] /\ retry' = retry /\ sends' = sends
      /\ pc'[a] = pc[a] \/ pc'[a] \in {"nodes", "cmd", "exited"}
  BY <1>1 DEF Recv, RecvLoginCount, RecvLoginNode, RecvHeader, RecvText, RecvUserCount, RecvUserNode,
     Terminate, sendVars, userVars
<1>3. pc'[a] = pc[a] /\ Repeating(a) /\ pc[a] \in Sending
  BY <1>2 DEF Repeating, Sending
<1>4. /\ Settled(a, b) /\ Settled(a, b)'
      /\ AnyPhase(a, b)
  BY <1>2, <1>3 DEF PhaseInv, Sending
<1>5. /\ TypeOf(r) = r.kind /\ r.kind # "P2PMESSAGE" /\ r.kind # "GETALLUSER"
      /\ r.kind # "P2PSOMEONEWANTTOCALLYOU"
  BY <1>1, <1>4, ReadKinds
<1>6. /\ net' = n /\ hole' = hole
      /\ RecvedACK'[a] = (RecvedACK[a] \/ r.kind = "P2PMESSAGEACK")
  <2>1. RecvHeader(a, r, n)
    BY <1>1, <1>3, <1>4 DEF Settled, Sending, Recv, RecvLoginCount, RecvLoginNode, RecvText,
       RecvUserCount, RecvUserNode
  <2>2. net' = n /\ hole' = hole
    BY <1>5, <2>1 DEF RecvHeader
  <2>3. IF r.kind = "P2PMESSAGEACK" THEN RecvedACK' = [RecvedACK EXCEPT ![a] = TRUE]
        ELSE RecvedACK' = RecvedACK
    BY <1>5, <2>1 DEF RecvHeader
  <2> QED  BY <1>1, <2>2, <2>3
<1>7. /\ \A x \in Addr, y \in Addr \ {a} : net'[x][y] = net[x][y]
      /\ s # b => net'[b][a] = net[b][a]
  BY <1>1, <1>6, ReadsFrom
<1>8. \A x, y \in Addr : Passes(x, y)' <=> Passes(x, y)
  BY <1>6 DEF Passes
<1>9. net'[a][Server] = net[a][Server] /\ net'[Server][b] = net[Server][b] /\ net'[a][b] = net[a][b]
  BY <1>1, <1>7
<1>10. CASE Missed(a, b)
  BY <1>2, <1>3, <1>4, <1>10 DEF Missed, AnyPhase
<1>11. CASE Asked(a, b)
  <2>1. Called(a, b)'
    BY <1>1, <1>8, <1>9, <1>11 DEF Asked, Called
  <2> QED  BY <1>2, <1>3, <1>4, <1>11, <2>1 DEF Asked, AnyPhase
<1>12. ASSUME Reachable(a, b)  PROVE Reachable(a, b)'
  BY <1>1, <1>2, <1>7, <1>8, <1>12 DEF Reachable
<1>13. CASE Again(a, b)
  BY <1>2, <1>3, <1>4, <1>12, <1>13 DEF Again, AnyPhase
<1>14. CASE Resent(a, b)
  <2>1. Text(a)' = Text(a) /\ Passes(b, a)'
    BY <1>1, <1>2, <1>8, <1>14 DEF Text, Resent
  <2>2. s = b /\ net[b][a] # <<>> => r.kind = "P2PMESSAGEACK"
    <3>1. SUFFICES ASSUME s = b, net[b][a] # <<>>  PROVE r.kind = "P2PMESSAGEACK"
      OBVIOUS
    <3>2. r = net[b][a][1]
      BY <1>1, <3>1, AddressesDistinct DEF Reads
    <3>3. net[b][a] = <<Ack>>
      <4>1. Told(a, b) /\ pc[a] = "poll"
        BY <1>1, <1>14 DEF RoundsInv, Resent
      <4>2. target[a] = b
        BY <1>1, <1>3, <4>1 DEF RolesInv, Sending
      <4> QED  BY <3>1, <4>1, <4>2 DEF Told, Waiting, Reading, Answered
    <3> QED  BY <3>2, <3>3 DEF Ack, Dgram
  <2>3. \/ RecvedACK'[a] \/ net'[b][a] # <<>> \/ rpc'[b] = "body"
        \/ net'[a][b] = <<Header, Text(a)>>
    BY <1>2, <1>6, <1>7, <1>9, <1>14, <2>2 DEF Resent
  <2>4. Resent(a, b)'
    BY <1>2, <1>3, <1>12, <1>14, <2>1, <2>3 DEF Resent
  <2> QED  BY <1>4, <2>4 DEF AnyPhase
<1>15. CASE Half(a, b)
  <2>1. Half(a, b)'
    BY <1>1, <1>2, <1>3, <1>8, <1>9, <1>12, <1>15 DEF Half, Header
  <2> QED  BY <1>4, <2>1 DEF AnyPhase
<1> QED  BY <1>4, <1>10, <1>11, <1>13, <1>14, <1>15 DEF AnyPhase

(* What the target reads.                                                  *)
LEMMA PhaseReadByTarget ==
  ASSUME NEW a \in Peer, NEW b \in Peer, OneCaller(a, b), CallerInv(a, b), PhaseInv(a, b),
         NEW s \in Addr \cup {None}, NEW r \in Datagram \cup {Failed}, NEW n \in Paths,
         Reads(b, s, r, n),
         Settled(a, b) /\ pc[a] \in Sending /\ pc'[b] # "exited" => Settled(a, b)'
  PROVE  PhaseInv(a, b)'
<1> USE DEF At, Goto, LoggedIn
<1>1. /\ TypeInv /\ RolesInv(a) /\ RoundsInv(a) /\ TravelInv(a) /\ ProcessInv
      /\ pc \in [Peer -> MainPc] /\ rpc \in [Peer -> RecvPc]
      /\ hole \in [Peer -> SUBSET Addr]
      /\ Peer = {a, b} /\ a # b /\ net \in Paths /\ up \in SUBSET Addr
      /\ a \in Addr /\ b \in Addr /\ Server \in Addr /\ Server \notin {a, b}
      /\ Recv(b, s, r, n)
  BY AddressesDistinct DEF CallerInv, OneCaller, TypeInv, TypeOK, NetTypeOK, ClientTypeOK, Addr, Reads
<1> SUFFICES ASSUME pc'[b] # "exited", Repeating(a)'
             PROVE  /\ Settled(a, b)'
                    /\ AnyPhase(a, b)'
  BY DEF PhaseInv
<1>2. /\ Frame(a) /\ retry' = retry /\ pc[b] # "exited" /\ hole'[a] = hole[a]
  <2>1. Frame(a) /\ hole'[a] = hole[a]
    BY <1>1, ReaderFrame
  <2>2. retry' = retry
    BY <1>1 DEF Recv, RecvLoginCount, RecvLoginNode, RecvHeader, RecvText, RecvUserCount,
       RecvUserNode, sendVars
  <2>3. rpc[b] = "none" => pc[b] # "exited"
    BY <1>1 DEF Recv, RecvLoginCount, RecvLoginNode, RecvHeader, RecvText, RecvUserCount,
       RecvUserNode
  <2>4. rpc[b] # "none" => pc[b] # "exited"
    BY <1>1 DEF RolesInv
  <2> QED  BY <2>1, <2>2, <2>3, <2>4
<1>3. Repeating(a) /\ pc[a] \in Sending /\ pc'[a] = pc[a]
  BY <1>2 DEF Repeating, Sending, Frame
<1>4. /\ Settled(a, b) /\ Settled(a, b)'
      /\ AnyPhase(a, b)
  BY <1>2, <1>3 DEF PhaseInv
<1>5. /\ TypeOf(r) = r.kind /\ r.kind # "GETALLUSER" /\ (r.kind = "P2PMESSAGE" => s = a)
      /\ r.kind = "P2PSOMEONEWANTTOCALLYOU" => r.who = a /\ pc[a] \in {"pause", "exited"}
  BY <1>1, <1>4, ReadKinds
<1>6. /\ \A x \in Addr, y \in Addr \ {b} : n[x][y] = net[x][y]
      /\ \A x \in Addr : x # s => n[x][b] = net[x][b]
      /\ s \in Addr => n[s][b] = RemoveAt(net[s][b], 1) /\ net[s][b] # <<>> /\ r = net[s][b][1]
      /\ s \notin Addr => r = Failed
  BY <1>1, ReadsFrom, AddressesDistinct DEF Reads, Addr
<1>7. \A x \in Addr \ {b}, y \in Addr : net'[x][y] = n[x][y]
  BY <1>1, RecvPaths
<1>8. ASSUME rpc[b] = "head"
      PROVE  /\ rpc'[b] = IF r.kind = "P2PMESSAGE" THEN "body" ELSE "head"
             /\ r.kind = "P2PSOMEONEWANTTOCALLYOU" => a \in hole'[b]
             /\ hole[b] \subseteq hole'[b]
             /\ r.kind # "P2PSOMEONEWANTTOCALLYOU" => net' = n
  <2>1. RecvHeader(b, r, n)
    BY <1>1, <1>4, <1>8 DEF Settled, Recv, RecvLoginCount, RecvLoginNode, RecvText, RecvUserCount,
       RecvUserNode
  <2> QED  BY <1>1, <1>5, <1>8, <2>1 DEF RecvHeader, Opened
<1>9. ASSUME rpc[b] = "body"
      PROVE  /\ rpc'[b] = "head" /\ hole[b] \subseteq hole'[b] /\ r # Failed
             /\ net' = Sent(n, b, s, <<Ack>>)
  <2>1. RecvText(b, s, r, n)
    BY <1>1, <1>4, <1>9 DEF Settled, Recv, RecvLoginCount, RecvLoginNode, RecvHeader, RecvUserCount,
       RecvUserNode
  <2>2. ~Terminate(b, n)
    BY <1>1 DEF Terminate
  <2> QED  BY <1>1, <1>9, <2>1, <2>2 DEF RecvText, Opened, Ack
<1>10. pc[a] \notin {"text", "poll"} => net[a][b] = <<>>
  BY <1>1, <1>3 DEF RoundsInv, Told, Untold, Sending
<1>11. pc[a] \notin {"text", "poll"} => r.kind # "P2PMESSAGE"
  BY <1>1, <1>5, <1>6, <1>10
<1>12. CASE Missed(a, b)
  BY <1>2, <1>3, <1>4, <1>8, <1>11, <1>12 DEF Missed, AnyPhase
<1>13. CASE Asked(a, b)
  <2>1. rpc[b] = "head" /\ pc[a] = "pause"
    BY <1>13 DEF Asked
  <2>2. rpc'[b] = "head"
    BY <1>8, <1>11, <2>1
  <2>3. Called(a, b)'
    <3>1. CASE Passes(a, b)
      BY <1>1, <1>8, <2>1, <3>1 DEF Called, Passes
    <3>2. net'[a][Server] = net[a][Server] /\ net'[Server][b] = n[Server][b]
      BY <1>1, <1>6, <1>7
    <3>3. ASSUME NEW m \in Range(net[a][Server]), m.kind = "P2PTRANS"
          PROVE  Called(a, b)'
      BY <3>2, <3>3 DEF Called
    <3>4. ASSUME NEW m \in Range(net[Server][b]), m.kind = "P2PSOMEONEWANTTOCALLYOU"
          PROVE  Called(a, b)'
      <4>1. CASE s # Server
        <5>1. net'[Server][b] = net[Server][b]
          BY <1>1, <1>6, <3>2, <4>1
        <5> QED  BY <3>4, <5>1 DEF Called
      <4>2. CASE s = Server /\ m = r
        <5>1. a \in hole'[b]
          BY <1>8, <2>1, <3>4, <4>2
        <5> QED  BY <1>1, <5>1 DEF Called, Passes
      <4>3. CASE s = Server /\ m # r
        <5>1. PICK q \in Seq(Datagram) : q = net[Server][b]
          BY <1>1 DEF Paths
        <5>2. 1 \in DOMAIN q /\ m # q[1]
          BY <1>1, <1>6, <4>3, <5>1, EmptySeq, LenProperties
        <5>3. m \in Range(RemoveAt(q, 1))
          BY <3>4, <5>1, <5>2, RangeStays
        <5>4. net'[Server][b] = RemoveAt(q, 1)
          BY <1>1, <1>6, <3>2, <4>3, <5>1
        <5> QED  BY <3>4, <5>3, <5>4 DEF Called
      <4> QED  BY <4>1, <4>2, <4>3
    <3> QED  BY <1>13, <3>1, <3>3, <3>4 DEF Asked, Called
  <2> QED  BY <1>2, <1>3, <1>4, <1>13, <2>2, <2>3 DEF Asked, AnyPhase
<1>14. ASSUME Reachable(a, b), \A x \in Addr \ {a} : net'[x][b] = net[x][b],
              hole[b] \subseteq hole'[b]
       PROVE  Reachable(a, b)'
  BY <1>1, <1>2, <1>14 DEF Reachable, Passes
<1>15. CASE Again(a, b)
  <2>1. rpc[b] = "head" /\ Reachable(a, b) /\ pc[a] = "send"
    BY <1>15 DEF Again
  <2>2. s \notin Addr /\ r = Failed
    BY <1>6, <1>10, <2>1 DEF Reachable
  <2>3. net' = n /\ hole[b] \subseteq hole'[b] /\ rpc'[b] = "head"
    BY <1>8, <2>1, <2>2 DEF Failed, Dgram
  <2>4. \A x \in Addr \ {a} : net'[x][b] = net[x][b]
    BY <1>1, <1>6, <2>2, <2>3
  <2> QED  BY <1>3, <1>4, <1>14, <2>1, <2>3, <2>4 DEF Again, AnyPhase
<1>16. CASE Resent(a, b)
  <2>1. /\ pc[a] = "poll" /\ Reachable(a, b) /\ rpc[b] \in {"head", "body"} /\ Passes(b, a)
        /\ \/ RecvedACK[a] \/ net[b][a] # <<>> \/ rpc[b] = "body"
           \/ net[a][b] = <<Header, Text(a)>>
    BY <1>16 DEF Resent
  <2>2. Waiting(a, b) \/ Reading(a, b) \/ Answered(a, b)
    <3>1. target[a] = b
      BY <1>1, <2>1 DEF RolesInv, Sending
    <3> QED  BY <1>1, <2>1, <3>1 DEF RoundsInv, Told
  <2>3. RecvedACK'[a] = RecvedACK[a] /\ Text(a)' = Text(a) /\ Passes(b, a)'
    BY <1>1, <1>2, <2>1 DEF Frame, Text, Passes
  <2>4. s \in Addr => s = a
    BY <1>6, <2>1 DEF Reachable
  <2>5. CASE s \notin Addr
    <3>1. r = Failed /\ rpc[b] = "head"
      BY <1>6, <1>9, <2>1, <2>5
    <3>2. net' = n /\ rpc'[b] = "head" /\ hole[b] \subseteq hole'[b]
      BY <1>8, <3>1 DEF Failed, Dgram
    <3>3. \A x, y \in Addr : net'[x][y] = net[x][y]
      BY <1>1, <1>6, <2>5, <3>2
    <3>4. Reachable(a, b)'
      BY <1>1, <1>14, <2>1, <3>2, <3>3
    <3>5. Resent(a, b)'
      BY <1>1, <1>3, <2>1, <2>3, <3>1, <3>2, <3>3, <3>4 DEF Resent
    <3> QED  BY <1>4, <3>5 DEF AnyPhase
  <2>6. CASE s = a /\ rpc[b] = "head"
    <3>1. net[a][b] # <<>> /\ r = net[a][b][1]
      BY <1>1, <1>6, <2>6
    <3>2. net[a][b] = <<Header, Text(a)>>
      BY <1>2, <2>1, <2>2, <2>6, <3>1 DEF Waiting, Reading, Answered
    <3>3. r.kind = "P2PMESSAGE"
      BY <3>1, <3>2 DEF Header, Dgram
    <3>4. net' = n /\ rpc'[b] = "body" /\ hole[b] \subseteq hole'[b]
      BY <1>8, <2>6, <3>3
    <3>5. \A x \in Addr \ {a} : net'[x][b] = net[x][b]
      BY <1>1, <1>6, <2>6, <3>4
    <3>6. Reachable(a, b)'
      BY <1>14, <2>1, <3>4, <3>5
    <3>7. Resent(a, b)'
      BY <1>3, <2>1, <2>3, <3>4, <3>6 DEF Resent
    <3> QED  BY <1>4, <3>7 DEF AnyPhase
  <2>7. CASE s = a /\ rpc[b] = "body"
    <3>1. /\ rpc'[b] = "head" /\ hole[b] \subseteq hole'[b]
          /\ net' = Sent(n, b, a, <<Ack>>)
      BY <1>9, <2>7
    <3>2. Ack \in Datagram
      BY DgramType DEF PeerMsg, Ack
    <3>3. PICK ms \in Seq(Datagram) : ms = <<Ack>> /\ Len(ms) = 1
      BY <3>2, OneDatagram
    <3>4. \A y, z \in Addr : Sent(n, b, a, ms)[y][z] =
             IF y = b /\ z = a /\ a \in up THEN n[y][z] \o ms ELSE n[y][z]
      BY <1>1, SentPaths
    <3>5. a \in up
      BY <1>1, <2>1 DEF ProcessInv
    <3>6. /\ net'[b][a] = n[b][a] \o ms
          /\ \A x \in Addr : net'[x][b] = n[x][b]
      BY <1>1, <3>1, <3>3, <3>4, <3>5
    <3>7. net'[b][a] # <<>>
      <4>1. n[b][a] \in Seq(Datagram)
        BY <1>1 DEF Paths
      <4> QED  BY <3>3, <3>6, <4>1, ConcatProperties, LenProperties, EmptySeq
    <3>8. \A x \in Addr \ {a} : net'[x][b] = net[x][b]
      BY <1>1, <1>6, <2>7, <3>6
    <3>9. Reachable(a, b)'
      BY <1>14, <2>1, <3>1, <3>8
    <3>10. Resent(a, b)'
      BY <1>3, <2>1, <2>3, <3>1, <3>7, <3>9 DEF Resent
    <3> QED  BY <1>4, <3>10 DEF AnyPhase
  <2> QED  BY <2>1, <2>4, <2>5, <2>6, <2>7
<1>17. CASE Half(a, b)
  <2>1. /\ pc[a] = "text" /\ Reachable(a, b) /\ Passes(b, a)
        /\ \/ rpc[b] = "head" /\ net[a][b] = <<Header>>
           \/ rpc[b] = "body" /\ net[a][b] = <<>>
    BY <1>17 DEF Half
  <2>2. Header \in Datagram /\ <<Header>> # <<>> /\ <<Header>>[1] = Header
        /\ RemoveAt(<<Header>>, 1) = <<>>
    <3>1. Header \in Datagram
      BY DgramType DEF PeerMsg, Header
    <3> QED  BY <3>1, ShortPaths
  <2>3. s \in Addr => s = a
    BY <1>6, <2>1 DEF Reachable
  <2>4. rpc[b] = "head"
    BY <1>6, <1>9, <2>1, <2>3
  <2>5. net' = n /\ hole[b] \subseteq hole'[b] /\ Passes(b, a)'
        /\ rpc'[b] = IF s = a THEN "body" ELSE "head"
    <3>1. CASE s = a
      <4>1. r = Header
        BY <1>1, <1>6, <2>1, <2>2, <2>4, <3>1
      <4> QED  BY <1>1, <1>2, <1>8, <2>1, <2>4, <3>1, <4>1 DEF Header, Dgram, Passes
    <3>2. CASE s \notin Addr
      <4>1. r = Failed
        BY <1>6, <3>2
      <4> QED  BY <1>1, <1>2, <1>8, <2>1, <2>4, <3>2, <4>1 DEF Failed, Dgram, Passes
    <3> QED  BY <2>3, <3>1, <3>2
  <2>6. \A x \in Addr \ {a} : net'[x][b] = net[x][b]
    BY <1>1, <1>6, <2>3, <2>5
  <2>7. net'[a][b] = IF s = a THEN <<>> ELSE <<Header>>
    BY <1>1, <1>6, <2>1, <2>2, <2>4, <2>5
  <2>8. Reachable(a, b)'
    BY <1>14, <2>1, <2>5, <2>6
  <2>9. Half(a, b)'
    BY <1>3, <2>1, <2>5, <2>7, <2>8 DEF Half, Header
  <2> QED  BY <1>4, <2>9 DEF AnyPhase
<1> QED  BY <1>4, <1>12, <1>13, <1>15, <1>16, <1>17 DEF AnyPhase

LEMMA PhaseNext ==
  ASSUME NEW a \in Peer, NEW b \in Peer, OneCaller(a, b), CallerInv(a, b), CallerInv(a, b)',
         PhaseInv(a, b), [Next]_vars
  PROVE  PhaseInv(a, b)'
<1>1. /\ TypeInv /\ RolesInv(a) /\ ProcessInv /\ Benign /\ Peer = {a, b} /\ a # b
      /\ \A x \in Peer : pc[x] = "exited" => pc'[x] = "exited"
  BY EndsStay DEF CallerInv, OneCaller
<1> SUFFICES ASSUME pc'[b] # "exited", Repeating(a)'  PROVE PhaseInv(a, b)'
  BY DEF PhaseInv
<1>2. pc[b] # "exited" /\ pc'[a] # "exited"
  BY <1>1 DEF Repeating
<1>3. Settled(a, b) /\ pc[a] \in Sending => Settled(a, b)'
  BY <1>2, SettledStays
<1>4. ASSUME pc' = pc, retry' = retry
      PROVE  Repeating(a) /\ Settled(a, b)'
  <2>1. Repeating(a)
    BY <1>4 DEF Repeating
  <2> QED  BY <1>2, <1>3, <2>1 DEF PhaseInv, Repeating, Sending
<1>5. CASE ServerStep
  BY <1>2, <1>4, <1>5, PhaseServer DEF ServerStep, clientVars, threadVars, sendVars
<1>6. CASE NetStep
  BY <1>2, <1>4, <1>6, PhaseDrop DEF NetStep, clientVars, threadVars, sendVars
<1>7. ASSUME NEW c \in Peer, Command(c) \/ Main(c)
      PROVE  PhaseInv(a, b)'
  <2>1. CASE c = a
    BY <1>3, <1>7, <2>1, PhaseSender
  <2>2. CASE c = b
    <3>1. retry'[a] = retry[a] /\ pc'[a] = pc[a]
      BY <1>1, <1>7, <2>2 DEF TypeInv, TypeOK, ClientTypeOK, At, Goto, Command, Main, SendLogin, Exit,
         GetUsers, SendCommand, FindUser, NotFound, SendHeader, SendText, GiveUp, SeeACK, MissACK,
         AskServer, Retry, Terminate, threadVars, sendVars
    <3>2. Repeating(a)
      BY <3>1 DEF Repeating
    <3>3. pc[b] = "cmd"
      BY <1>2, <3>2 DEF PhaseInv, Settled
    <3>4. pc'[b] = "cmd" => c = a
      BY <1>1, <1>7, <3>3, IdleStays
    <3>5. pc'[b] \in {"cmd", "exited"}
      BY <1>1, <1>7, <3>3, IdleStays
    <3> QED  BY <1>1, <2>2, <3>4, <3>5
  <2> QED  BY <1>1, <2>1, <2>2
<1>8. ASSUME NEW c \in Peer, RecvDatagram(c) \/ RecvFails(c)
      PROVE  PhaseInv(a, b)'
  <2>1. PICK s \in Addr \cup {None}, r \in Datagram \cup {Failed}, n \in Paths : Reads(c, s, r, n)
    BY <1>1, <1>8, ReadStep
  <2>2. CASE c = a
    BY <1>3, <2>1, <2>2, PhaseReadBySender
  <2>3. CASE c = b
    BY <1>3, <2>1, <2>3, PhaseReadByTarget
  <2> QED  BY <1>1, <2>2, <2>3
<1>9. CASE UNCHANGED vars
  BY <1>9 DEF vars, netVars, clientVars, threadVars, sendVars, userVars, history, PhaseInv, Repeating,
     Settled, Calm, AnyPhase, Missed, Asked, Called, Again, Half, Reachable, Resent, Passes,
     Text, Header
<1> QED  BY <1>5, <1>6, <1>7, <1>8, <1>9 DEF Next, ClientStep

(* A round after the last is never needed for a target that is there,      *)
(* where two clients run, one of which sends, and nothing is lost on the   *)
(* way: when SendMessageTo gives up because every round was missed, the    *)
(* target has gone.  A message its translator blocked or its login         *)
(* swallowed gets through the second time, once the server had it call     *)
(* back (SendMessageTo, case P2PTRANS of the server, case                  *)
(* P2PSOMEONEWANTTOCALLYOU of RecvThreadProc).  The other "Send Failure!", *)
(* of a name the list does not have, is not what this is about.            *)
THEOREM LastRoundIsGone ==
  ASSUME NEW a \in Peer, NEW b \in Peer, OneCaller(a, b)
  PROVE  Spec => LastRoundMeansGone
<1> DEFINE Inv == CallerInv(a, b) /\ PhaseInv(a, b)
<1>1. Init => Inv
  <2> SUFFICES ASSUME Init  PROVE CallerInv(a, b) /\ PhaseInv(a, b)
    OBVIOUS
  <2>1. pc[a] = "start"
    BY DEF Init, ClientInit
  <2> QED  BY <2>1, CallerInit DEF PhaseInv, Repeating
<1>2. Inv /\ [Next]_vars => Inv'
  BY CallerNext, PhaseNext
<1>3. ASSUME Inv, [Next]_vars
      PROVE  [\A c \in Peer : GiveUp(c) => target[c] \notin up]_vars
  <2> SUFFICES ASSUME NEW c \in Peer, GiveUp(c)  PROVE target[c] \notin up
    OBVIOUS
  <2>1. pc[c] = "send" /\ retry[c] = MAXRETRY
    BY DEF GiveUp, At
  <2>2. /\ RolesInv(a) /\ ProcessInv /\ retry[a] \in Nat /\ MAXRETRY >= 2 /\ Peer = {a, b}
    BY <1>3, ClientBounds DEF CallerInv, OneCaller, TypeInv, TypeOK, ClientTypeOK
  <2>3. c = a /\ target[a] = b
    BY <2>1, <2>2 DEF RolesInv, Sending
  <2>4. retry[a] > 1 /\ retry[a] > 0
    BY <2>1, <2>2, <2>3, ClientBounds
  <2>5. Repeating(a) /\ ~AnyPhase(a, b)
    BY <2>1, <2>3, <2>4 DEF Repeating, AnyPhase, Missed, Asked, Again, Half, Reachable, Resent
  <2>6. pc[b] = "exited"
    BY <1>3, <2>5 DEF PhaseInv
  <2> QED  BY <2>2, <2>3, <2>6 DEF ProcessInv
<1> HIDE DEF Inv
<1> QED
  BY <1>1, <1>2, <1>3, PTL DEF Spec, LastRoundMeansGone
=============================================================================
