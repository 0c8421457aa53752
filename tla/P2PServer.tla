----------------------------- MODULE P2PServer ------------------------------
(***************************************************************************)
(* P2PServer.cpp: one thread that receives a request, handles it to the    *)
(* end and receives the next one.  A node of ClientList is the address it  *)
(* holds; its userName is the name of the process at that address.         *)
(***************************************************************************)
EXTENDS P2PNet

VARIABLE ClientList

ServerInit == ClientList = <<>>

ServerTypeOK == ClientList \in Seq(Peer)

(* Mutant of Matches: strcmp's result is not compared with 0.              *)
MatchesAny(l, name) == DOMAIN l

(* The positions of the nodes a name matches, in the order of the list.    *)
Matches(l, name) == {i \in DOMAIN l : NameOf[l[i]] = name}
IsFirst(k, S) == k \in S /\ \A j \in S : k <= j

(* Mutant of Listing: the iterator is moved on before the first node.      *)
ListingFromSecond(l) ==
  <<Dgram("COUNT", None, Len(l) - 1)>>
  \o [i \in 1 .. Len(l) - 1 |-> Dgram("NODE", l[i + 1], 0)]

(* The node count, then one datagram per node.                             *)
Listing(l) == <<Dgram("COUNT", None, Len(l))>>
              \o [i \in DOMAIN l |-> Dgram("NODE", l[i], 0)]

(* case LOGIN: append a node for the sender, whatever the list holds, and  *)
(* answer with the whole list.                                             *)
Login(c, i) ==
  /\ net[c][Server][i].kind = "LOGIN"
  /\ ClientList' = Append(ClientList, c)
  /\ net' = Sent(Taken(c, Server, i), Server, c, Listing(ClientList'))
  /\ UNCHANGED <<up, hole>>

(* case LOGOUT: remove the first node that has the name in the request.    *)
Logout(c, i) ==
  /\ net[c][Server][i].kind = "LOGOUT"
  /\ LET found == Matches(ClientList, net[c][Server][i].who)
     IN IF found = {}
        THEN ClientList' = ClientList
        ELSE \E k \in DOMAIN ClientList :
               IsFirst(k, found) /\ ClientList' = RemoveAt(ClientList, k)
  /\ net' = Taken(c, Server, i)
  /\ UNCHANGED <<up, hole>>

(* Mutant of P2PTrans: the call goes back to the client that asked for it. *)
P2PTransSwapped(c, i) ==
  /\ net[c][Server][i].kind = "P2PTRANS"
  /\ LET found == Matches(ClientList, net[c][Server][i].who)
     IN IF found # {}
        THEN /\ \E k \in DOMAIN ClientList :
                  /\ IsFirst(k, found)
                  /\ net' = Sent(Taken(c, Server, i), Server, c,
                                 <<Dgram("P2PSOMEONEWANTTOCALLYOU",
                                         ClientList[k], 0)>>)
             /\ up' = up
        ELSE /\ net' = Closed(net, Server)
             /\ up' = up \ {Server}
  /\ UNCHANGED <<hole, ClientList>>

(* case P2PTRANS: tell the first node of that name who wants to call it.   *)
(* GetUser throws when there is none, and the try block that catches the   *)
(* exception is outside the main loop: the server returns.                 *)
P2PTrans(c, i) ==
  /\ net[c][Server][i].kind = "P2PTRANS"
  /\ LET found == Matches(ClientList, net[c][Server][i].who)
         call  == Dgram("P2PSOMEONEWANTTOCALLYOU", c, 0)
     IN IF found # {}
        THEN /\ \E k \in DOMAIN ClientList :
                  /\ IsFirst(k, found)
                  /\ net' = Sent(Taken(c, Server, i), Server,
                                 ClientList[k], <<call>>)
             /\ up' = up
        ELSE /\ net' = Closed(net, Server)
             /\ up' = up \ {Server}
  /\ UNCHANGED <<hole, ClientList>>

(* case GETALLUSER: the command, the count and the nodes.                  *)
GetAllUser(c, i) ==
  /\ net[c][Server][i].kind = "GETALLUSER"
  /\ net' = Sent(Taken(c, Server, i), Server, c,
                 <<Dgram("GETALLUSER", None, 0)>> \o Listing(ClientList))
  /\ UNCHANGED <<up, hole, ClientList>>

(* A datagram of any other type matches no case of the switch.             *)
ServerIgnores(c, i) ==
  /\ net[c][Server][i].kind \notin Request
  /\ net' = Taken(c, Server, i)
  /\ UNCHANGED <<up, hole, ClientList>>

ServerNext(c) ==
  \E i \in Receivable(c, Server) :
    \/ Login(c, i) \/ Logout(c, i) \/ P2PTrans(c, i)
    \/ GetAllUser(c, i) \/ ServerIgnores(c, i)

=============================================================================
