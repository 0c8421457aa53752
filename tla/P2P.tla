-------------------------------- MODULE P2P ---------------------------------
(***************************************************************************)
(* UDP hole punching: one P2PServer and the P2PClient processes that log   *)
(* in to it, over the network of P2PNet.                                   *)
(***************************************************************************)
EXTENDS P2PServer, P2PClient

vars == <<netVars, ClientList, clientVars>>

TypeOK == NetTypeOK /\ ServerTypeOK /\ ClientTypeOK

Init == NetInit /\ ServerInit /\ ClientInit

ServerStep == \E c \in Peer : ServerNext(c) /\ UNCHANGED clientVars
ClientStep(c) == (Command(c) \/ Main(c) \/ RecvDatagram(c) \/ RecvFails(c))
                 /\ UNCHANGED ClientList
NetStep == \E s, d \in Addr : \E i \in DOMAIN net[s][d] :
             Drop(s, d, i) /\ UNCHANGED <<ClientList, clientVars>>

Next == ServerStep \/ NetStep \/ \E c \in Peer : ClientStep(c)

Spec == Init /\ [][Next]_vars

(* The server's loop and the clients' threads are scheduled; a user need   *)
(* never type a command.  What a translator blocks does not stay on its    *)
(* path for ever; losing anything else is not owed.                        *)
Blocked == \E s, d \in Addr : \E i \in DOMAIN net[s][d] :
             ~Passes(s, d) /\ Drop(s, d, i) /\ UNCHANGED <<ClientList, clientVars>>
Fairness ==
  /\ WF_vars(ServerStep) /\ WF_vars(Blocked)
  /\ \A c \in Peer : /\ WF_vars(Main(c) /\ UNCHANGED ClientList)
                     /\ WF_vars(RecvDatagram(c) /\ UNCHANGED ClientList)

FairSpec == Spec /\ Fairness

-----------------------------------------------------------------------------
(* The server's list as a directory: who is in it, and who is gone.        *)
Directory == INSTANCE P2PDirectory WITH
               members <- Range(ClientList),
               gone <- {c \in Peer : pc[c] = "exited"}

(* The server's list implements the directory: a LOGIN adds its sender     *)
(* once, a LOGOUT takes out nobody but a process that has exited.          *)
ListIsDirectory == Directory!Spec

LoggedInPc == MainPc \ {"start", "count", "exited"}

(* A client past ConnectToServer's count stays in the server's list for as *)
(* long as it runs, whatever requests of others arrive, late or never.     *)
LoggedInListed ==
  \A c \in Peer : pc[c] \in LoggedInPc => c \in Range(ClientList)

(* Why: the list has no node twice; a LOGIN under way is the only one and  *)
(* its sender is not listed yet; a LOGOUT under way names a process that   *)
(* has ended; replies and requests for the list are under way only for     *)
(* processes that are listed or have ended.                                *)
Listed(c) == c \in Range(ClientList)
ListedOrGone(c) == Listed(c) \/ pc[c] = "exited"
OneLogin(q) == \A i, j \in DOMAIN q :
                 q[i].kind = "LOGIN" /\ q[j].kind = "LOGIN" => i = j
NoDuplicates == \A i, j \in DOMAIN ClientList :
                  ClientList[i] = ClientList[j] => i = j
RequestsInv(c) ==
  /\ OneLogin(net[c][Server])
  /\ \A m \in Range(net[c][Server]) :
       /\ m.kind = "LOGIN" => pc[c] # "start" /\ ~Listed(c)
       /\ m.kind = "LOGOUT" => pc[c] = "exited" /\ m.who = NameOf[c]
       /\ m.kind = "GETALLUSER" => ListedOrGone(c)
AnswersInv(c) ==
  /\ \A m \in Range(net[Server][c]) : IsInt(m) => ListedOrGone(c)
  /\ \A s \in Peer : \A m \in Range(net[s][c]) : ~IsInt(m)
DirectoryInv ==
  /\ NoDuplicates /\ LoggedInListed
  /\ \A c \in Peer : /\ pc[c] = "start" => ~Listed(c)
                     /\ RequestsInv(c) /\ AnswersInv(c)

(* "Send OK!" is printed at most once for every datagram of this client    *)
(* that somebody read as a text: an answer is never counted twice, however *)
(* late it comes and however many rounds it outlives.                      *)
OkaysEarned == \A c \in Peer : okays[c] <= eaten[c]

(* SendMessageTo returns, whatever the network and the server do.          *)
SendReturns == \A c \in Peer : pc[c] = "find" ~> pc[c] \in {"cmd", "exited"}

(* "Send OK!" is printed when the text is on the target's screen: the      *)
(* answer that sets RecvedACK is the answer to the message sent.           *)
OkMeansShown ==
  [][\A c \in Peer : SeeACK(c) => <<c, sends[c]>> \in shown[target[c]]]_vars

(* "Send Failure!" after the last round means that the target has gone,    *)
(* though its translator let nothing in at first: hole punching works.     *)
LastRoundMeansGone ==
  [][\A c \in Peer : GiveUp(c) => target[c] \notin up]_vars

(* "Send Failure!" at once means that nobody who runs has the name and was *)
(* in the server's list before the caller: of those who came later the     *)
(* caller's list need not know.  It may also know less than it did while   *)
(* "getu" has it read anew, or after a datagram that was none, or an       *)
(* error, was read as a node.                                              *)
Before(d, c) == \E i, j \in DOMAIN ClientList :
                  i < j /\ ClientList[i] = d /\ ClientList[j] = c
ListComplete(c) == rpc[c] # "unodes" /\ None \notin Range(list[c])

NoNodeMeansAbsent ==
  [][\A c \in Peer : NotFound(c) /\ ListComplete(c) =>
       \A d \in up \cap Peer : Before(d, c) => NameOf[d] # wanted[c]]_vars

=============================================================================
