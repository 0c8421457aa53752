----------------------------- MODULE P2PClient ------------------------------
(***************************************************************************)
(* P2PClient.cpp: the main thread logs in, then obeys the user's commands; *)
(* RecvThreadProc receives whatever arrives.  The two threads share the    *)
(* socket, ClientList and RecvedACK, and no lock.                          *)
(***************************************************************************)
EXTENDS P2PNet

CONSTANTS
  MAXRETRY,    \* attempts of one SendMessageTo
  MaxSend,     \* bound: "send" commands of each client
  MaxGetu,     \* bound: "getu" commands of each client
  Timely,      \* TRUE: a Sleep outlasts every datagram under way
  RecvErrors   \* TRUE: recvfrom may fail

ASSUME ClientBounds == /\ MAXRETRY \in Nat \ {0}
                       /\ MaxSend \in [Peer -> Nat]
                       /\ MaxGetu \in [Peer -> Nat]
                       /\ Timely \in BOOLEAN /\ RecvErrors \in BOOLEAN

VARIABLES
  pc,          \* where the main thread is
  rpc,         \* which recvfrom the receive thread is in
  list,        \* the client's own ClientList
  left,        \* nodes still to be received of the reply being read
  RecvedACK,
  wanted,      \* SendMessageTo: the name, the address found, the attempts left
  target,
  retry,
  sends,       \* "send" and "getu" commands so far
  getus,
  shown,       \* the texts displayed: who displayed whose message number
  eaten,       \* datagrams of each peer that were read as a text and answered
  okays        \* "Send OK!" lines so far

threadVars == <<pc, rpc, list, left>>
sendVars   == <<RecvedACK, wanted, target, retry>>
userVars   == <<sends, getus>>
history    == <<shown, eaten, okays>>
clientVars == <<threadVars, sendVars, userVars, history>>

MainPc == {"start", "count", "nodes", "cmd", "find", "send", "text", "poll",
           "lastsleep", "pause", "exited"}
RecvPc == {"none", "head", "body", "ucount", "unodes"}

ClientTypeOK ==
  /\ pc \in [Peer -> MainPc] /\ rpc \in [Peer -> RecvPc]
  /\ list \in [Peer -> Seq(Peer \cup {None})]
  /\ left \in [Peer -> Nat]
  /\ RecvedACK \in [Peer -> BOOLEAN]
  /\ wanted \in [Peer -> Name \cup {None}]
  /\ target \in [Peer -> Peer \cup {None}]
  /\ retry \in [Peer -> 0..MAXRETRY]
  /\ sends \in [Peer -> Nat] /\ getus \in [Peer -> Nat]
  /\ shown \in [Peer -> SUBSET (Peer \X Nat)]
  /\ eaten \in [Peer -> Nat] /\ okays \in [Peer -> Nat]

ClientInit ==
  /\ pc = [c \in Peer |-> "start"] /\ rpc = [c \in Peer |-> "none"]
  /\ list = [c \in Peer |-> <<>>] /\ left = [c \in Peer |-> 0]
  /\ RecvedACK = [c \in Peer |-> FALSE]
  /\ wanted = [c \in Peer |-> None] /\ target = [c \in Peer |-> None]
  /\ retry = [c \in Peer |-> 0]
  /\ sends = [c \in Peer |-> 0] /\ getus = [c \in Peer |-> 0]
  /\ shown = [c \in Peer |-> {}]
  /\ eaten = [c \in Peer |-> 0] /\ okays = [c \in Peer |-> 0]

At(c, l) == pc[c] = l
Goto(c, l) == pc' = [pc EXCEPT ![c] = l]

(* sendto from c to d of the datagrams ms, in this order.                  *)
Transmit(c, d, ms) ==
  /\ net' = Sent(net, c, d, ms)
  /\ hole' = Opened(c, {d})
  /\ up' = up

(* The process of c ends: its socket closes and both its threads stop.     *)
Terminate(c, n) ==
  /\ net' = Closed(n, c)
  /\ up' = up \ {c}
  /\ pc' = [pc EXCEPT ![c] = "exited"]
  /\ rpc' = [rpc EXCEPT ![c] = "none"]

-----------------------------------------------------------------------------
(* The main thread.                                                        *)

(* ConnectToServer sends the name and blocks for the count.                *)
SendLogin(c) ==
  /\ At(c, "start") /\ Goto(c, "count")
  /\ Transmit(c, Server, <<Dgram("LOGIN", NameOf[c], 0)>>)
  /\ UNCHANGED <<rpc, list, left, sendVars, userVars, history>>

(* "exit": LOGOUT is sent once, unacknowledged, and the process ends.      *)
Exit(c) ==
  /\ At(c, "cmd")
  /\ Terminate(c, Sent(net, c, Server, <<Dgram("LOGOUT", NameOf[c], 0)>>))
  /\ hole' = Opened(c, {Server})
  /\ UNCHANGED <<list, left, sendVars, userVars, history>>

(* "getu": the request; the receive thread reads the reply.                *)
GetUsers(c) ==
  /\ At(c, "cmd") /\ getus[c] < MaxGetu[c]
  /\ getus' = [getus EXCEPT ![c] = @ + 1]
  /\ Transmit(c, Server, <<Dgram("GETALLUSER", None, 0)>>)
  /\ UNCHANGED <<threadVars, sendVars, sends, history>>

(* "send": SendMessageTo starts to walk the list for the name.             *)
SendCommand(c, name) ==
  /\ At(c, "cmd") /\ sends[c] < MaxSend[c]
  /\ sends' = [sends EXCEPT ![c] = @ + 1]
  /\ wanted' = [wanted EXCEPT ![c] = name]
  /\ Goto(c, "find")
  /\ UNCHANGED <<rpc, list, left, RecvedACK, target, retry, getus, history,
                 netVars>>

(* The walk does not stop at a match: the last node of that name counts.   *)
Matching(c) == {i \in DOMAIN list[c] :
                  list[c][i] # None /\ NameOf[list[c][i]] = wanted[c]}

FindUser(c) ==
  /\ At(c, "find") /\ Goto(c, "send")
  /\ \E k \in Matching(c) : /\ \A j \in Matching(c) : k >= j
                             /\ target' = [target EXCEPT ![c] = list[c][k]]
  /\ retry' = [retry EXCEPT ![c] = 0]
  /\ UNCHANGED <<rpc, list, left, RecvedACK, wanted, userVars, history,
                 netVars>>

(* No node has the name: "Send Failure!" without a datagram.               *)
NotFound(c) ==
  /\ At(c, "find") /\ Matching(c) = {} /\ Goto(c, "cmd")
  /\ UNCHANGED <<rpc, list, left, sendVars, userVars, history, netVars>>

(* Mutants of SendHeader: the flag is not cleared; one round too many.     *)
SendHeaderKeepingACK(c) ==
  /\ At(c, "send") /\ retry[c] < MAXRETRY /\ Goto(c, "text")
  /\ Transmit(c, target[c], <<Dgram("P2PMESSAGE", None, 0)>>)
  /\ UNCHANGED <<rpc, list, left, sendVars, userVars, history>>
SendHeaderOnceMore(c) ==
  /\ At(c, "send") /\ retry[c] <= MAXRETRY /\ Goto(c, "text")
  /\ RecvedACK' = [RecvedACK EXCEPT ![c] = FALSE]
  /\ Transmit(c, target[c], <<Dgram("P2PMESSAGE", None, 0)>>)
  /\ UNCHANGED <<rpc, list, left, wanted, target, retry, userVars, history>>

(* One round of the retry loop: the flag is cleared, then the header goes  *)
(* out, then the text; the receive thread may send in between.             *)
SendHeader(c) ==
  /\ At(c, "send") /\ retry[c] < MAXRETRY /\ Goto(c, "text")
  /\ RecvedACK' = [RecvedACK EXCEPT ![c] = FALSE]
  /\ Transmit(c, target[c], <<Dgram("P2PMESSAGE", None, 0)>>)
  /\ UNCHANGED <<rpc, list, left, wanted, target, retry, userVars, history>>

SendText(c) ==
  /\ At(c, "text") /\ Goto(c, "poll")
  /\ Transmit(c, target[c], <<Dgram("BODY", c, sends[c])>>)
  /\ UNCHANGED <<rpc, list, left, sendVars, userVars, history>>

(* Every round was missed: "Send Failure!"                                 *)
GiveUp(c) ==
  /\ At(c, "send") /\ retry[c] = MAXRETRY /\ Goto(c, "cmd")
  /\ UNCHANGED <<rpc, list, left, sendVars, userVars, history, netVars>>

(* One of the ten looks at the flag finds it set: "Send OK!"               *)
SeeACK(c) ==
  /\ At(c, "poll") /\ RecvedACK[c] /\ Goto(c, "cmd")
  /\ okays' = [okays EXCEPT ![c] = @ + 1]
  /\ UNCHANGED <<rpc, list, left, sendVars, userVars, shown, eaten, netVars>>

(* The tenth look does not; it is followed by one more Sleep(300), during  *)
(* which the flag may be set and is not looked at any more.                *)
MissACK(c) ==
  /\ At(c, "poll") /\ ~RecvedACK[c] /\ Goto(c, "lastsleep")
  /\ Timely => Quiet
  /\ UNCHANGED <<rpc, list, left, sendVars, userVars, history, netVars>>

(* The server is asked to have the target send first.                      *)
AskServer(c) ==
  /\ At(c, "lastsleep") /\ Goto(c, "pause")
  /\ Transmit(c, Server, <<Dgram("P2PTRANS", wanted[c], 0)>>)
  /\ UNCHANGED <<rpc, list, left, sendVars, userVars, history>>

(* Mutant of Retry: the round is not counted.                              *)
RetryUncounted(c) ==
  /\ At(c, "pause") /\ Goto(c, "send")
  /\ Timely => Quiet
  /\ UNCHANGED <<rpc, list, left, sendVars, userVars, history, netVars>>

(* Sleep(100), "wait for the other side to send first", then round again.  *)
Retry(c) ==
  /\ At(c, "pause") /\ Goto(c, "send")
  /\ Timely => Quiet
  /\ retry' = [retry EXCEPT ![c] = @ + 1]
  /\ UNCHANGED <<rpc, list, left, RecvedACK, wanted, target, userVars,
                 history, netVars>>

Command(c) == \/ SendLogin(c) \/ Exit(c) \/ GetUsers(c)
              \/ \E name \in Name \ {NameOf[c]} : SendCommand(c, name)
Main(c) == \/ FindUser(c) \/ NotFound(c) \/ SendHeader(c) \/ SendText(c)
           \/ GiveUp(c) \/ SeeACK(c) \/ MissACK(c) \/ AskServer(c) \/ Retry(c)

-----------------------------------------------------------------------------
(* recvfrom: r is the datagram read, from the path n' leaves; or recvfrom  *)
(* fails, which changes nothing but the result.                            *)
Failed == Dgram("ERROR", None, 0)

(* What an int-sized read makes of a datagram: the GETALLUSER command is   *)
(* itself the int 4; anything longer than an int fails.                    *)
IsInt(r) == r.kind \in {"COUNT", "GETALLUSER"}
IntOf(r) == IF r.kind = "COUNT" THEN r.num ELSE 4

(* The type a header-sized read makes of it: a COUNT of 4 is GETALLUSER;   *)
(* a text is none of the types, a NODE is too long and fails.              *)
TypeOf(r) == IF IsInt(r) /\ IntOf(r) = 4 THEN "GETALLUSER" ELSE r.kind

NodeOf(r) == IF r.kind = "NODE" THEN r.who ELSE None

(* main creates the receive thread once ConnectToServer has returned.      *)
LoggedIn(c) == Goto(c, "cmd") /\ rpc' = [rpc EXCEPT ![c] = "head"]

(* ConnectToServer, after the LOGIN: the first datagram is the count,      *)
(* whoever sent it; a failure ends the program.                            *)
RecvLoginCount(c, r, n) ==
  /\ At(c, "count")
  /\ IF IsInt(r)
     THEN /\ left' = [left EXCEPT ![c] = IntOf(r)]
          /\ IF IntOf(r) = 0 THEN LoggedIn(c) ELSE Goto(c, "nodes") /\ rpc' = rpc
          /\ net' = n /\ up' = up
     ELSE Terminate(c, n) /\ UNCHANGED left
  /\ UNCHANGED <<hole, list, sendVars, userVars, history>>

(* A node per datagram, whatever it holds.                                 *)
RecvLoginNode(c, r, n) ==
  /\ At(c, "nodes") /\ left[c] > 0
  /\ list' = [list EXCEPT ![c] = Append(@, NodeOf(r))]
  /\ left' = [left EXCEPT ![c] = @ - 1]
  /\ IF left[c] = 1
     THEN LoggedIn(c)
     ELSE UNCHANGED <<pc, rpc>>
  /\ net' = n
  /\ UNCHANGED <<up, hole, sendVars, userVars, history>>

(* RecvThreadProc's first recvfrom.                                        *)
RecvHeader(c, r, n) ==
  /\ rpc[c] = "head"
  /\ rpc' = CASE TypeOf(r) = "P2PMESSAGE" -> [rpc EXCEPT ![c] = "body"]
              [] TypeOf(r) = "GETALLUSER" -> [rpc EXCEPT ![c] = "ucount"]
              [] OTHER -> rpc
  /\ IF TypeOf(r) = "P2PMESSAGEACK"
     THEN RecvedACK' = [RecvedACK EXCEPT ![c] = TRUE]
     ELSE UNCHANGED RecvedACK
  /\ IF TypeOf(r) = "P2PSOMEONEWANTTOCALLYOU"
     THEN /\ net' = Sent(n, c, r.who, <<Dgram("P2PTRASH", None, 0)>>)
          /\ hole' = Opened(c, {r.who})
     ELSE net' = n /\ UNCHANGED hole
  /\ UNCHANGED <<up, pc, list, left, wanted, target, retry, userVars, history>>

(* case P2PMESSAGE: the next datagram is displayed as the text, whatever   *)
(* it is, and its sender s gets the answer.  A node is longer than the     *)
(* buffer the header asked for: writing past it may end the process, as    *)
(* the exception thrown when recvfrom fails does.                          *)
RecvText(c, s, r, n) ==
  /\ rpc[c] = "body"
  /\ \/ /\ r # Failed
        /\ net' = Sent(n, c, s, <<Dgram("P2PMESSAGEACK", None, 0)>>)
        /\ hole' = Opened(c, {s})
        /\ rpc' = [rpc EXCEPT ![c] = "head"]
        /\ IF r.kind = "BODY"
           THEN shown' = [shown EXCEPT ![c] = @ \cup {<<r.who, r.num>>}]
           ELSE UNCHANGED shown
        /\ eaten' = [p \in Peer |-> IF p = s THEN eaten[p] + 1 ELSE eaten[p]]
        /\ UNCHANGED <<up, pc>>
     \/ /\ r.kind \in {"NODE", "ERROR"}
        /\ Terminate(c, n)
        /\ UNCHANGED <<hole, shown, eaten>>
  /\ UNCHANGED <<list, left, sendVars, userVars, okays>>

(* case GETALLUSER: the count; nobody catches the exception a failure      *)
(* throws.  Clearing the list under a SendMessageTo that is walking it may *)
(* end the process too.                                                    *)
RecvUserCount(c, r, n) ==
  /\ rpc[c] = "ucount"
  /\ \/ /\ IsInt(r)
        /\ list' = [list EXCEPT ![c] = <<>>]
        /\ left' = [left EXCEPT ![c] = IntOf(r)]
        /\ rpc' = [rpc EXCEPT ![c] = IF IntOf(r) = 0 THEN "head" ELSE "unodes"]
        /\ net' = n /\ UNCHANGED <<up, pc>>
     \/ /\ ~IsInt(r) \/ At(c, "find")
        /\ Terminate(c, n)
        /\ UNCHANGED <<list, left>>
  /\ UNCHANGED <<hole, sendVars, userVars, history>>

RecvUserNode(c, r, n) ==
  /\ rpc[c] = "unodes" /\ left[c] > 0
  /\ list' = [list EXCEPT ![c] = Append(@, NodeOf(r))]
  /\ left' = [left EXCEPT ![c] = @ - 1]
  /\ rpc' = [rpc EXCEPT ![c] = IF left[c] = 1 THEN "head" ELSE "unodes"]
  /\ net' = n
  /\ UNCHANGED <<up, pc, hole, sendVars, userVars, history>>

Recv(c, s, r, n) ==
  \/ RecvLoginCount(c, r, n) \/ RecvLoginNode(c, r, n)
  \/ RecvHeader(c, r, n) \/ RecvText(c, s, r, n)
  \/ RecvUserCount(c, r, n) \/ RecvUserNode(c, r, n)

RecvDatagram(c) == \E s \in Addr : \E i \in Receivable(s, c) :
                     Recv(c, s, net[s][c][i], Taken(s, c, i))
RecvFails(c) == RecvErrors /\ Recv(c, None, Failed, net)

=============================================================================
