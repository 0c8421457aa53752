------------------------------- MODULE NatUdp -------------------------------
(***************************************************************************)
(* natcheck and natserver, UDP: pings to servers 1 and 2, replies,         *)
(* server 2's bounce request to server 3 and its answer to the client, and *)
(* natcheck's datagram to its own public address, through a NAT that may   *)
(* lose, duplicate, delay and reorder them and map the port anew.          *)
(***************************************************************************)
EXTENDS Integers, FiniteSets

CONSTANTS NTRIES,     \* requests natcheck sends to each server
          MaxSpoilt,  \* bound on losses, late rounds and new mappings
          MaxDups     \* bound on duplicated datagrams
ASSUME UdpAssumption == NTRIES \in Nat \ {0} /\ MaxSpoilt \in Nat /\ MaxDups \in Nat

(* Lets unsolicited datagrams in; sends datagrams to its own public        *)
(* address back in; has one public port per destination.                   *)
Nats == [open : BOOLEAN, hairpin : BOOLEAN, symmetric : BOOLEAN]

(* A public address: the port for a server's sake, and which mapping.      *)
Addrs == {1, 2} \X (0..MaxSpoilt)
None == <<0, 0>>
Datagrams == [kind : {"ping1", "ping2", "loop", "rep1", "rep2", "bounce", "rep3"},
              addr : Addrs \cup {None}]
Dgram(k, a) == [kind |-> k, addr |-> a]

VARIABLES
  nat, mapping, fly,   \* the translator, its current mapping, the datagrams under way
  pc, tries,           \* natcheck's main loop
  myu, udploop,        \* myu1, myu2, myu3; the loopback flag
  spoilt, dups         \* what has gone wrong so far
natVars == <<nat, mapping>>
clientVars == <<pc, tries, myu, udploop>>
vars == <<natVars, fly, clientVars, spoilt, dups>>

TypeOK ==
  /\ nat \in Nats /\ mapping \in 0..MaxSpoilt /\ fly \subseteq Datagrams
  /\ pc \in {"send", "wait", "died", "verdict"} /\ tries \in 1..NTRIES
  /\ myu \in [1..3 -> Addrs \cup {None}] /\ udploop \in BOOLEAN
  /\ spoilt \in 0..MaxSpoilt /\ dups \in 0..MaxDups

Init ==
  /\ nat \in Nats /\ mapping = 0 /\ fly = {}
  /\ pc = "send" /\ tries = 1
  /\ myu = [n \in 1..3 |-> None] /\ udploop = FALSE
  /\ spoilt = 0 /\ dups = 0

Pub(n) == <<IF nat.symmetric THEN n ELSE 1, mapping>>
Mapped(a) == a[2] = mapping

(* A datagram arrives: it is gone, or a copy of it is still under way.     *)
Arrives(d, answers) ==
  \/ fly' = (fly \ {d}) \cup answers /\ UNCHANGED dups
  \/ dups < MaxDups /\ dups' = dups + 1 /\ fly' = fly \cup answers

-----------------------------------------------------------------------------
(* Mutant: server 2 forwards nothing to server 3.                          *)
ForwardsNothing(n) == {}
(* serveudp of server n: the reply, and server 2's bounce request.         *)
Bounced(n) == IF n = 2 THEN {Dgram("bounce", Pub(2))} ELSE {}
ServeUdp(n) ==
  /\ \E d \in fly :
       /\ d.kind = (IF n = 1 THEN "ping1" ELSE "ping2")
       /\ Arrives(d, {Dgram(IF n = 1 THEN "rep1" ELSE "rep2", Pub(n))} \cup Bounced(n))
  /\ UNCHANGED <<natVars, clientVars, spoilt>>

(* bounceudp: server 3 turns it into a reply to the address it names.      *)
BounceUdp ==
  /\ \E d \in fly : d.kind = "bounce" /\ Arrives(d, {Dgram("rep3", d.addr)})
  /\ UNCHANGED <<natVars, clientVars, spoilt>>

(* What reaches natcheck's udp1: replies of servers it has sent to, server *)
(* 3's through a permissive NAT, its own through a hairpin translation.    *)
Reaches(d) ==
  \/ d.kind \in {"rep1", "rep2"} /\ Mapped(d.addr)
  \/ d.kind = "rep3" /\ Mapped(d.addr) /\ nat.open
  \/ d.kind = "loop" /\ Mapped(d.addr) /\ nat.hairpin
ForClient(d) == d.kind \in {"rep1", "rep2", "rep3", "loop"}
Blocked ==
  /\ \E d \in fly : ForClient(d) /\ ~Reaches(d) /\ Arrives(d, {})
  /\ UNCHANGED <<natVars, clientVars, spoilt>>

(* Mutant: a report is taken for those of the servers before it, too.      *)
FillsBelow(n, a) == myu' = [k \in 1..3 |-> IF k <= n /\ myu[k] = None THEN a ELSE myu[k]]
(* checkudp: the first report of each server is kept.                      *)
CheckUdp(n, a) == myu' = [myu EXCEPT ![n] = IF @ = None THEN a ELSE @]
Server(k) == CASE k = "rep1" -> 1 [] k = "rep2" -> 2 [] k = "rep3" -> 3
(* Mutant: the test for a runt comes before the one for a loopback packet. *)
RuntFirst ==
  /\ pc \in {"send", "wait"}
  /\ \E d \in fly :
       /\ Reaches(d) /\ Arrives(d, {})
       /\ \/ d.kind = "loop" /\ UNCHANGED myu
          \/ d.kind # "loop" /\ CheckUdp(Server(d.kind), d.addr)
  /\ UNCHANGED <<natVars, pc, tries, udploop, spoilt>>
RecvUdp ==
  /\ pc \in {"send", "wait"}
  /\ \E d \in fly :
       /\ Reaches(d) /\ Arrives(d, {})
       /\ \/ d.kind = "loop" /\ udploop' = TRUE /\ UNCHANGED myu
          \/ d.kind # "loop" /\ CheckUdp(Server(d.kind), d.addr) /\ UNCHANGED udploop
  /\ UNCHANGED <<natVars, pc, tries, spoilt>>

-----------------------------------------------------------------------------
(* main: a ping to each server, and to udp1's public address once known.   *)
SendPings ==
  /\ pc = "send" /\ pc' = "wait"
  /\ fly' = fly \cup {Dgram("ping1", None), Dgram("ping2", None)}
                \cup IF myu[2] # None THEN {Dgram("loop", myu[2])} ELSE {}
  /\ UNCHANGED <<natVars, tries, myu, udploop, spoilt, dups>>

Finish == IF myu[1] = None \/ myu[2] = None THEN "died" ELSE "verdict"
(* Mutants: one try too few, and one too many.                             *)
OneTryLess ==
  /\ pc = "wait"
  /\ IF tries < NTRIES - 1 THEN pc' = "send" /\ tries' = tries + 1
                           ELSE pc' = Finish /\ UNCHANGED tries
  /\ UNCHANGED <<natVars, fly, myu, udploop, dups>>
OneTryMore ==
  /\ pc = "wait"
  /\ IF tries <= NTRIES THEN pc' = "send" /\ tries' = tries + 1
                        ELSE pc' = Finish /\ UNCHANGED tries
  /\ UNCHANGED <<natVars, fly, myu, udploop, dups>>
(* A second without a datagram: the next try, or the verdict.              *)
NextTry ==
  /\ pc = "wait"
  /\ IF tries < NTRIES THEN pc' = "send" /\ tries' = tries + 1
                       ELSE pc' = Finish /\ UNCHANGED tries
  /\ UNCHANGED <<natVars, fly, myu, udploop, dups>>
QuietSecond == fly = {} /\ NextTry /\ UNCHANGED spoilt

(* What happens after the verdict is of no interest.                       *)
Spoils == /\ pc \in {"send", "wait"}
          /\ spoilt < MaxSpoilt /\ spoilt' = spoilt + 1
(* Answers of this round are still under way.                              *)
LateRound == fly # {} /\ NextTry /\ Spoils
Lose == /\ \E d \in fly : fly' = fly \ {d}
        /\ Spoils /\ UNCHANGED <<natVars, clientVars, dups>>
NewMapping == /\ mapping' = mapping + 1
              /\ Spoils /\ UNCHANGED <<nat, fly, clientVars, dups>>

Next == \/ \E n \in {1, 2} : ServeUdp(n)
        \/ BounceUdp \/ Blocked \/ RecvUdp
        \/ SendPings \/ QuietSecond
        \/ LateRound \/ Lose \/ NewMapping

Spec == Init /\ [][Next]_vars

-----------------------------------------------------------------------------
(* One round nothing happens to is enough to have heard of both servers.   *)
DiedMeansSpoilt == pc = "died" => spoilt >= NTRIES

(* "unsolicited messages filtered: NO" is printed of permissive NATs only, *)
(* and of all of them unless every round was disturbed.                    *)
UnsolicitedExact ==
  /\ myu[3] # None => nat.open
  /\ pc = "verdict" /\ nat.open /\ spoilt < NTRIES => myu[3] # None

(* The loopback test needs a second round, and the mapping of the first.   *)
LoopbackExact ==
  /\ udploop => nat.hairpin
  /\ pc = "verdict" /\ nat.hairpin /\ mapping = 0 /\ spoilt < NTRIES - 1 => udploop

(* "consistent translation" is right of a NAT that keeps its mapping.      *)
ConsistentExact ==
  pc = "verdict" /\ mapping = 0 => (myu[1] = myu[2] <=> ~nat.symmetric)

(* Why: until server n has been heard of, every round so far was spoilt,   *)
(* but for the present one while a datagram that can still do it is under  *)
(* way; a second round's grace for the loopback test.                      *)
First(n) == IF n = 1 THEN "ping1" ELSE "ping2"
Later(n) == CASE n = 1 -> {"rep1"} [] n = 2 -> {"rep2"} [] n = 3 -> {"bounce", "rep3"}
Alive(n) == \E d \in fly : d.kind = First(n) \/ (d.kind \in Later(n) /\ Mapped(d.addr))
LoopAlive == \E d \in fly : d.kind = "loop" /\ Mapped(d.addr)
Accounted(grace, alive) ==
  spoilt + grace >= IF pc = "send" \/ (pc = "wait" /\ alive) THEN tries - 1 ELSE tries
RoundsInv ==
  /\ \A n \in 1..3 : (n = 3 => nat.open) /\ myu[n] = None => Accounted(0, Alive(n))
  /\ nat.hairpin /\ mapping = 0 /\ ~udploop => Accounted(1, LoopAlive)
  /\ pc \in {"died", "verdict"} => tries = NTRIES /\ pc = Finish

(* An address reported is one natcheck has had: one of the first mapping,  *)
(* where there is no other, and then that of the server that saw it.       *)
Seen(k) == IF k = "rep1" THEN 1 ELSE 2
Reports(d) == d.kind \notin {"ping1", "ping2"}
TrueAddr(d) == d.addr # None /\ (mapping = 0 => d.addr = Pub(Seen(d.kind)))
AddrInv ==
  /\ \A d \in fly : Reports(d) => TrueAddr(d)
  /\ mapping = 0 => /\ myu[1] \in {None, Pub(1)}
                    /\ myu[2] \in {None, Pub(2)}
SoundInv == (myu[3] # None => nat.open) /\ (udploop => nat.hairpin)
=============================================================================
