------------------------------- MODULE NatTcp -------------------------------
(***************************************************************************)
(* One run of natcheck against the three servers, with the clock: a second *)
(* passes when neither natcheck nor a handler has anything to do at once.  *)
(***************************************************************************)
EXTENDS NatCheck

CONSTANT MaxExtra   \* bound on the seconds datagrams add to the tries
ASSUME ExtraAssumption == MaxExtra \in Nat

VARIABLE extra
vars == <<netVars, serverVars, clientVars, extra>>

TypeOK == NetTypeOK /\ ServerTypeOK /\ ClientTypeOK /\ extra \in 0..MaxExtra

Init == NetInit /\ ServerInit /\ ClientInit /\ extra = 0

(* In a second without TCP events select returns for a datagram, which     *)
(* restarts its time limit, or because the limit has passed.               *)
Tick ==
  /\ ServersWait /\ Older /\ TimersRun
  /\ \/ At("over") /\ UNCHANGED <<pc, timeout, extra>>
     \/ /\ At("select") /\ ~Ready /\ pc' = "listen"
        /\ \/ timeout' = TRUE /\ UNCHANGED extra
           \/ extra < MaxExtra /\ extra' = extra + 1 /\ UNCHANGED timeout
  /\ UNCHANGED <<tries, sock, my, t3toosoon, tcploop, outcome>>

(* Server 3's kernel gives up its connection minutes after natcheck ends.  *)
CallGivenUp ==
  /\ At("over") /\ ~UnderWay("call") /\ dst = "syn" /\ dst' = "refused"
  /\ UNCHANGED <<nat, fly, conn, inq, serverVars, clientVars>>

Next == \/ ClientStep /\ UNCHANGED extra
        \/ ServerStep /\ UNCHANGED <<clientVars, extra>>
        \/ NetStep /\ UNCHANGED <<serverVars, clientVars, extra>>
        \/ Tick
        \/ CallGivenUp /\ UNCHANGED extra

Spec == Init /\ [][Next]_vars

(* Every process runs, every segment arrives and time passes.              *)
FairSpec == Spec /\ WF_vars(Next) /\ WF_vars(CallGivenUp /\ UNCHANGED extra)

-----------------------------------------------------------------------------
(* "unsolicited connections filtered: NO" is never printed of a NAT that   *)
(* filters, whatever the delays, the timeouts and the servers' failures:   *)
(* before server 2 answers, nothing but a permissive NAT brings a callback.*)
SoonMeansOpen == t3toosoon => nat.filter = "open"

(* Why: a NAT that filters keeps everything of server 3's quiet until      *)
(* natcheck calls server 3, which server 2's answer makes it do.           *)
Quiet ==
  /\ {"syn3", "callack", "ack3", "rep3"} \cap DOMAIN fly = {}
  /\ conn["tcp3"] = "none" /\ conn["incb"] = "none" /\ dst # "up"
  /\ inq["tcp3"] = "none" /\ inq["incb"] = "none"
  /\ sock["incb"] = "closed"
  /\ my[3] = None
QuietInv == nat.filter # "open" => /\ my[2] = None => Quiet
                                  /\ ~t3toosoon

(* And of one that does not it is printed: server 3 holds server 2's       *)
(* answer back until natcheck has seen the callback.                       *)
OpenIsSoon == Printed /\ faulty = 0 /\ nat.filter = "open" => ~Filtered

(* With working servers natcheck dies exactly if one of its connections is *)
(* refused: to server 3, by a translator that rejects server 3's attempt   *)
(* or maps the port anew, or to itself.  Server 3's attempt and its own    *)
(* meet in every other case.                                               *)
ConnectionsMade ==
  /\ nat.hairpin # "reject"
  /\ nat.filter = "open" \/ (nat.filter = "drop" /\ ~nat.symmetric)
VerdictUnlessRefused ==
  outcome # "running" /\ faulty = 0 =>
    /\ Printed <=> ConnectionsMade
    /\ Printed => SimultaneousOpenYes

(* The other two lines of the TCP results say what the translator does.    *)
OtherVerdicts ==
  Printed => /\ tcploop <=> nat.hairpin = "yes"
             /\ ConsistentTranslation <=> ~nat.symmetric

(* Comment of checktcp: a NAT that rejects incoming connections makes      *)
(* server 3's attempt fail, and natcheck wants to detect that situation.   *)
RejectDetected == outcome = "died" => nat.filter # "reject"

(* Server 2 answers only after server 3 has called the client (unless the  *)
(* handler there failed), as the comment of checktcp says it should mean.  *)
AnsweredAfterCall == faulty # 3 /\ my[2] # None => dst # "none"

(* Why: until server 3's handler starts nothing of the answer exists.      *)
HeldBack == /\ {"fin3", "rep2"} \cap DOMAIN fly = {}
            /\ inq["tcp2"] # "reply" /\ my[2] = None
HeldInv == /\ s3 # "accept" /\ faulty # 3 => dst # "none"
           /\ s3 = "accept" => HeldBack

(* The verdict comes, and server 3's handler ends: no wait is for ever.    *)
Ends == <>(outcome # "running") /\ <>[](s3 \in {"accept", "done"})
=============================================================================
