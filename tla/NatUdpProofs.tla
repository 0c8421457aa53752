---------------------------- MODULE NatUdpProofs ----------------------------
(***************************************************************************)
(* What natcheck's UDP results rest on, for every number of tries and any  *)
(* number of losses, duplicates, late rounds and new mappings.             *)
(***************************************************************************)
EXTENDS NatUdp, TLAPS

LEMMA ArrivesFly ==
  ASSUME NEW d \in fly, NEW A, Arrives(d, A)
  PROVE  fly' \subseteq fly \cup A /\ A \subseteq fly' /\ fly \ {d} \subseteq fly'
BY DEF Arrives

LEMMA PubAddr ==
  ASSUME mapping \in 0..MaxSpoilt
  PROVE  \A n \in {1, 2} : /\ Pub(n) \in Addrs /\ Pub(n) # None
                           /\ Mapped(Pub(n))
BY DEF Pub, Addrs, None, Mapped

Kinds == {"ping1", "ping2", "loop", "rep1", "rep2", "bounce", "rep3"}

LEMMA DgramType ==
  /\ \A k \in Kinds : \A a \in Addrs \cup {None} :
        Dgram(k, a) \in Datagrams /\ Dgram(k, a).kind = k /\ Dgram(k, a).addr = a
  /\ \A d \in Datagrams : d.kind \in Kinds /\ d.addr \in Addrs \cup {None}
BY DEF Dgram, Datagrams, Kinds

LEMMA BouncedType ==
  ASSUME mapping \in 0..MaxSpoilt, NEW n \in {1, 2}
  PROVE  Bounced(n) = IF n = 2 THEN {Dgram("bounce", Pub(2))} ELSE {}
BY DEF Bounced

(* What the calls of servers and client send, by the action.               *)
LEMMA ServeUdpFly ==
  ASSUME TypeOK, NEW n \in {1, 2}, ServeUdp(n)
  PROVE  \E d \in fly : \E A \in SUBSET Datagrams :
           /\ d.kind = (IF n = 1 THEN "ping1" ELSE "ping2")
           /\ Arrives(d, A)
           /\ Dgram(IF n = 1 THEN "rep1" ELSE "rep2", Pub(n)) \in A
           /\ n = 2 => Dgram("bounce", Pub(2)) \in A
           /\ A \subseteq {Dgram("rep1", Pub(1)), Dgram("rep2", Pub(2)),
                           Dgram("bounce", Pub(2))}
<1>1. PICK d \in fly :
        /\ d.kind = (IF n = 1 THEN "ping1" ELSE "ping2")
        /\ Arrives(d, {Dgram(IF n = 1 THEN "rep1" ELSE "rep2", Pub(n))} \cup Bounced(n))
  BY DEF ServeUdp
<1> DEFINE A == {Dgram(IF n = 1 THEN "rep1" ELSE "rep2", Pub(n))} \cup Bounced(n)
<1>2. mapping \in 0..MaxSpoilt  BY DEF TypeOK
<1>3. A \subseteq {Dgram("rep1", Pub(1)), Dgram("rep2", Pub(2)), Dgram("bounce", Pub(2))}
  BY <1>2, BouncedType
<1>4. Pub(1) \in Addrs /\ Pub(2) \in Addrs  BY <1>2, PubAddr
<1>5. {Dgram("rep1", Pub(1)), Dgram("rep2", Pub(2)), Dgram("bounce", Pub(2))}
        \subseteq Datagrams
  BY <1>4, DgramType DEF Kinds
<1>6. n = 2 => Dgram("bounce", Pub(2)) \in A  BY <1>2, BouncedType
<1>7. QED  BY <1>1, <1>3, <1>5, <1>6

-----------------------------------------------------------------------------
(* Types.                                                                  *)

UdpTypeInv == TypeOK /\ mapping <= spoilt

LEMMA TypeStep == UdpTypeInv /\ [Next]_vars => UdpTypeInv'
<1>1. SUFFICES ASSUME UdpTypeInv, [Next]_vars PROVE UdpTypeInv'  OBVIOUS
<1>2. TypeOK /\ mapping <= spoilt  BY <1>1 DEF UdpTypeInv
<1>3. NTRIES \in Nat \ {0} /\ MaxSpoilt \in Nat /\ MaxDups \in Nat  BY UdpAssumption
<1>4. ASSUME NEW d \in fly, NEW A \in SUBSET Datagrams, Arrives(d, A)
      PROVE  fly' \subseteq Datagrams /\ dups' \in 0..MaxDups
  <2>1. dups' \in 0..MaxDups  BY <1>2, <1>3, <1>4 DEF Arrives, TypeOK
  <2>2. QED  BY <2>1, <1>2, <1>4, ArrivesFly DEF TypeOK
<1>5. ASSUME fly' \subseteq Datagrams, dups' \in 0..MaxDups,
             UNCHANGED <<natVars, pc, tries, spoilt>>,
             myu' \in [1..3 -> Addrs \cup {None}], udploop' \in BOOLEAN
      PROVE  UdpTypeInv'
  BY <1>2, <1>5 DEF UdpTypeInv, TypeOK, natVars
<1>6. ASSUME NEW n \in {1, 2}, ServeUdp(n) PROVE UdpTypeInv'
  <2>1. PICK d \in fly : \E A \in SUBSET Datagrams : Arrives(d, A)
    BY <1>2, <1>6, ServeUdpFly
  <2>2. QED  BY <2>1, <1>2, <1>4, <1>5, <1>6 DEF ServeUdp, clientVars, TypeOK
<1>7. CASE BounceUdp
  <2>1. PICK d \in fly : Arrives(d, {Dgram("rep3", d.addr)})  BY <1>7 DEF BounceUdp
  <2>2. {Dgram("rep3", d.addr)} \subseteq Datagrams
    BY <1>2, DgramType DEF TypeOK, Kinds
  <2>3. QED  BY <2>1, <2>2, <1>2, <1>4, <1>5, <1>7 DEF BounceUdp, clientVars, TypeOK
<1>8. CASE Blocked
  <2>1. PICK d \in fly : Arrives(d, {})  BY <1>8 DEF Blocked
  <2>2. QED  BY <2>1, <1>2, <1>4, <1>5, <1>8 DEF Blocked, clientVars, TypeOK
<1>9. CASE RecvUdp
  <2>1. PICK d \in fly :
          /\ Reaches(d) /\ Arrives(d, {})
          /\ \/ d.kind = "loop" /\ udploop' = TRUE /\ UNCHANGED myu
             \/ d.kind # "loop" /\ CheckUdp(Server(d.kind), d.addr) /\ UNCHANGED udploop
    BY <1>9 DEF RecvUdp
  <2>2. fly' \subseteq Datagrams /\ dups' \in 0..MaxDups  BY <2>1, <1>4
  <2>3. d.addr \in Addrs \cup {None}  BY <1>2, DgramType DEF TypeOK
  <2>4. myu' \in [1..3 -> Addrs \cup {None}]
    <3>1. CASE UNCHANGED myu  BY <3>1, <1>2 DEF TypeOK
    <3>2. CASE CheckUdp(Server(d.kind), d.addr)
      BY <3>2, <2>3, <1>2 DEF CheckUdp, TypeOK
    <3>3. QED  BY <2>1, <3>1, <3>2
  <2>5. udploop' \in BOOLEAN  BY <2>1, <1>2, Zenon DEF TypeOK
  <2>6. QED  BY <2>2, <2>4, <2>5, <1>5, <1>9 DEF RecvUdp
<1>10. CASE SendPings
  <2>1. fly' \subseteq Datagrams
    <3>1. /\ Dgram("ping1", None) \in Datagrams /\ Dgram("ping2", None) \in Datagrams
          /\ Dgram("loop", myu[2]) \in Datagrams
      BY <1>2, DgramType DEF TypeOK, Kinds
    <3>2. QED  BY <3>1, <1>2, <1>10 DEF SendPings, TypeOK
  <2>2. QED  BY <2>1, <1>2, <1>10 DEF SendPings, UdpTypeInv, TypeOK, natVars
<1>11. ASSUME NextTry
       PROVE  /\ UNCHANGED <<nat, mapping, fly, myu, udploop, dups>>
              /\ pc' \in {"send", "wait", "died", "verdict"} /\ tries' \in 1..NTRIES
  <2>1. tries' \in 1..NTRIES  BY <1>2, <1>3, <1>11 DEF NextTry, TypeOK
  <2>2. QED  BY <2>1, <1>11 DEF NextTry, Finish, natVars
<1>12. ASSUME Spoils PROVE spoilt' \in 0..MaxSpoilt /\ spoilt' = spoilt + 1
  BY <1>2, <1>3, <1>12 DEF Spoils, TypeOK
<1>13. CASE QuietSecond
  BY <1>2, <1>11, <1>13 DEF QuietSecond, UdpTypeInv, TypeOK
<1>14. CASE LateRound
  <2>1. mapping' <= spoilt'  BY <1>2, <1>11, <1>12, <1>14 DEF LateRound, TypeOK
  <2>2. QED  BY <2>1, <1>2, <1>11, <1>12, <1>14 DEF LateRound, UdpTypeInv, TypeOK
<1>15. CASE Lose
  <2>1. mapping' <= spoilt'  BY <1>2, <1>12, <1>15 DEF Lose, TypeOK, natVars
  <2>2. QED
    BY <2>1, <1>2, <1>12, <1>15 DEF Lose, UdpTypeInv, TypeOK, natVars, clientVars
<1>16. CASE NewMapping
  <2>1. mapping' \in 0..MaxSpoilt /\ mapping' <= spoilt'
    BY <1>2, <1>3, <1>12, <1>16 DEF NewMapping, TypeOK
  <2>2. QED
    BY <2>1, <1>2, <1>12, <1>16 DEF NewMapping, UdpTypeInv, TypeOK, clientVars
<1>17. CASE UNCHANGED vars
  BY <1>2, <1>17 DEF vars, natVars, clientVars, UdpTypeInv, TypeOK
<1>18. QED
  BY <1>1, <1>6, <1>7, <1>8, <1>9, <1>10, <1>13, <1>14, <1>15, <1>16, <1>17 DEF Next

LEMMA TypeInit == Init => UdpTypeInv
<1>1. SUFFICES ASSUME Init PROVE UdpTypeInv  OBVIOUS
<1>2. /\ mapping \in 0..MaxSpoilt /\ tries \in 1..NTRIES /\ mapping <= spoilt
      /\ spoilt \in 0..MaxSpoilt /\ dups \in 0..MaxDups
  BY <1>1, UdpAssumption DEF Init
<1>3. myu \in [1..3 -> Addrs \cup {None}] /\ fly \subseteq Datagrams  BY <1>1 DEF Init
<1>4. QED  BY <1>1, <1>2, <1>3 DEF Init, UdpTypeInv, TypeOK

(* The translator, the datagrams and natcheck never leave their types.     *)
THEOREM UdpTypes == Spec => []TypeOK
<1>1. UdpTypeInv => TypeOK  BY DEF UdpTypeInv
<1>2. QED  BY <1>1, TypeInit, TypeStep, PTL DEF Spec

-----------------------------------------------------------------------------
(* Addresses, and the sound half of the verdicts.                          *)

LEMMA SameAddr ==
  ASSUME UNCHANGED natVars
  PROVE  /\ \A n : Pub(n)' = Pub(n)
         /\ \A e : TrueAddr(e)' <=> TrueAddr(e)
BY DEF natVars, Pub, TrueAddr

(* What a server or the net does to the datagrams.                         *)
LEMMA AddrServers ==
  ASSUME AddrInv, UNCHANGED <<natVars, myu>>,
         \A e \in fly' : e \in fly \/ (Reports(e) => TrueAddr(e))
  PROVE  AddrInv'
<1>1. \A e \in fly' : Reports(e) => TrueAddr(e)  BY DEF AddrInv
<1>2. \A e \in fly' : Reports(e) => TrueAddr(e)'  BY <1>1, SameAddr
<1>3. QED  BY <1>2, SameAddr DEF AddrInv, Reports, natVars

LEMMA AddrStep == UdpTypeInv /\ AddrInv /\ [Next]_vars => AddrInv'
<1>1. SUFFICES ASSUME UdpTypeInv, AddrInv, [Next]_vars PROVE AddrInv'  OBVIOUS
<1>2. TypeOK /\ mapping \in 0..MaxSpoilt  BY <1>1 DEF UdpTypeInv, TypeOK
<1>3. ASSUME NEW k \in {"rep1", "rep2", "bounce"} PROVE TrueAddr(Dgram(k, Pub(Seen(k))))
  BY <1>2, PubAddr, DgramType DEF Kinds, Seen, TrueAddr
<1>4. ASSUME NEW n \in {1, 2}, ServeUdp(n) PROVE AddrInv'
  <2>1. PICK d \in fly : \E A \in SUBSET Datagrams :
          /\ Arrives(d, A)
          /\ A \subseteq {Dgram("rep1", Pub(1)), Dgram("rep2", Pub(2)),
                          Dgram("bounce", Pub(2))}
    BY <1>2, <1>4, ServeUdpFly
  <2>2. Seen("rep1") = 1 /\ Seen("rep2") = 2 /\ Seen("bounce") = 2  BY DEF Seen
  <2>3. UNCHANGED <<natVars, myu>>  BY <1>4 DEF ServeUdp, clientVars
  <2>4. fly' \subseteq fly \cup {Dgram("rep1", Pub(1)), Dgram("rep2", Pub(2)),
                                 Dgram("bounce", Pub(2))}
    BY <2>1, ArrivesFly
  <2>5. QED  BY <2>2, <2>3, <2>4, <1>1, <1>3, AddrServers
<1>5. CASE BounceUdp
  <2>1. PICK d \in fly : d.kind = "bounce" /\ Arrives(d, {Dgram("rep3", d.addr)})
    BY <1>5 DEF BounceUdp
  <2>2. TrueAddr(d)  BY <2>1, <1>1 DEF AddrInv, Reports
  <2>3. TrueAddr(Dgram("rep3", d.addr))
    BY <2>1, <2>2 DEF TrueAddr, Dgram, Seen
  <2>4. fly' \subseteq fly \cup {Dgram("rep3", d.addr)}  BY <2>1, ArrivesFly
  <2>5. UNCHANGED <<natVars, myu>>  BY <1>5 DEF BounceUdp, clientVars
  <2>6. QED  BY <2>3, <2>4, <2>5, <1>1, AddrServers
<1>6. CASE Blocked
  <2>1. fly' \subseteq fly  BY <1>6, ArrivesFly DEF Blocked
  <2>2. UNCHANGED <<natVars, myu>>  BY <1>6 DEF Blocked, clientVars
  <2>3. QED  BY <2>1, <2>2, <1>1, AddrServers
<1>7. CASE RecvUdp
  <2>1. PICK d \in fly :
          /\ Reaches(d) /\ Arrives(d, {})
          /\ \/ UNCHANGED myu
             \/ d.kind # "loop" /\ CheckUdp(Server(d.kind), d.addr)
    BY <1>7 DEF RecvUdp
  <2>2. fly' \subseteq fly  BY <2>1, ArrivesFly
  <2>3. UNCHANGED natVars /\ mapping' = mapping  BY <1>7 DEF RecvUdp, natVars
  <2>4. \A e \in fly' : Reports(e) => TrueAddr(e)'
    BY <2>2, <2>3, <1>1, SameAddr DEF AddrInv
  <2>5. d.kind \in {"rep1", "rep2", "rep3", "loop"}  BY <2>1 DEF Reaches
  <2>6. TrueAddr(d)  BY <2>5, <1>1 DEF AddrInv, Reports
  <2>7. myu \in [1..3 -> Addrs \cup {None}]  BY <1>2 DEF TypeOK
  <2>8. ASSUME mapping = 0
        PROVE  myu'[1] \in {None, Pub(1)} /\ myu'[2] \in {None, Pub(2)}
    <3>1. myu[1] \in {None, Pub(1)} /\ myu[2] \in {None, Pub(2)}
      BY <2>8, <1>1 DEF AddrInv
    <3>2. CASE UNCHANGED myu  BY <3>1, <3>2
    <3>3. CASE d.kind = "rep1" /\ CheckUdp(1, d.addr)
      BY <3>1, <3>3, <2>6, <2>7, <2>8 DEF CheckUdp, Seen, TrueAddr
    <3>4. CASE d.kind = "rep2" /\ CheckUdp(2, d.addr)
      BY <3>1, <3>4, <2>6, <2>7, <2>8 DEF CheckUdp, Seen, TrueAddr
    <3>5. CASE d.kind = "rep3" /\ CheckUdp(3, d.addr)
      BY <3>1, <3>5, <2>7 DEF CheckUdp
    <3>6. QED  BY <2>1, <2>5, <3>2, <3>3, <3>4, <3>5 DEF Server
  <2>9. QED  BY <2>3, <2>4, <2>8, SameAddr DEF AddrInv, Reports
<1>8. CASE SendPings
  <2>1. UNCHANGED <<natVars, myu>>  BY <1>8 DEF SendPings
  <2>2. ASSUME NEW e \in fly', e \notin fly, Reports(e) PROVE TrueAddr(e)
    <3>1. e = Dgram("loop", myu[2]) /\ myu[2] # None
      BY <2>2, <1>8 DEF SendPings, Reports, Dgram
    <3>2. e.kind = "loop" /\ e.addr = myu[2]  BY <3>1 DEF Dgram
    <3>3. QED  BY <3>1, <3>2, <1>1 DEF AddrInv, Seen, TrueAddr
  <2>3. QED  BY <2>1, <2>2, <1>1, AddrServers
<1>9. CASE QuietSecond \/ LateRound \/ Lose
  <2>1. UNCHANGED <<natVars, myu>> /\ fly' \subseteq fly
    BY <1>9 DEF QuietSecond, LateRound, NextTry, Lose, clientVars
  <2>2. QED  BY <2>1, <1>1, AddrServers
<1>10. CASE NewMapping
  <2>1. UNCHANGED fly /\ mapping' # 0
    BY <1>2, <1>10 DEF NewMapping
  <2>2. QED  BY <2>1, <1>1 DEF AddrInv, TrueAddr, Reports
<1>11. CASE UNCHANGED vars
  <2>1. UNCHANGED <<natVars, fly, myu>>  BY <1>11 DEF vars, clientVars
  <2>2. QED  BY <2>1, <1>1, AddrServers
<1>12. QED
  BY <1>1, <1>4, <1>5, <1>6, <1>7, <1>8, <1>9, <1>10, <1>11 DEF Next

LEMMA SoundStep == UdpTypeInv /\ SoundInv /\ [Next]_vars => SoundInv'
<1>1. SUFFICES ASSUME UdpTypeInv, SoundInv, [Next]_vars PROVE SoundInv'  OBVIOUS
<1>2. UNCHANGED nat
  BY <1>1 DEF Next, vars, natVars, ServeUdp, BounceUdp, Blocked, RecvUdp, SendPings,
              QuietSecond, LateRound, NextTry, Lose, NewMapping
<1>3. CASE UNCHANGED <<myu, udploop>>  BY <1>1, <1>2, <1>3 DEF SoundInv
<1>4. CASE RecvUdp
  <2>1. PICK d \in fly :
          /\ Reaches(d)
          /\ \/ d.kind = "loop" /\ udploop' = TRUE /\ UNCHANGED myu
             \/ d.kind # "loop" /\ CheckUdp(Server(d.kind), d.addr) /\ UNCHANGED udploop
    BY <1>4 DEF RecvUdp
  <2>2. CASE d.kind = "loop"
    BY <2>1, <2>2, <1>1, <1>2 DEF Reaches, SoundInv
  <2>3. CASE d.kind # "loop"
    <3>1. d.kind \in {"rep1", "rep2", "rep3"} /\ (d.kind = "rep3" => nat.open)
      BY <2>1, <2>3 DEF Reaches
    <3>2. myu \in [1..3 -> Addrs \cup {None}]  BY <1>1 DEF UdpTypeInv, TypeOK
    <3>3. myu'[3] # None => myu[3] # None \/ d.kind = "rep3"
      BY <3>1, <3>2, <2>1, <2>3 DEF CheckUdp, Server
    <3>4. UNCHANGED udploop  BY <2>1, <2>3
    <3>5. QED  BY <3>1, <3>3, <3>4, <1>1, <1>2 DEF SoundInv
  <2>4. QED  BY <2>2, <2>3
<1>5. UNCHANGED <<myu, udploop>> \/ RecvUdp
  BY <1>1 DEF Next, vars, clientVars, ServeUdp, BounceUdp, Blocked, SendPings,
              QuietSecond, LateRound, NextTry, Lose, NewMapping
<1>6. QED  BY <1>3, <1>4, <1>5

LEMMA AddrSound == Spec => [](UdpTypeInv /\ AddrInv /\ SoundInv)
<1>1. Init => UdpTypeInv  BY TypeInit
<1>2. Init => AddrInv  BY DEF Init, AddrInv
<1>3. Init => SoundInv  BY DEF Init, SoundInv
<1>4. QED  BY <1>1, <1>2, <1>3, TypeStep, AddrStep, SoundStep, PTL DEF Spec

-----------------------------------------------------------------------------
(* Every round without an answer is a disturbed one.                       *)

(* What a server, the net or natcheck's recvfrom does keeps the account,   *)
(* if what may still tell natcheck of a server stays under way.            *)
LEMMA AccountKept ==
  ASSUME UdpTypeInv, RoundsInv, UNCHANGED <<natVars, pc, tries, spoilt>>,
         pc \in {"died", "verdict"} => UNCHANGED myu,
         \A n \in 1..3 : (n = 3 => nat.open) /\ myu'[n] = None
                           => myu[n] = None /\ (Alive(n) => Alive(n)'),
         nat.hairpin /\ mapping = 0 /\ ~udploop'
                           => ~udploop /\ (LoopAlive => LoopAlive')
  PROVE  RoundsInv'
<1>1. ASSUME NEW n \in 1..3, Alive(n) => Alive(n)', Accounted(0, Alive(n))
      PROVE  Accounted(0, Alive(n))'
  BY <1>1 DEF Accounted, UdpTypeInv, TypeOK
<1>2. ASSUME LoopAlive => LoopAlive', Accounted(1, LoopAlive)
      PROVE  Accounted(1, LoopAlive)'
  BY <1>2 DEF Accounted, UdpTypeInv, TypeOK
<1>3. ASSUME NEW n \in 1..3, (n = 3 => nat.open)', myu'[n] = None
      PROVE  Accounted(0, Alive(n))'
  BY <1>1, <1>3 DEF RoundsInv, natVars
<1>4. ASSUME (nat.hairpin /\ mapping = 0 /\ ~udploop)' PROVE Accounted(1, LoopAlive)'
  BY <1>2, <1>4, Zenon DEF RoundsInv, natVars
<1>5. (pc \in {"died", "verdict"} => tries = NTRIES /\ pc = Finish)'
  BY DEF RoundsInv, Finish
<1>6. QED  BY <1>3, <1>4, <1>5 DEF RoundsInv

(* A step that spoils a round pays for it.                                 *)
LEMMA AccountPaid ==
  ASSUME UdpTypeInv, RoundsInv, UNCHANGED nat, myu' = myu, udploop' = udploop,
         mapping' = 0 => mapping = 0,
         pc \in {"send", "wait"}, spoilt' = spoilt + 1,
         \/ UNCHANGED <<pc, tries>>
         \/ NextTry
  PROVE  RoundsInv'
<1>1. ASSUME NEW n \in 1..3, Accounted(0, Alive(n)) PROVE Accounted(0, Alive(n))'
  BY <1>1 DEF Accounted, UdpTypeInv, TypeOK, NextTry, Finish
<1>2. ASSUME Accounted(1, LoopAlive) PROVE Accounted(1, LoopAlive)'
  BY <1>2 DEF Accounted, UdpTypeInv, TypeOK, NextTry, Finish
<1>3. ASSUME NEW n \in 1..3, (n = 3 => nat.open)', myu'[n] = None
      PROVE  Accounted(0, Alive(n))'
  BY <1>1, <1>3 DEF RoundsInv
<1>4. ASSUME (nat.hairpin /\ mapping = 0 /\ ~udploop)' PROVE Accounted(1, LoopAlive)'
  BY <1>2, <1>4, Zenon DEF RoundsInv
<1>5. (pc \in {"died", "verdict"} => tries = NTRIES /\ pc = Finish)'
  <2>1. Finish' = Finish  BY DEF Finish
  <2>2. CASE UNCHANGED <<pc, tries>>  BY <2>2
  <2>3. CASE NextTry
    BY <2>1, <2>3, UdpAssumption DEF NextTry, UdpTypeInv, TypeOK
  <2>4. QED  BY <2>2, <2>3
<1>6. QED  BY <1>3, <1>4, <1>5 DEF RoundsInv

(* One datagram taken, some sent: the others are still under way.          *)
LEMMA OthersAlive ==
  ASSUME UNCHANGED natVars, NEW d \in fly, fly \ {d} \subseteq fly'
  PROVE  /\ \A n \in 1..3 : Alive(n) => \/ Alive(n)'
                                        \/ d.kind = First(n)
                                        \/ d.kind \in Later(n) /\ Mapped(d.addr)
         /\ LoopAlive => LoopAlive' \/ (d.kind = "loop" /\ Mapped(d.addr))
<1>1. \A a : Mapped(a)' <=> Mapped(a)  BY DEF Mapped, natVars
<1>2. ASSUME NEW n \in 1..3, Alive(n)
      PROVE  Alive(n)' \/ d.kind = First(n) \/ (d.kind \in Later(n) /\ Mapped(d.addr))
  <2>1. PICK e \in fly : e.kind = First(n) \/ (e.kind \in Later(n) /\ Mapped(e.addr))
    BY <1>2 DEF Alive
  <2>2. QED  BY <2>1, <1>1 DEF Alive
<1>3. QED  BY <1>1, <1>2 DEF LoopAlive

LEMMA RoundsServers ==
  UdpTypeInv /\ RoundsInv /\ ((\E n \in {1, 2} : ServeUdp(n)) \/ BounceUdp \/ Blocked)
    => RoundsInv'
<1>1. SUFFICES ASSUME UdpTypeInv, RoundsInv,
                      (\E n \in {1, 2} : ServeUdp(n)) \/ BounceUdp \/ Blocked
               PROVE  RoundsInv'
  OBVIOUS
<1>2. UNCHANGED <<natVars, pc, tries, spoilt, myu, udploop>>
  BY <1>1 DEF ServeUdp, BounceUdp, Blocked, clientVars
<1>3. TypeOK /\ mapping \in 0..MaxSpoilt  BY <1>1 DEF UdpTypeInv, TypeOK
<1>4. \A a : Mapped(a)' <=> Mapped(a)  BY <1>2 DEF Mapped, natVars
<1>5. ASSUME \A n \in 1..3 : (n = 3 => nat.open) /\ Alive(n) => Alive(n)',
             nat.hairpin /\ LoopAlive => LoopAlive'
      PROVE  RoundsInv'
  BY <1>1, <1>2, <1>5, AccountKept
<1>6. ASSUME NEW m \in {1, 2}, ServeUdp(m) PROVE RoundsInv'
  <2>1. PICK d \in fly : \E A \in SUBSET Datagrams :
           /\ d.kind = (IF m = 1 THEN "ping1" ELSE "ping2")
           /\ Arrives(d, A)
           /\ Dgram(IF m = 1 THEN "rep1" ELSE "rep2", Pub(m)) \in A
           /\ m = 2 => Dgram("bounce", Pub(2)) \in A
    BY <1>3, <1>6, ServeUdpFly
  <2>2. /\ fly \ {d} \subseteq fly'
        /\ Dgram(IF m = 1 THEN "rep1" ELSE "rep2", Pub(m)) \in fly'
        /\ m = 2 => Dgram("bounce", Pub(2)) \in fly'
    BY <2>1, ArrivesFly
  <2>3. Mapped(Pub(1)) /\ Mapped(Pub(2))  BY <1>3, PubAddr
  <2>4. m = 1 => Alive(1)'
    BY <2>2, <2>3, <1>4 DEF Alive, Later, Dgram
  <2>5. m = 2 => Alive(2)' /\ Alive(3)'
    BY <2>2, <2>3, <1>4 DEF Alive, Later, Dgram
  <2>6. ASSUME NEW n \in 1..3, Alive(n) PROVE Alive(n)'
    <3>1. d.kind \notin Later(n) /\ (d.kind = First(n) => (m = 1 <=> n = 1))
      BY <2>1 DEF First, Later
    <3>2. Alive(n)' \/ d.kind = First(n)
      BY <2>2, <2>6, <3>1, <1>2, OthersAlive
    <3>3. QED  BY <3>1, <3>2, <2>4, <2>5
  <2>7. LoopAlive => LoopAlive'
    <3>1. d.kind # "loop"  BY <2>1
    <3>2. QED  BY <3>1, <2>2, <1>2, OthersAlive
  <2>8. QED  BY <2>6, <2>7, <1>5
<1>7. CASE BounceUdp
  <2>1. PICK d \in fly : d.kind = "bounce" /\ Arrives(d, {Dgram("rep3", d.addr)})
    BY <1>7 DEF BounceUdp
  <2>2. fly \ {d} \subseteq fly' /\ Dgram("rep3", d.addr) \in fly'
    BY <2>1, ArrivesFly
  <2>3. ASSUME NEW n \in 1..3, Alive(n) PROVE Alive(n)'
    <3>1. \/ Alive(n)'
          \/ d.kind = First(n)
          \/ d.kind \in Later(n) /\ Mapped(d.addr)
      BY <2>2, <2>3, <1>2, OthersAlive
    <3>2. d.kind # First(n) /\ (d.kind \in Later(n) => n = 3)
      BY <2>1 DEF First, Later
    <3>3. Mapped(d.addr) => Alive(3)'  BY <2>2, <1>4 DEF Alive, Later, Dgram
    <3>4. QED  BY <3>1, <3>2, <3>3
  <2>4. LoopAlive => LoopAlive'
    BY <2>1, <2>2, <1>2, OthersAlive
  <2>5. QED  BY <2>3, <2>4, <1>5
<1>8. CASE Blocked
  <2>1. PICK d \in fly : ForClient(d) /\ ~Reaches(d) /\ Arrives(d, {})
    BY <1>8 DEF Blocked
  <2>2. fly \ {d} \subseteq fly'  BY <2>1, ArrivesFly
  <2>3. ASSUME NEW n \in 1..3, n = 3 => nat.open, Alive(n) PROVE Alive(n)'
    <3>1. \/ Alive(n)'
          \/ d.kind = First(n)
          \/ d.kind \in Later(n) /\ Mapped(d.addr)
      BY <2>2, <2>3, <1>2, OthersAlive
    <3>2. d.kind # First(n)  BY <2>1 DEF First, ForClient
    <3>3. ~(d.kind \in Later(n) /\ Mapped(d.addr))
      BY <2>1, <2>3 DEF Later, ForClient, Reaches
    <3>4. QED  BY <3>1, <3>2, <3>3
  <2>4. nat.hairpin /\ LoopAlive => LoopAlive'
    <3>1. nat.hairpin => ~(d.kind = "loop" /\ Mapped(d.addr))
      BY <2>1 DEF Reaches
    <3>2. QED  BY <3>1, <2>2, <1>2, OthersAlive
  <2>5. QED  BY <2>3, <2>4, <1>5
<1>9. QED  BY <1>1, <1>6, <1>7, <1>8

LEMMA RoundsRecv == UdpTypeInv /\ AddrInv /\ RoundsInv /\ RecvUdp => RoundsInv'
<1>1. SUFFICES ASSUME UdpTypeInv, AddrInv, RoundsInv, RecvUdp PROVE RoundsInv'
  OBVIOUS
<1>2. PICK d \in fly :
        /\ Reaches(d) /\ Arrives(d, {})
        /\ \/ d.kind = "loop" /\ udploop' = TRUE /\ UNCHANGED myu
           \/ d.kind # "loop" /\ CheckUdp(Server(d.kind), d.addr) /\ UNCHANGED udploop
  BY <1>1 DEF RecvUdp
<1>3. UNCHANGED <<natVars, pc, tries, spoilt>> /\ pc \notin {"died", "verdict"}
  BY <1>1 DEF RecvUdp
<1>4. fly \ {d} \subseteq fly'  BY <1>2, ArrivesFly
<1>5. d.kind \in {"rep1", "rep2", "rep3", "loop"}  BY <1>2 DEF Reaches
<1>6. d.addr # None  BY <1>5, <1>1 DEF AddrInv, Reports, TrueAddr
<1>7. myu \in [1..3 -> Addrs \cup {None}]  BY <1>1 DEF UdpTypeInv, TypeOK
<1>8. ASSUME NEW n \in 1..3, myu'[n] = None
      PROVE  myu[n] = None /\ (d.kind \in Later(n) => FALSE)
  <2>1. CASE d.kind = "loop"  BY <2>1, <1>2, <1>8 DEF Later
  <2>2. CASE d.kind # "loop"
    <3>1. /\ Server(d.kind) \in 1..3 /\ CheckUdp(Server(d.kind), d.addr)
          /\ d.kind \in Later(n) => Server(d.kind) = n
      BY <2>2, <1>2, <1>5 DEF Server, Later
    <3>2. QED  BY <3>1, <1>6, <1>7, <1>8 DEF CheckUdp
  <2>3. QED  BY <2>1, <2>2
<1>9. ASSUME NEW n \in 1..3, myu'[n] = None, Alive(n) PROVE Alive(n)'
  <2>1. \/ Alive(n)'
        \/ d.kind = First(n)
        \/ d.kind \in Later(n) /\ Mapped(d.addr)
    BY <1>3, <1>4, <1>9, OthersAlive
  <2>2. d.kind # First(n)  BY <1>5 DEF First
  <2>3. QED  BY <2>1, <2>2, <1>8, <1>9
<1>10. ASSUME ~udploop' PROVE ~udploop /\ (LoopAlive => LoopAlive')
  <2>1. d.kind # "loop" /\ UNCHANGED udploop  BY <1>2, <1>10
  <2>2. QED  BY <2>1, <1>3, <1>4, <1>10, OthersAlive
<1>11. QED  BY <1>1, <1>3, <1>8, <1>9, <1>10, AccountKept

LEMMA RoundsSend == UdpTypeInv /\ AddrInv /\ RoundsInv /\ SendPings => RoundsInv'
<1>1. SUFFICES ASSUME UdpTypeInv, AddrInv, RoundsInv, SendPings PROVE RoundsInv'
  OBVIOUS
<1>2. /\ pc = "send" /\ pc' = "wait" /\ tries' = tries /\ spoilt' = spoilt
      /\ myu' = myu /\ udploop' = udploop /\ UNCHANGED natVars
  BY <1>1 DEF SendPings
<1>3. tries \in Nat /\ spoilt \in Nat  BY <1>1 DEF UdpTypeInv, TypeOK
<1>4. Dgram("ping1", None) \in fly' /\ Dgram("ping2", None) \in fly'
  BY <1>1 DEF SendPings
<1>5. ASSUME NEW n \in 1..3 PROVE Alive(n)'
  BY <1>4 DEF Alive, First, Dgram
<1>6. ASSUME NEW n \in 1..3, (n = 3 => nat.open)', myu'[n] = None
      PROVE  Accounted(0, Alive(n))'
  <2>1. Accounted(0, Alive(n))  BY <1>1, <1>2, <1>6 DEF RoundsInv, natVars
  <2>2. QED  BY <2>1, <1>2, <1>3, <1>5 DEF Accounted
<1>7. ASSUME nat.hairpin', mapping' = 0, ~udploop' PROVE Accounted(1, LoopAlive)'
  <2>1. mapping = 0 /\ nat.hairpin /\ ~udploop  BY <1>2, <1>7, Zenon DEF natVars
  <2>2. Accounted(1, LoopAlive)  BY <2>1, <1>1, Zenon DEF RoundsInv
  <2>3. CASE myu[2] = None
    <3>1. Accounted(0, Alive(2))  BY <2>3, <1>1 DEF RoundsInv
    <3>2. QED  BY <3>1, <1>2, <1>3 DEF Accounted
  <2>4. CASE myu[2] # None
    <3>1. myu[2] = Pub(2)  BY <2>1, <2>4, <1>1 DEF AddrInv
    <3>2. Dgram("loop", myu[2]) \in fly'  BY <2>4, <1>1 DEF SendPings
    <3>3. Mapped(Pub(2))'  BY <1>2 DEF Mapped, Pub, natVars
    <3>4. Pub(2)' = Pub(2)  BY <1>2 DEF Pub, natVars
    <3>5. LoopAlive'  BY <3>1, <3>2, <3>3, <3>4 DEF LoopAlive, Dgram
    <3>6. QED  BY <3>5, <2>2, <1>2, <1>3 DEF Accounted
  <2>5. QED  BY <2>3, <2>4
<1>8. QED  BY <1>2, <1>6, <1>7 DEF RoundsInv

LEMMA RoundsQuiet == UdpTypeInv /\ RoundsInv /\ QuietSecond => RoundsInv'
<1>1. SUFFICES ASSUME UdpTypeInv, RoundsInv, QuietSecond PROVE RoundsInv'  OBVIOUS
<1>2. /\ UNCHANGED <<nat, mapping, fly, myu, udploop, spoilt>> /\ NextTry /\ pc = "wait"
  BY <1>1 DEF QuietSecond, NextTry, natVars
<1>3. (\A n \in 1..3 : ~Alive(n)) /\ ~LoopAlive
  BY <1>1 DEF QuietSecond, Alive, LoopAlive
<1>4. /\ tries \in 1..NTRIES /\ spoilt \in Nat /\ NTRIES \in Nat
  BY <1>1, UdpAssumption DEF UdpTypeInv, TypeOK
<1>5. \/ pc' = "send" /\ tries' = tries + 1
      \/ pc' \in {"died", "verdict"} /\ pc' = Finish' /\ tries' = tries /\ tries = NTRIES
  BY <1>2, <1>4 DEF NextTry, Finish
<1>6. ASSUME NEW n \in 1..3, (n = 3 => nat.open)', myu'[n] = None
      PROVE  Accounted(0, Alive(n))'
  <2>1. Accounted(0, Alive(n))  BY <1>1, <1>2, <1>6 DEF RoundsInv
  <2>2. QED  BY <2>1, <1>2, <1>3, <1>4, <1>5 DEF Accounted
<1>7. ASSUME nat.hairpin', mapping' = 0, ~udploop' PROVE Accounted(1, LoopAlive)'
  <2>1. Accounted(1, LoopAlive)  BY <1>1, <1>2, <1>7, Zenon DEF RoundsInv
  <2>2. QED  BY <2>1, <1>2, <1>3, <1>4, <1>5 DEF Accounted
<1>8. QED  BY <1>5, <1>6, <1>7 DEF RoundsInv

LEMMA RoundsStep == UdpTypeInv /\ AddrInv /\ RoundsInv /\ [Next]_vars => RoundsInv'
<1>1. SUFFICES ASSUME UdpTypeInv, AddrInv, RoundsInv, [Next]_vars PROVE RoundsInv'
  OBVIOUS
<1>2. CASE LateRound
  BY <1>1, <1>2, AccountPaid DEF LateRound, NextTry, Spoils, natVars
<1>3. CASE Lose
  BY <1>1, <1>3, AccountPaid DEF Lose, Spoils, natVars, clientVars
<1>4. CASE NewMapping
  BY <1>1, <1>4, AccountPaid DEF NewMapping, Spoils, clientVars, UdpTypeInv, TypeOK
<1>5. CASE UNCHANGED vars
  BY <1>1, <1>5 DEF vars, natVars, clientVars, RoundsInv, Accounted, Alive, LoopAlive,
                    Mapped, Finish
<1>6. QED
  BY <1>1, <1>2, <1>3, <1>4, <1>5, RoundsServers, RoundsRecv, RoundsSend, RoundsQuiet
     DEF Next

LEMMA Inductive == Spec => [](UdpTypeInv /\ AddrInv /\ SoundInv /\ RoundsInv)
<1>1. Init => RoundsInv
  <2>1. SUFFICES ASSUME Init PROVE RoundsInv  OBVIOUS
  <2>2. Accounted(0, FALSE) /\ \A n \in 1..3 : Accounted(0, Alive(n))
    BY <2>1 DEF Init, Accounted
  <2>3. Accounted(1, LoopAlive)  BY <2>1 DEF Init, Accounted
  <2>4. QED  BY <2>1, <2>2, <2>3 DEF Init, RoundsInv
<1>2. QED  BY <1>1, AddrSound, RoundsStep, PTL DEF Spec

-----------------------------------------------------------------------------
(* natcheck gives up on the servers only if every round was disturbed.     *)
THEOREM GivesUpRightly == Spec => []DiedMeansSpoilt
<1>1. UdpTypeInv /\ RoundsInv => DiedMeansSpoilt
  <2>1. SUFFICES ASSUME UdpTypeInv, RoundsInv, pc = "died" PROVE spoilt >= NTRIES
    BY DEF DiedMeansSpoilt
  <2>2. tries = NTRIES /\ (myu[1] = None \/ myu[2] = None)
    BY <2>1 DEF RoundsInv, Finish
  <2>3. Accounted(0, Alive(1)) \/ Accounted(0, Alive(2))  BY <2>1, <2>2 DEF RoundsInv
  <2>4. QED  BY <2>1, <2>2, <2>3 DEF Accounted, UdpTypeInv, TypeOK
<1>2. QED  BY <1>1, Inductive, PTL

(* "unsolicited messages filtered" is NO of a permissive NAT, and of no    *)
(* other, whenever one round was left alone.                               *)
THEOREM FilteringIsFound == Spec => []UnsolicitedExact
<1>1. UdpTypeInv /\ SoundInv /\ RoundsInv => UnsolicitedExact
  <2>1. SUFFICES ASSUME UdpTypeInv, SoundInv, RoundsInv PROVE UnsolicitedExact
    OBVIOUS
  <2>2. ASSUME pc = "verdict", nat.open, spoilt < NTRIES, myu[3] = None PROVE FALSE
    <3>1. tries = NTRIES /\ Accounted(0, Alive(3))  BY <2>1, <2>2 DEF RoundsInv
    <3>2. QED
      BY <2>1, <2>2, <3>1, UdpAssumption DEF Accounted, UdpTypeInv, TypeOK
  <2>3. QED  BY <2>1, <2>2 DEF UnsolicitedExact, SoundInv
<1>2. QED  BY <1>1, Inductive, PTL

(* "loopback translation" is YES of a hairpin NAT that keeps its mapping,  *)
(* and of no other, whenever two rounds were left alone.                   *)
THEOREM HairpinIsFound == Spec => []LoopbackExact
<1>1. UdpTypeInv /\ SoundInv /\ RoundsInv => LoopbackExact
  <2>1. SUFFICES ASSUME UdpTypeInv, SoundInv, RoundsInv PROVE LoopbackExact
    OBVIOUS
  <2>2. ASSUME pc = "verdict", nat.hairpin, mapping = 0, spoilt < NTRIES - 1, ~udploop
        PROVE  FALSE
    <3>1. tries = NTRIES /\ Accounted(1, LoopAlive)
      BY <2>1, <2>2, Zenon DEF RoundsInv
    <3>2. spoilt + 1 >= tries  BY <3>1, <2>2 DEF Accounted
    <3>3. spoilt \in Nat /\ NTRIES \in Nat  BY <2>1, UdpAssumption DEF UdpTypeInv, TypeOK
    <3>4. tries = NTRIES /\ spoilt < NTRIES - 1  BY <3>1, <2>2
    <3>5. QED  BY <3>2, <3>3, <3>4
  <2>3. QED  BY <2>1, <2>2, Zenon DEF LoopbackExact, SoundInv
<1>2. QED  BY <1>1, Inductive, PTL

(* "consistent translation" is the truth of a NAT that keeps its mapping.  *)
THEOREM TranslationIsFound == Spec => []ConsistentExact
<1>1. AddrInv /\ RoundsInv => ConsistentExact
  <2>1. SUFFICES ASSUME AddrInv, RoundsInv, pc = "verdict", mapping = 0
                 PROVE  myu[1] = myu[2] <=> ~nat.symmetric
    BY DEF ConsistentExact
  <2>2. myu[1] # None /\ myu[2] # None  BY <2>1 DEF RoundsInv, Finish
  <2>3. myu[1] = Pub(1) /\ myu[2] = Pub(2)  BY <2>1, <2>2 DEF AddrInv
  <2>4. CASE nat.symmetric  BY <2>3, <2>4 DEF Pub
  <2>5. CASE ~nat.symmetric  BY <2>3, <2>5 DEF Pub
  <2>6. QED  BY <2>4, <2>5
<1>2. QED  BY <1>1, Inductive, PTL
=============================================================================
