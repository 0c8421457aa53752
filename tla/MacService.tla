----------------------------- MODULE MacService -----------------------------
(* The configuration service over raw Ethernet frames, src/src/mac:         *)
(* receiver.c with communication.c.  It takes the hardware address of the   *)
(* first interface that has one, reads frames from the wire, sets the       *)
(* address of eth0 when it is asked to and answers with the address eth0    *)
(* has.                                                                     *)
(*                                                                          *)
(* compare() compares seven bytes where an address has six, so what stands  *)
(* behind the two arrays must equal the first byte of the sender's address: *)
(* "behind" is that memory, different in every build.                       *)
(* The kernel is external: setting 0.0.0.0 takes the address away, and an   *)
(* interface without an address makes SIOCGIFADDR and SIOCGIFNETMASK fail.  *)
(* Of what is told (address, mask, gateway) the model keeps the address.    *)
(* Between the parts of an answer (the address, the mask, the program that  *)
(* is run for the gateway, the sending) others may give eth0 another one.   *)
EXTENDS Naturals, Sequences

CONSTANTS
  Address,      \* the addresses of eth0
  NoAddress,    \* the address of an interface that has none
  FirstByte,    \* first bytes of hardware addresses
  MaxFds        \* the descriptors the service may open besides its own

ASSUME MacAssumption == NoAddress \notin Address /\ MaxFds \in Nat /\ MaxFds > 0

VARIABLES
  state,        \* "starting", "serving", what an answer does next, "exited"
  hwaddr,       \* the interface whose hardware address was taken
  behind,       \* the byte behind the broadcast address and behind hwaddr
  eth0,         \* the address eth0 has
  fds,          \* descriptors opened and never closed
  temp_ip,      \* the buffer the address is read into
  reply,        \* the last answer: its turn (alternating) and the address told
  had           \* history: what eth0 had since the last command was carried out

macVars == <<state, hwaddr, behind, eth0, fds, temp_ip, reply, had>>

Interfaces == {"lo", "eth0", "wlan0", "docker0"}

\* get_hwaddr copies six characters of a name, and finds no docker0.
HasHardwareAddress == {"eth0", "wlan0"}

\* The lists read_netdev_proc may return: three names at most
Devices == {d \in UNION {[1..n -> Interfaces] : n \in 0..3} :
              \A i, j \in DOMAIN d : d[i] = d[j] => i = j}

Messages ==
  [verb : {"", "getdev", "other"}, mac : {"none"}, ip : {"none"}]
  \cup [verb : {"ModifyNetInfo"}, mac : {"none"}, ip : {"none"}]
  \cup [verb : {"ModifyNetInfo"}, mac : {"own", "prefix", "foreign"},
        ip : Address \cup {"invalid", "none"}]

Frames == [dst : {"broadcast"} \cup Interfaces, src : FirstByte,
           protocol : {"0x88", "else"}, msg : Messages]

MacInit ==
  /\ state = "starting" /\ hwaddr = "none"
  /\ behind \in [{"comparision", "hwaddr"} -> FirstByte]
  /\ eth0 \in Address \cup {NoAddress}
  /\ fds = 0 /\ temp_ip = NoAddress
  /\ reply = [turn |-> 0, ip |-> NoAddress] /\ had = {}

\* The loop over the names stops at the first one with a hardware address.
\* get_hwaddr leaves its socket open at one whose address is zero, which is lo.
\* Where none has an address, six zeros are left: those of lo.
Start ==
  /\ state = "starting"
  /\ \E names \in Devices :
       LET found == {i \in DOMAIN names : names[i] \in HasHardwareAddress}
           tried == {i \in DOMAIN names : \A j \in found : i < j}
       IN  /\ fds' = IF \E i \in tried : names[i] = "lo" THEN 1 ELSE 0
           /\ hwaddr' \in IF found = {} THEN {"lo"}
                          ELSE {names[i] : i \in {k \in found : \A j \in found : k <= j}}
  /\ state' = "serving"
  /\ UNCHANGED <<behind, eth0, temp_ip, reply, had>>

compare(f) ==
  \/ f.dst = "broadcast" /\ f.src = behind["comparision"]
  \/ f.dst = hwaddr /\ f.src = behind["hwaddr"]

\* strncmp over the length of the token: a prefix of the address will do
Mine(msg) == msg.mac \in {"own", "prefix"}

\* The messages after which the loop goes on without an answer
Dropped(msg) ==
  \/ msg.verb = "other"
  \/ msg.verb = "ModifyNetInfo" /\ msg.mac = "none"
  \/ msg.verb = "ModifyNetInfo" /\ Mine(msg) /\ msg.ip = "none"

Sets(msg) == msg.verb = "ModifyNetInfo" /\ Mine(msg)

\* One descriptor more, if there is one
Opened(n) == IF n < MaxFds THEN n + 1 ELSE n

\* SetIfAddr below, with the text it was given for the address
SetIfAddrUnread(msg) ==
  IF ~Sets(msg) \/ fds = MaxFds THEN {eth0} ELSE {eth0, msg.ip}

\* The addresses eth0 may have after SetIfAddr, which never closes its socket.
\* inet_aton returns 0 for a text that is no address and the code looks for a
\* negative value, so the address is taken away; the ioctl may fail.
SetIfAddr(msg) ==
  IF ~Sets(msg) \/ fds = MaxFds THEN {eth0}
  ELSE {eth0, IF msg.ip = "invalid" THEN NoAddress ELSE msg.ip}

Receive(f) ==
  /\ state = "serving"
  /\ compare(f) /\ f.protocol = "0x88" /\ ~Dropped(f.msg)
  /\ eth0' \in SetIfAddr(f.msg) /\ had' = {eth0'}
  /\ fds' = IF Sets(f.msg) THEN Opened(fds) ELSE fds
  /\ state' = "get_ip"
  /\ UNCHANGED <<hwaddr, behind, temp_ip, reply>>

\* get_ip below, an address that was read once kept
GetIpOnce ==
  /\ state = "get_ip"
  /\ temp_ip' = IF fds = MaxFds \/ temp_ip # NoAddress THEN temp_ip ELSE eth0
  /\ fds' = Opened(fds)
  /\ state' = "GetLocalNetMask"
  /\ UNCHANGED <<hwaddr, behind, eth0, reply, had>>

\* It leaves its socket open and, when it fails, the buffer as it was.
get_ip ==
  /\ state = "get_ip"
  /\ temp_ip' = IF fds = MaxFds \/ eth0 = NoAddress THEN temp_ip ELSE eth0
  /\ fds' = Opened(fds)
  /\ state' = "GetLocalNetMask"
  /\ UNCHANGED <<hwaddr, behind, eth0, reply, had>>

\* It closes its socket unless the ioctl fails.
GetLocalNetMask ==
  /\ state = "GetLocalNetMask"
  /\ fds' = IF eth0 = NoAddress THEN Opened(fds) ELSE fds
  /\ state' = "sendto"
  /\ UNCHANGED <<hwaddr, behind, eth0, temp_ip, reply, had>>

Answer ==
  /\ state = "sendto"
  /\ reply' = [turn |-> 1 - reply.turn, ip |-> temp_ip]
  /\ state' = "serving"
  /\ UNCHANGED <<hwaddr, behind, eth0, fds, temp_ip, had>>

\* recvfrom or sendto fails: the program ends, the address set or not.
Exit ==
  /\ state \in {"serving", "sendto"}
  /\ state' = "exited"
  /\ UNCHANGED <<hwaddr, behind, eth0, fds, temp_ip, reply, had>>

Ignore(f) ==
  /\ state = "serving"
  /\ ~compare(f) \/ f.protocol # "0x88" \/ Dropped(f.msg)
  /\ UNCHANGED macVars

\* Somebody else gives eth0 an address or takes it away, at any time.
OthersSet ==
  /\ state \notin {"starting", "exited"}
  /\ eth0' \in Address \cup {NoAddress} /\ had' = had \cup {eth0'}
  /\ UNCHANGED <<state, hwaddr, behind, fds, temp_ip, reply>>

MacNext ==
  \/ Start
  \/ \E f \in Frames : Receive(f) \/ Ignore(f)
  \/ get_ip \/ GetLocalNetMask \/ Answer \/ Exit
  \/ OthersSet

MacSpec == MacInit /\ [][MacNext]_macVars

MacTypeOK ==
  /\ state \in {"starting", "serving", "get_ip", "GetLocalNetMask", "sendto",
                "exited"}
  /\ hwaddr \in Interfaces \cup {"none"}
  /\ eth0 \in Address \cup {NoAddress} /\ temp_ip \in Address \cup {NoAddress}
  /\ fds \in 0..MaxFds /\ had \subseteq Address \cup {NoAddress}
  /\ reply \in [turn : 0..1, ip : Address \cup {NoAddress}]

\* An answer tells an address that eth0 had after the command it answers was
\* carried out.  It need not be the one eth0 has when it is sent: receiver.c
\* reads the address (128) and looks for the mask and the gateway before it
\* sends (135), and others may have set it meanwhile.  If eth0 was without an
\* address for a time, or the sockets that get_ip, SetIfAddr and get_hwaddr
\* never close have used up the descriptors, it may repeat what the answer
\* before it told, however old (main keeps its buffer): never anything else.
AnswerIsCurrent ==
  [][reply' # reply =>
       \/ reply'.ip \in had \ {NoAddress}
       \/ reply'.ip = reply.ip /\ (NoAddress \in had \/ fds = MaxFds)]_macVars
=============================================================================
