# Clittle: a verification project

Clittle is a collection of small C and C++ programs. This directory holds TLA+
models of those with logic of their own (concurrent, stored or reading an
input), the TLC configurations that check them, and proofs for TLAPS of the
properties that matter most. Paths are relative to the repository (`src/` is its
source directory; the models name files by their path under it).

Contents: [inventory](#1-inventory), [modules](#2-modules-and-the-code),
[runs and bounds](#3-runs), [fairness](#4-fairness), [proofs](#5-proofs),
[findings](#6-what-the-checks-say-of-the-code),
[what is left out](#7-what-is-not-modelled-and-why), [plan](#8-plan).

## 1. Inventory

`PROJECT.json` lists every component with its files and its hazards at their
lines. In short, the ones with logic of their own:

| component | state | operations | what is hard | what makes it correct |
|---|---|---|---|---|
| **P2P hole punching server** `P2P/P2PServer/P2PServer.cpp` | `ClientList` | LOGIN, LOGOUT, P2PTRANS, GETALLUSER, one datagram at a time | requests of many clients in any order, lost or late; an exception ends the loop | the list is a directory of the logged-in; every request can be served |
| **P2P hole punching client** `P2P/P2PClient/P2PClient.cpp` | own `ClientList`, `RecvedACK`, the retry loop, two threads on one socket | login, `send`, `getu`, `exit`; the receive thread's five kinds of `recvfrom` | replies of several datagrams, each read by "the next one that comes"; an answer without a number; ten polls against a late answer; no lock | "Send OK!" is said of a text that was shown, "Send Failure!" after the last round of a peer that is gone, and at once of a name nobody listed before has; `SendMessageTo` returns |
| **NAT check servers** `P2P/natserver.c` | one process per connection and three blocking waits with time limits | servetcp, serveudp, bouncetcp, bounceudp | server 2's answer depends on server 3's handler ending a connection; 5 s against 20 s; failing handlers | the answer to natcheck comes after server 3's call, and comes |
| **NAT check client** `P2P/natcheck.c` | seven sockets, three fd sets, what each server reported, flags | listentcp, checktcp, checkloopback, checkudp, recvudp, the verdict | simultaneous open; what arrives between two calls of one loop; loss and reordering of UDP; 20 tries of a second | every printed verdict is true of the translator |
| **Memory leak checker** `gcc/warp_malloc/` | the map of blocks under a mutex, the monitor thread, the check point | the `--wrap` wrappers, the report, constructor and destructor | two steps (libc, map) per call on several threads; realloc's four outcomes; a monitor joined under the mutex | whenever nobody is inside, the map is what came through the wrappers and is not freed; shutdown ends |
| **Message ring buffer** `ringBuffer/ringBuffer.c` | cursor, slots | add, clear, to_string | wrap-around; the cursor never comes back; a text that does not fit | the reader gets the last three messages, oldest first, or nothing |
| **Integer array** `Storage/linear/array/intarray.c` | block, size, capacity | init, add, remove, find, grow, reduce, destroy | sizes 0 and 1, shrink after remove, bytes against ints | a sequence, kept within its block |
| **Heap over the array** `Storage/linear/array/heap.c` | the array | the two shifts | exchange by product and quotient in ints | a shift permutes the values |
| **Linked list** `Storage/linear/linklist/` | nodes, head | init, add, remove, destroy | a pointer used between two steps; data never set; what a comparison means | a sequence, of which a removal takes the first greater value; no node lost, none used after its free |
| **Binary search tree** `Storage/tree/tree.c` | nodes, size, depth | add, print | equal values | prints each value once, in order, with its count |
| **C declaration reader** `FSM/cAnalizeFsm.c` | next state, token stack, token | six state functions | end of input; empty and full stack; brackets around any nesting | reads what C means by the declaration, within its stack, and ends |
| **UTF-8, Unicode and NCR conversion** `utf8ToUnicodeToNCR/` | a cursor, a buffer | conversions in both directions, classification | lengths at a boundary, malformed input, a loop that must move | there and back is the text; the buffer is kept; a call returns |
| **Raw Ethernet service** `mac/receiver.c`, `mac/communication.c` | address of eth0, descriptors, a buffer | receive, set, answer | which frames are for it; a failing ioctl leaves an old buffer; others set the address while an answer is put together | the answer is an address eth0 had since the command |
| malloc hook `gcc/malloc_hook/mallochook.c` | hook pointers | the hooks, replace, restore | the library's own calls | (not modelled) |

The rest is demonstrations, I/O and formatting: UDP proxy, Unix sockets,
network information, HEX readers, timing and random numbers, file utilities,
encryption, system utilities, LD_PRELOAD, exercises.

How they interact. The P2P client and server share `proto.h` and speak UDP; the
server introduces clients to each other, the clients then exchange datagrams
past their translators. natcheck speaks TCP and UDP to three natservers; server
2 asks server 3, over TCP or UDP, to call natcheck. The leak checker is a
library inside a program, which calls it through the linker's `--wrap` and
shares global names with it. The heap is the integer array under another name;
the linked list is reached through function pointers of a storage interface.
The service over Ethernet talks to the kernel. No other components interact.

## 2. Modules and the code

### P2P hole punching

`P2PNet` is the network: `net[s][d]` is what is under way from socket `s` to
socket `d`; `hole[p]` is whom `p` has sent to, which is what its translator
lets in (`Passes`). `InOrder` and `Lossy` say what a path may do. A socket is a
process: a client started again is another `Peer`, with the same name if
`NameOf` says so. `P2PServer` has one action per case of the switch
(`Login`, `Logout`, `P2PTrans`, `GetAllUser`, `ServerIgnores`): the loop is one
thread, so a case is one step with all its replies. An unknown name in P2PTRANS
is the exception whose handler lies outside the loop: the server's socket
closes. `P2PClient` has the main thread (`pc`) and the receive thread (`rpc`):
each blocking `recvfrom` is a value of `pc` or `rpc` and an action that takes
*any* datagram that can arrive, as the code does. `IsInt`, `TypeOf` and
`NodeOf` say what a read of the wrong size makes of it. `SendMessageTo` is
`FindUser`, or `NotFound` for a name its own list does not have, which is "Send
Failure!" at once; then rounds of `SendHeader` and `SendText` (two calls of
`sendto`, between which the receive thread may send), ten looks (`SeeACK`,
`MissACK`), one more sleep without a look (`AskServer`), a pause (`Retry`), and
after the last round `GiveUp`, the other "Send Failure!". `P2P` composes them and states the properties. `P2PDirectory` is the abstract
specification: a set that processes join and, once gone, leave.

Abstractions, each a choice a reader may want to know of:

- Texts are 5 to 12 bytes with their terminator, so that a text is longer than
  an int and shorter than a node; a header read as text is not told from
  another text. A text buffer is overrun only by a node, which is longer than
  what the header announced: the process may end there.
- Failures of `recvfrom` (`RecvErrors`) include Windows' report of a closed
  remote port.
- The walk of `ClientList` in `SendMessageTo` is one step, except that the
  receive thread may clear the list while it is being walked (`pc = "find"`):
  the outcome is a walk before, a walk after, or the end of the process.
- A translator's entry never expires and UDP does not duplicate. With `InOrder`
  a path is first in, first out, for what is received and for what a translator
  stops.
- `shown`, `eaten` and `okays` are history: what appeared on the screens.

### Memory leak checker

`CheckMemoryLeak` has the program's threads, which call the wrappers with the
pointers a correct program may pass, libraries that allocate without wrappers,
the monitor thread, and the destructor. A wrapper is the sequence the code
has: `Lock`, the call of libc, the changes of the map, `Unlock`, each a step,
so what the mutex is for can be seen. It is a plain mutex
(`PTHREAD_MUTEX_INITIALIZER`), and no path takes it twice. `realloc` may resize in place, move, fail, or (0 bytes)
free. `MonitorCheck`, `MonitorSize`, `MonitorWake` are the loop of the monitor,
which reads the map's size without the mutex. `Clash` is a thread whose id the
program keeps in its own global `monitor_id`: the repository's test program
does so, and with `-rdynamic` both names are one variable. `MallocTracker` is
the abstract specification: allocations, frees and reports, one at a time.
Left out: the text of the back traces and of the reports, the hooks that
`__HOOK__ 0` compiles out, and libraries that free the program's blocks.

### NAT check, TCP

`NatNet` is external: a translator (three ways to treat what nobody asked for,
three to treat a connection to its own public address, one port per
destination or not), the segments under way with their age, the kernels'
connection states. A segment lives at most `Delay` seconds. A SYN to a port
nobody listens on is answered by a reset; a SYN at a socket that is itself
connecting to the sender is a simultaneous open, otherwise it is the listening
socket's. The handshakes with servers 1 and 2 are one segment each.
`NatServer` has the handlers of `natserver.c`: `s2`, `s3` are what a handler
waits for, `timer2`, `timer3` the limit. `faulty` names the one server whose
handlers fail in this run. `NatCheck` is the loop of `natcheck.c`: `pc` walks
through the calls that follow each return of `select`, so anything may arrive
between two of them. `NatTcp` adds the clock: a second passes only when no
process has anything it could do at once.

### NAT check, UDP

`NatUdp` has serveudp, bounceudp, checkudp and recvudp, the pings and the
verdict. Datagrams are a set (two copies of one datagram are one), an address
is a port and the number of the mapping it belongs to. `spoilt` counts losses,
rounds that end before their answers are in, and new mappings; `dups`
duplications. TCP and UDP are separate modules although one loop serves both:
they share no variable but the tries, and a datagram's only effect on TCP, that
`select` returns early and starts its second again, is in `NatTcp`'s `Tick`
(`extra`). What the split hides: a TCP connection that is refused ends natcheck
and loses the UDP verdicts too.

### Containers

One module per container; each call that loops is a sequence of steps, one per
iteration, because the properties are about what the loop leaves at every
point. An access outside a block, to freed memory, or to data that was never
set leads to `"undefined"`, a state without successor: what such a program does
is not modelled, and the properties say when it is reached.

- `RingBuffer` is `ringBuffer.c` with `MAX_MSG_ITEMS` slots. `cursor` counts
  the messages since the last clear and is bounded by `MaxCursor` (`INT_MAX` in
  the code). `Walk` is the walk `_msg_to_string` makes twice, once for the
  length and once for the text. `LastMessages` is the abstract specification:
  a sequence that forgets its first message when it is full.
- `IntArray` is `intarray.c`. `Room` is how many ints fit the bytes
  `int_array_reduce` asks for. After a grow that fails nothing has changed, so it
  is no step; a reduce that finds no memory is a choice. `AddCall` and
  `RemoveCall` are the calls, `Found` and `Missed` the outcomes of the search.
- `IntList` is the abstract specification of a list. `call` is the call under
  way with its place and value: one that adds puts that value in behind that
  place, or nothing; one that removes takes out one element of those the value
  means (`Meant`), and none only if there is none. For the array, a value means
  its equals.
- `IntHeap` has the index functions and the two shifts on a full array; `Times`
  wraps round, `By` cuts towards zero.
- `LinkList` has nodes as memory blocks, the call of `linklist_add` and its
  `ListAdd`, the loops of `linklist_remove` and `linklist_destory`. It implements
  `IntList` with another meaning of a value: `linklist_compare` and the test of
  its result match what is *greater* (`Greater`), and an equal element stays.
  The refinement is about place, order and the first match, and takes the
  comparison as the code has it (see section 6).
- `BSTree` names a node by the turns that lead to it; `BSTree_add` descends one
  node per step.
- `MCStorage` joins them for TLC: `which` picks the container of a behaviour,
  as they share no state.

### Programs that read an input

- `CDeclaration` is the machine of `cAnalizeFsm.c`: `nextstate` is the function
  pointer `main` follows, a value of its own standing for each loop inside a
  state function. Tokens are words; a number between brackets is one word with
  the words printed for it. The input is a declaration, after which `gettoken`
  returns `EOF` for ever. `Initialize` pushes without looking at `top`, as
  the code does: a push onto a full stack is written behind the array, and what
  comes after it is `"undefined"`, as after a read or pop below the stack.
  `DeclarationGrammar` is the reference: it builds
  declarators by the grammar of C, applying operators to a name, together with
  their meaning, and knows nothing of the stack or the states.
- `Utf8Codec` has the functions on one character, byte for byte, with the
  masks as remainders and the shifts as quotients; `Utf8Ncr` the conversions that use them: `src` and `at`
  are the source and its cursor, `out` what was written, `high` how far the
  buffer was touched, an iteration of the loop is a step. `ConvertBack` is the
  caller who converts the answer back, as the tests do.
- `MacService` is `receiver.c` with `communication.c`: `Start` is the search
  for a hardware address, `Receive` an iteration of the loop up to `SetIfAddr`,
  and `get_ip`, `GetLocalNetMask` and `Answer` (the program run for the gateway,
  and `sendto`) the steps of the answer. The kernel's interface (`eth0`) is
  external: others may change it at any time, between these steps too. `had` is
  history: the addresses eth0 had since the command was carried out. `behind` is the seventh byte `compare` looks at. Frames have
  the fields the code looks at; a mac in a message is the service's own, a
  prefix of it, or another. `fds` counts descriptors that are never closed.
- `MCInputs` joins the three like `MCStorage`.

## 3. Runs

| run | module | properties | expected |
|---|---|---|---|
| p2p_lossy | MCP2P | LoggedInListed, OkaysEarned, SendReturns | pass |
| p2p_getu | MCP2P | TypeOK, ListIsDirectory | pass |
| p2p_timely | MCP2P | OkMeansShown, LastRoundMeansGone, NoNodeMeansAbsent | pass |
| p2p_both_send | MCP2P | OkMeansShown | violation |
| leak_ledger | MCCheckMemoryLeak | TypeOK, MapIsHeap, ReportsAreExact | pass |
| leak_exit | MCCheckMemoryLeak | ExitReported | pass |
| leak_exit_monitored | MCCheckMemoryLeak | ExitReported | violation |
| nat_timely | MCNatTcp | TypeOK, SoonMeansOpen, AnsweredAfterCall, OpenIsSoon, VerdictUnlessRefused, OtherVerdicts, Ends | pass |
| nat_reject | MCNatTcp | RejectDetected | violation |
| nat_udp | NatUdp | TypeOK, DiedMeansSpoilt, UnsolicitedExact, LoopbackExact, ConsistentExact | pass |
| storage | MCStorage | StorageTypeOK, ArrayInBlock, ListIsChain, TreePrintsSorted, RingIsLast, ArrayIsList, HeapKeepsValues, ListIsList | pass |
| inputs | MCInputs | InputsTypeOK, ReadsDeclaration, RoundTrip, BufferKept, StackKept, DeclarationEnds, ConversionReturns, AnswerIsCurrent | pass |

**P2P.** Two clients with two names. With one sender and one receiver every
pair of roles occurs, and a third process would only send the server more of
the same requests. `p2p_lossy`: both clients send, a twice, paths lose and
reorder, b has no translator in its way, the sleeps outlast nothing. Two
messages are needed for an answer to the first to arrive during the second;
`MAXRETRY = 1` keeps the state space small, while a first message given up
after its only round plays the part of an earlier round. `p2p_getu` adds
failing reads and a `getu`, with one sender, so that the reply to the list is
read among messages. `p2p_timely` is the benign case the program is written
for: one sender, nothing lost, a sleep outlasts all datagrams (`Timely`); here
the real number of rounds, five, and two messages, one `getu`, failing reads.
That benign case is where "Send OK!" and the "Send Failure!" after the last
round can be promised at all. "Send Failure!" is printed in a second case, for a
name the caller's own list does not have. That list is the one of the login
until `getu` has it read anew, so a peer who logged in later and runs is not in
it; `NoNodeMeansAbsent` says what remains: nobody who runs and was listed before
the caller has the name, except while a new list is being read and after
something that was no node was read as one. `p2p_both_send` shows that a second
sender is enough to break `OkMeansShown`: b's receive thread, between b's header
and b's text, answers a text of a; a takes header and answer for a message and
answers it, and b says "Send OK!", though its text is read as a header.

**Leak checker.** Two threads and the monitor; two blocks are enough for a
block to be reused by another thread between two steps of the first, and for a
realloc that moves; two calls each for allocate-then-free and
allocate-then-realloc. Sizes 1 and 2 tell a stale size from a new one.
`leak_exit` has size 0 and a `Clash`, and one block: the property is about
control only. Its check point is beyond the blocks there are, so the monitor
never prints; `leak_exit_monitored` is the other case.

**NAT TCP.** Every filter with and without a port per destination, and every
hairpin behaviour (with a filter that drops); each server failing and none
failing; the real 20 tries, 5 s and 20 s. `Delay = 1`: a segment may be
overtaken by the clock once. With 2 the tries are not enough for a slow
handshake, five seconds and the answers, which is a statement about the
network natcheck is meant for, not about its code. `MaxExtra = 1` lets one
datagram move natcheck's seconds against the servers'.

**NAT UDP.** Three tries and up to three disturbances: exactly as many as are
needed for every round to be disturbed, so both sides of "unless every round
was spoilt" occur. The proof is for any number of tries.

**Containers.** `RingIsLast`: every message that is told is one of the last
three, in order, in a ring that has not come round (0 to 2 messages), just has
(3), and has twice (up to 8, `MaxCursor`); a message of 2 bytes and one of 40
with buffers of 150, 200 and 300 bytes make every ring fit or not fit.
`ArrayIsList` and `ArrayInBlock`: arrays created with sizes 1, 3 and 8 (and 0,
which the code allows), up to four elements out of three values, so that an
array fills, grows, is emptied below a quarter of its size, and holds equal
values. `ArrayIsList` ties each call to its place and value: a shift that ends
one too early or a search that is one off violates it. `ArrayInBlock` also says which calls leave the block: an addition to an
array of size 0, and a removal after which a quarter is left, except of the
last element. `HeapKeepsValues`: five nodes, so that a node has two children,
one or none of its own, with values among which some products are ints of the
modelled width (four bits) and some are not; the property is about the former.
`ListIsChain` and `ListIsList`: four blocks, among them the head, so lists of
up to three elements, with blocks used again; two values are enough for equal
and greater ones; `ListIsList` tells a removal of the first greater value from
one of an equal value, which the code does not make. `TreePrintsSorted`: four values, each added up to twice, in
every order.

**Inputs.** `ReadsDeclaration` and `DeclarationEnds`: every declarator of up to
three operators (arrays with and without a size, parameter lists with and
without parameters, pointers, constant pointers) after six lists of specifiers;
three operators are the least that nest a bracket in a bracket. Longer ones
repeat the same alternation of states. Every prefix of up to five tokens stands
for an input that ends too soon; it makes the stack of 12 tokens overflow, as
100 would. `StackKept`: a declaration with a type, whose words before the
identifier fit the stack, makes no write behind it and no read or pop below it.
That is about the pops of the state functions, which go on until they find an
end of their own and must leave the type for `get_type`; it says nothing of cut
input, which does overflow. `RoundTrip`, `BufferKept`, `ConversionReturns`: texts of up to two
pieces (`Pieces`) out of six well-formed characters (each width, and the
boundaries of two bytes) and six malformed ones, references and URL components
with their errors, with buffers from 0 bytes to more than the longest answer. `BufferKept` covers
every conversion; of `url_component_to_utf8`, which keeps to no bound but the
length of its source, it says just that.
Two characters are the least with a cursor that has moved. `AnswerIsCurrent`:
two addresses to tell a stale one from a new one, and to have others set the
second between the reading of the first and the answer; five descriptors, so
that they are used up by at most one leak at start and others later.

Deadlock is not checked: clients exit, natcheck ends, the process that was
watched is down. That something still happens is said by `SendReturns`,
`ExitReported`, `Ends`, `DeclarationEnds`, `ConversionReturns` and, for the
server, `LastRoundMeansGone`.

## 4. Fairness

- P2P: the server's loop, the retry loop and the receive thread run when they
  can (`WF` on each: they are threads of running processes); a user need not
  type anything; the network owes nothing, except that what a translator
  blocks does not stay under way for ever, which `Quiet` of a timely network
  needs. `SendReturns` uses only the fairness of the main thread.
- Leak checker: each thread inside a wrapper, the monitor and the destructor
  run when they can. The program's threads end in the end, and so does main.
  A mutex is taken when it is free for good; no strong fairness is needed as
  calls are bounded.
- NAT TCP: something happens as long as something can (`WF_vars(Next)`). The
  clock is one of the things that can, and a second passes only when no
  process is busy; that is what makes it a clock. Server 3's kernel gives up a
  connection nobody answers, after natcheck has ended.
- Inputs: the declaration reader and the conversions run by themselves once
  called (`WF` on the steps of each). The Ethernet service waits for frames and
  is owed none.

## 5. Proofs

TLAPS checks, for every value of the constants that satisfies the named
assumptions of the modules, what follows. Inductive invariants such as
`DirectoryInv` and `MapInv` are proved; the runs check what they are for.

**P2P** (`P2PProofs`). `Types`: type correctness, strengthened by "a client in a round has a target, and rounds left
while it waits". `LoggedInStaysListed` and `ListImplementsDirectory` assume
that names are unique (`NameOf` is injective). `LoggedInListed` is not
inductive: what protects a client's entry is that a LOGOUT with its name is
under way only once it has exited, that at most one LOGIN of it was ever sent,
and that nobody reaches the prompt without an answer that the server sends to
the listed only. Those are the conjuncts of `DirectoryInv` (`DirectoryHolds`). The refinement
follows from it: the LOGIN step is a `Join` of somebody not yet a member, the
LOGOUT step a `Leave` of somebody gone, an exit is a `Depart`, everything else
a stutter. `OkaysAreEarned` needs no assumption on names. Its invariant,
`AccountInv`, is an account: answers under way to a client (`Acks`, counted by
path and place, as datagrams may be equal), the flag while it is looked at, and
the "Send OK!"s said add up to no more than the texts of it that were read.
Reading a text adds one to both sides; the receive thread moves an answer to
the flag, `SeeACK` moves the flag to a "Send OK!"; everything else can only
lose answers.

`OkIsShown` states `OkMeansShown` for a network that neither loses nor
reorders, sleeps that outlast what is under way, and one client that sends;
`p2p_both_send` shows that two that send to each other already break it. There
may be any number of clients, of any names and translators; they may ask for
the list and their reads may fail. The invariant has three parts. `RolesInv`:
only the sender is ever in the retry loop, and nobody writes to it. `TravelInv`:
which kinds of datagram may be on which path; a request to be called and the
call exist only while the sender pauses. `RoundsInv`: towards everybody else
nothing is under way (`Untold`), and the round towards the target is `Opening`
(the header is out, the text is not), `Waiting` (the text may still be read, the
flag is clear), `Reading` (the header was), or `Answered` (the text is on the
screen). `ProcessInv` says which process has a socket and a receive thread. A round leaves nothing for the next one
because `MissACK` and `Retry` wait for `Quiet`: so the flag, once set, can only
have been set by the answer to the text being sent.

`LastRoundIsGone` states `LastRoundMeansGone` on such a network for two clients of
different names (`OneCaller`), the translators open or not, with at least two
attempts per message; the sender may ask for the list as often as it likes, the
target must not: a read of the list takes a message for a node. Two clients is
where the promise ends: with a third, the sender may ask the server for one
that has logged out, `GetUser` throws, the server returns (`P2PTrans`), and
nobody can be called any more. The argument is that the second round gets
through. `CallerInv` collects what always holds: besides the invariants above,
who is a node in a reply or a name in a request is listed or has ended, so the
server finds it (`NodesInv`); a count is followed by as many nodes and whoever
waits for some has them coming (`ReplyInv`, `LoginInv`). So at the first
`Quiet` after a round nobody can still be logging in or reading a reply
(`QuietReady`); until then a message may be eaten by the target's login or
stopped by its translator. `PhaseInv` follows the target from there: the round
was `Missed`; the server is `Asked`, with the request, the call or the hole in
the translator to show for it; `Again` the sender is about to send and every
other path to the target is empty; `Half` the header is sent or being read and
the text is not; and once `Resent`, the message is on its
path, being read, answered, or the flag is set, so the flag cannot be missed a
second time.

**Leak checker** (`CheckMemoryLeakProofs`). `LeakTypes` for any threads, blocks
and sizes. `MapHolds`, `MapStaysExact` and `ReportsImplementTracker` assume that
0 is not among the sizes. `MapIsHeap` speaks of the moments nobody is inside; `MapInv`
adds mutual exclusion (`LockInv`) and what the map looks like at each line
inside (`HolderInv`): which single address may differ from the heap, and how.
The refinement maps the block table to the heap without the foreign blocks
(`Ours`) and the report to what is printed.

**NAT TCP** (`NatTcpProofs`). `TcpTypes`, for any delay, limits and tries.
`SoonIsSound`: by `QuietInv`, a translator that filters keeps everything server
3 could cause away from natcheck until natcheck itself, told by server 2, calls
server 3; so no callback can come "too soon". `AnswersComeAfterCalls`: by
`HeldInv`, nothing of server 2's answer exists before server 3's handler has
started.

**NAT TCP, the verdicts** (`NatTcpProofs`). `FilteringIsReported`
(`OpenIsSoon`), `VerdictIsReached` (`VerdictUnlessRefused`) and
`TranslationIsReported` (`OtherVerdicts`) assume `Punctual`: server 3 waits more
than two delays for its call, server 2 more than four delays and that wait for
server 3, natcheck more tries than nine delays and that wait. With the code's 5
seconds, 20 seconds and 20 tries this is a network that delivers in a second.
The invariant, `VerdictInv`, says of a test that runs (`Course`) where the
conversation is and by when: `InTime` gives every segment a second at which it
was sent at the latest and every wait a second at which it is over (the clock
stops when a process can go on, so the age of what is under way is what it
took); `Answering`, `Reporting`, `Hairpinning`, `Calling` and `Asking` say that
each step that is still to come has its cause under way; `Refusing`,
`MeetingHalfway` and `CalledIn` what becomes of the two calls between natcheck
and server 3 by the three kinds of translators; `Addresses` whose addresses were
reported. When the tries are used up, every deadline has passed, so nothing is
under way, and what was to come has come (`CourseEnds`).

**NAT UDP** (`NatUdpProofs`). `UdpTypes`, `GivesUpRightly`, `FilteringIsFound`,
`HairpinIsFound`, `TranslationIsFound`, for any number of tries and any bounds.
The argument is an account, `RoundsInv`: as long as a server has not been heard
of, every round that is over has cost one disturbance, and the present one too
unless a datagram that can still bring the answer is under way. `AddrInv` says
that every reported address is one natcheck has had, and under the first
mapping the one of the server that saw it; `SoundInv` that only a permissive
translator lets server 3 in and only a hairpin one the loopback.

**Ring buffer** (`ContainerProofs`). `RingTypeCorrect`, with "a slot is empty
only if the messages have not come round to it", and `RingCorrect`, that the
ring implements `LastMessages`, for any number of slots, messages and buffers.
The argument: the positions of the window are distinct remainders, so a new
message replaces the first of a full window and nothing else (`AddIsAdd`), and
the walk of `_msg_to_string`, stated by its own end condition, visits exactly
the window (`WalkIsWindow`).

**Integer array** (`ContainerProofs`). `ArrayBlockCorrect` (`ArrayInBlock`) and
`ArrayCorrect` (`ArrayIsList`), for any sizes and any bound. `ArrayInv` adds to
the first where the loops are: the index lies between the target and the end,
so that the "hole" that `Elements` leaves out is in the block; shifting moves
the hole and leaves the elements as they are. A call maps to the call of the
list, so its place is where the element appears, and its value what appears or
goes.

**Heap** (`ContainerProofs`). `ShiftsPermute` (`HeapKeepsValues`), for any size
and width of ints. `IntQuotient` says that C's quotient of a product by a
factor is the other factor, `ExchangeSwaps` that the three assignments are
therefore a swap if the product fits and is not 0, `SwapKeepsCounts` that a
swap changes no count.

**Linked list** (`StorageProofs`). `ListStaysChain` (`ListIsChain`) and
`ListCorrect` (that the list implements `IntList`, with what `linklist_compare` matches for
meant), for any finite set of
blocks: without a bound on memory there is no longest chain. `ListInv` states the chain without
recursion: there is a sequence of distinct blocks in use, each the `next` of the
one before, the last with NULL (`ElementsAre`), and the steps insert into it,
remove from it, or take its first away. That the recursive `Trail` of the
properties is this sequence (`TrailIsChain`) is proved by the least length at
which it would not be.

**Search tree** (`StorageProofs`). `TreeSorts` (`TreePrintsSorted`), for any
values and any number of additions. `TreeInv`: the places are closed under "the
node above", each value is what the nodes above its place ask for (`Suits`),
and counts are the calls that have ended (`Done`). Two nodes of one value would
be separated by the first turn in which their places differ (`ValuesOnce`). The
printing is a recursive function on places: that there is one, and that what it
returns is sorted and has each value below a place once, are again proved by
taking the least height at which it fails (`PrintsExists`, `PlacesPrint`).

`StorageTypes` is the type invariant of the joined specification `MCStorage`.

**C declaration reader** (`InputProofs`). `ReaderIsRight` (`ReadsDeclaration`),
for any number of operators, any lists of specifiers over C's words
(`SpecifierAssumption`) and any length of the stack. `Contexts` is the least set
of what can stand around a declarator (`left`, `right`) with what is still to be
said of it (`rest`): the specifiers alone, and a context with a pointer, an array
or parameter list, or brackets added on the inside. `DeclaratorsFit`: every
declaration is the identifier in a context. `ReaderInv` then says at each state
that there is a context whose `left` is the stack, whose `right` is what is
unread, and whose `rest`, after what is printed, makes up the declaration's
meaning; a state function consumes the innermost operator of the context. At
the end the context is the specifiers alone, which the stack holds in reverse.
That the declarators are all of this form is proved by the least number of
operators at which one would not be. The theorem says nothing of a truncated
declaration, of which `ReadsDeclaration` does not speak either.

**Ethernet service** (`InputProofs`). `AnswersAreCurrent` (`AnswerIsCurrent`),
for any addresses and number of descriptors: an answer tells an address eth0
had after the command it answers was carried out, though not always the one it
has when it is sent, as the mask and the gateway are looked for in between; or
it repeats the answer before it, and then eth0 was without an address for a
time or the descriptors are used up. `AnswerInv` follows the buffer: before
`get_ip` it holds what the last answer told; from `get_ip` to `sendto` it holds
an address of `had`, or still the old one with one of the two excuses, which
nobody takes back since `had` only grows and descriptors are never closed.

**Conversions of texts** (`InputProofs`). `BuffersAreKept` (`BufferKept`), for
any texts without a zero byte and any lengths of buffers (`Utf8Assumption`), for
every conversion: `url_component_to_utf8` writes at most as many bytes as its
source has, whatever length it was given; the others keep to the length, but
for one byte of `utf8_to_url_component` and one of `utf8_to_unicode`.
The inductive invariant `UtfInv` says that what was written is bytes
(`UtfTypes`) and bounds it by the length of the buffer (`BufferUse`); for the
16 bit codes the length written is even, which is why one byte too many is all
there can be. Each action is first reduced to a return, a move of the cursor or
a write of bytes that fit (`ToNcrSteps` and the like). That the functions on a
character return bytes takes the lemmas before it: what is left of a number
after so many digits (`ShiftedUnfolds`), that an int has ten digits at most
(`DigitsEnd`), that the code read from a text is one (`UnicodeIsCode`), that
the value of a reference stays below `INT_MAX` (`NcrValueType`). The provers
count a literal down, so the large limits of the code are stated as multiples
of 65535 (`ThreeBytes`).

`TextsComeBack` (`RoundTrip`), for any well-formed characters of up to four
bytes, any texts of them and any lengths of buffers. `Spelt(P)` is the least set
of pairs of a text and its spelling that the pieces `P` make: a character and
its reference (`NcrPieces`), a byte and its escape (`UrlPieces`), a character
of up to three bytes and its two bytes (`UcsPieces`). Every text of characters
has a spelling (`TextsSpell`). The inductive invariant `RoundInv` says that a
conversion splits its text at the cursor, and that what it wrote followed by a
spelling of what is left is a spelling of the text (`Forth`); that the
conversion back splits the spelling, and that what it wrote followed by the
text of what is left is the text (`Homeward`); and which phases an operation
can be in (`PhaseFits`: the URL component is empty until `is_utf8_str` let the
text pass). A step takes one piece (`ForthSteps`, `HomewardSteps`), so what is
left to show is that each function on a character undoes its counterpart: the
code read from a character is encoded as that character (`UnicodeOfChar`,
`EncodeOfChar`), a reference is read as the number it was printed for, its
semicolon being the first one (`NcrReads`), an escape as its byte
(`EscapeReads`), two bytes as their code (`HalvesRead`). The invariant is needed
because the claim is about the end of the second call only. It covers a cursor
that passes a piece by another number of bytes than was written, and a
conversion that stops early and still reports success.

**The reader's stack** (`InputProofs`). `StackIsKept` (`StackKept`), for any
specifiers, operators and length of the stack. `StackInv` adds to
`ReadsDeclaration`'s invariant where the words of the declaration are: while
`Initialize` runs, stack and unread words make up the declaration, and the
identifier comes before the stack is full; afterwards nothing is pushed, and a
type stays on the stack (`HoldsType`), at which the state functions before
`get_type` stop popping.

`InputsAreTyped` (`InputsTypeOK`) is the type invariant of the joined
specification `MCInputs`, types and no more.

`NatLemmas` holds what stands for induction. `NatLeast`: a non-empty set of
natural numbers has a least element. `RepetitionExists`: for any function on a
set there is the sequence of its repeated applications to an element, which is
how a recursive function is known to exist and to obey its equation;
`CountedRepetitionExists` lets the function know the number of the application.
They are first order, so the provers can use them where the library's theorems, which
take an operator, are out of their reach.

Only model-checked: `NoNodeMeansAbsent`, and liveness (`SendReturns`,
`ExitReported`, `Ends`, `DeclarationEnds`, `ConversionReturns`), which is beyond
the prover.

## 6. What the checks say of the code

- `p2p_both_send`: an answer carries no message, and a receive thread that
  waits for a text takes an answer for it and answers it. "Send OK!" may be
  printed for a text nobody saw (`P2PClient.cpp:312`).
- `leak_exit_monitored`: the destructor waits for the monitor while it holds
  the mutex the monitor waits for (`CCheckMemoryLeak.cpp:569`).
- `nat_reject`: behind a translator that rejects, natcheck ends with an error
  instead of the verdict its comment announces (`natcheck.c:294`, `366-369`).

Two assumptions of the theorems are real limits. Without unique names
`ListIsDirectory` fails: `GetUser` and LOGOUT take the first node of a name.
With 0 among the sizes `MapIsHeap` fails: `realloc(p, 0)` frees and returns
NULL, which the wrapper takes for a failure.

What else the models show of the code, as part of what they allow rather than
as a run of its own:

- P2P. "Send Failure!" may be said of a peer who runs and could be reached: one
  who logged in after the caller's list was read (`P2PClient.cpp:156`, `244`).
  A call for a user who has logged out ends the server
  (`P2PServer.cpp:143`): the exception leaves the loop. A message that arrives
  inside the reply to `getu` ends the client (`P2PClient.cpp:329`).
- Ring buffer. `_msg_to_string` allocates 47 bytes and the message for a line
  that takes 48, so the block for the text is one byte per message too short;
  the model takes it for granted that the text is written all the same. A text
  of exactly the length of the caller's buffer is left without its final NUL.
  `getActionOutMsgEntity` hands out the entity of the other direction.
- Integer array. An array of size 0 never grows. `int_array_reduce` asks for
  `2*capacity` bytes and copies `capacity` ints: too small for any element.
  `test_int_array_remove` does this.
- Heap. `heap_shift_down` compares with `arr[-1]` when the left child was not
  smaller, and looks at the right child after the exchange only, so that a
  parent may stay greater than a child. A product that is no int, or a 0, makes
  the exchange lose values or divide by 0.
- List. `linklist_remove` removes the first *greater* value and keeps an equal
  one (`linklist.c:89`, `155`), and leaks its data; `ListIsList` is stated for
  what the code compares and hides none of it; the head has no data, and `linklist_destory` frees it.
- Tree. `depth` is the number of nodes.
- Declaration reader. `get_parms` stops at the first closing bracket, and an
  array whose size is a name shifts the reading by a token; the grammar of the
  run has neither. At the end of input `get_parms` reads for ever and
  `initialize` pushes until it writes behind the stack (`cAnalizeFsm.c:103`), as
  it does when more than 100 words come before the identifier. A declaration without a type makes
  `get_ptr_part` read below the stack.
- Conversions. `is_utf8_str` never returns at a stray byte 0x80 to 0xBF. Codes
  from 0x200000 on are encoded in four bytes, where the table in the comment
  says five, and no code reaches the branch of six. `url_component_to_utf8`
  tests the room for an escape only: it copies everything else, and the last
  digit of an escape it has no room for, beyond its bound
  (`utf8ToUnicodeToNCR.c:484`). `sprintf` writes a
  NUL behind the buffer in `utf8_to_url_component`, an odd length lets
  `utf8_to_unicode` write one byte more. `get_str_code_type` never says
  `CODE_NCR`: a text of references is GBK first.
- Ethernet service. `compare` looks at seven bytes of six; a prefix of the
  hardware address is accepted; `inet_aton` is tested for a negative value, so
  a text that is no address takes the address away; `get_hwaddr` copies six characters of a name
  and finds no interface of a longer one; three functions never close
  their sockets, and when descriptors are used up, or eth0 has no address, the
  answer repeats an earlier one. An answer may be out of date when it is sent
  (`receiver.c:128`, `135`). The hardware address is the one of the first
  interface, the configured interface is eth0.

Two comments are wrong without consequence for a property: `natcheck.c:705`
says the servers are pinged 10 times where `NTRIES` is 20, and the comments
"in the parent" and "in the child" of `natserver.c` are exchanged.

## 7. What is not modelled, and why

Within the modelled programs: start-up (sockets, name lookup, arguments),
wording of what is printed, the tree of processes of natserver (every
connection has a handler and somebody accepts the next), requests of the wrong
length and wrong magic numbers, the reading of an uninitialised request in a
build without assertions.

A ring buffer's cursor at `INT_MAX` (more than two thousand million messages
without a clear) is outside `MaxCursor`; libraries that free blocks which came
through the wrappers are outside the leak checker's model; failures of `recv`
on natcheck's `inloop` socket are outside `NatCheck`.
`linklist_destory` of a list whose head holds a non-null garbage pointer is
`"undefined"`.

Of the conversion of texts, the functions between GBK and UTF-8
(`utf8ToUnicodeToNCR.c:590-697`) only hand their arguments to `iconv`.
Of the Ethernet service, `set_hand_ip`, `check_ip_format` and `show_data` are
never called. `mac/ss_mac_service.c` is a rewrite as a class that does not
compile (its header is missing, `memcmp` has two arguments at line 218), so
there is no program to model. The malloc hook is a demonstration of one
allocation and one free on one thread: the hooks are off while a hook works, and
nothing can come between. The conversion of Chinese characters is one call of
`iconv`.

The rest has no state between two calls, or none but that of the operating
system. `PROJECT.json` gives the reason for each.

## 8. Plan

Done, most important first: P2P server and client; leak checker; NAT check
over TCP; NAT check over UDP; their abstract specifications and proofs; the
containers, with the refinements of the ring buffer and the array proved; the
programs that read an input, with the proofs of the declaration reader, of the
Ethernet service and of the conversions: every safety property a run checks and
expects to hold is stated by a theorem, except `NoNodeMeansAbsent`.

Left: a proof of `NoNodeMeansAbsent` (the caller's list has every node that was
in the server's list before its own), and the malloc hook, should it be used
beyond its demonstration.
