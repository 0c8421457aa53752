-------------------------- MODULE ContainerProofs --------------------------
(***************************************************************************)
(* Proofs about the containers that are arrays: the message ring buffer,   *)
(* the integer array and the heap over it.                                 *)
(***************************************************************************)
EXTENDS RingBuffer, IntArray, IntHeap, SequenceTheorems, FiniteSetTheorems, TLAPS


-----------------------------------------------------------------------------
(***************************************************************************)
(* The ring buffer, for every number of slots: its type invariant, and     *)
(* that it is the sequence of the last messages.                           *)
(***************************************************************************)
-----------------------------------------------------------------------------
(* Remainders.  A remainder is the only one of its range.                  *)
LEMMA ModUnique ==
  ASSUME NEW N \in Nat \ {0}, NEW a \in Nat, NEW q \in Int, NEW r \in 0 .. N - 1,
         a = N * q + r
  PROVE  a % N = r
<1>1. a % N \in 0 .. N - 1 /\ a \div N \in Int /\ a = N * (a \div N) + (a % N)
  OBVIOUS
<1>. DEFINE d == q - (a \div N)
<1>2. N * d = (a % N) - r
  BY <1>1
<1>3. d = 0
  <2>1. d >= 1 => N * d >= N
    BY <1>1
  <2>2. d <= -1 => N * d <= -N
    BY <1>1
  <2>. QED  BY <1>1, <1>2, <2>1, <2>2
<1>. QED  BY <1>1, <1>2, <1>3

(* Every number is a multiple and a remainder.                             *)
LEMMA DivMod ==
  ASSUME NEW N \in Nat \ {0}, NEW a \in Nat
  PROVE  \E q \in Int, r \in 0 .. N - 1 : a = N * q + r /\ a % N = r
<1>1. a % N \in 0 .. N - 1 /\ a \div N \in Int /\ a = N * (a \div N) + (a % N)
  OBVIOUS
<1>. QED  BY <1>1

(* The slot a position falls into lies in the ring.                        *)
LEMMA ModRange ==
  ASSUME NEW N \in Nat \ {0}, NEW a \in Nat
  PROVE  /\ a % N \in 0 .. N - 1
         /\ a < N => a % N = a
OBVIOUS

(* A walk may start from the remainder.                                    *)
LEMMA ModAdd ==
  ASSUME NEW N \in Nat \ {0}, NEW a \in Nat, NEW b \in Nat
  PROVE  ((a % N) + b) % N = (a + b) % N
<1>1. PICK q \in Int, r \in 0 .. N - 1 : a = N * q + r /\ a % N = r
  BY DivMod
<1>2. PICK p \in Int, t \in 0 .. N - 1 : r + b = N * p + t /\ (r + b) % N = t
  <2>1. r + b \in Nat
    OBVIOUS
  <2>. QED  BY <2>1, DivMod
<1>3. N * (q + p) = N * q + N * p
  OBVIOUS
<1>4. a + b = N * (q + p) + t
  BY <1>1, <1>2, <1>3
<1>5. a + b \in Nat /\ q + p \in Int
  OBVIOUS
<1>6. (a + b) % N = t
  BY <1>4, <1>5, ModUnique
<1>. QED  BY <1>1, <1>2, <1>6

(* A turn of the ring comes back to the same slot.                         *)
LEMMA ModTurn ==
  ASSUME NEW N \in Nat \ {0}, NEW a \in Nat
  PROVE  (a + N) % N = a % N
<1>1. PICK q \in Int, r \in 0 .. N - 1 : a = N * q + r /\ a % N = r
  BY DivMod
<1>2. a + N = N * (q + 1) + r
  BY <1>1
<1>3. a + N \in Nat /\ q + 1 \in Int
  OBVIOUS
<1>. QED  BY <1>1, <1>2, <1>3, ModUnique

(* Less than a turn leads to another slot.                                 *)
LEMMA ModOther ==
  ASSUME NEW N \in Nat \ {0}, NEW a \in Nat, NEW d \in 1 .. N - 1
  PROVE  (a + d) % N # a % N
<1>. DEFINE r == a % N
<1>1. r \in 0 .. N - 1 /\ d \in Nat /\ r + d \in Nat
  OBVIOUS
<1>2. (r + d) % N = (a + d) % N
  BY <1>1, ModAdd
<1>3. CASE r + d < N
  <2>1. (r + d) % N = r + d
    BY <1>1, <1>3, ModRange
  <2>. QED  BY <1>1, <1>2, <2>1
<1>4. CASE r + d >= N
  <2>1. r + d = N * 1 + (r + d - N) /\ r + d - N \in 0 .. N - 1
    BY <1>1, <1>4
  <2>2. (r + d) % N = r + d - N
    BY <1>1, <2>1, ModUnique
  <2>. QED  BY <1>1, <1>2, <2>2
<1>. QED  BY <1>1, <1>3, <1>4

-----------------------------------------------------------------------------
(* The two walks of _msg_to_string.  As long as the ring has not come round *)
(* the walk ends at the first slot never filled, afterwards at its start.   *)
LEMMA WalkLenIsKept ==
  ASSUME RingTypeOK
  PROVE  WalkLen = Kept
<1>. DEFINE N == MAX_MSG_ITEMS
            Ends(n) == /\ \A k \in 0 .. n - 1 : WalkPos(k) < cursor
                       /\ n < N => WalkPos(n) >= cursor
<1>1. N \in Nat \ {0} /\ cursor \in Nat
  BY SlotsAssumption DEF RingTypeOK
<1>2. CASE cursor < N
  <2>1. \A k \in 0 .. N - 1 : WalkPos(k) = k
    BY <1>1, <1>2, ModRange DEF WalkPos, HeadPos
  <2>2. Kept = cursor
    BY <1>2 DEF Kept
  <2>3. Kept \in 0 .. N /\ Ends(Kept)
    BY <1>1, <1>2, <2>1, <2>2
  <2>4. \A n \in 0 .. N : Ends(n) => n = Kept
    <3>1. SUFFICES ASSUME NEW n \in 0 .. N, Ends(n) PROVE n = Kept
      OBVIOUS
    <3>2. ~ n > cursor
      <4>1. SUFFICES ASSUME n > cursor PROVE FALSE
        OBVIOUS
      <4>2. cursor \in 0 .. n - 1
        BY <1>1, <4>1
      <4>3. WalkPos(cursor) < cursor
        BY <3>1, <4>2
      <4>4. WalkPos(cursor) = cursor
        BY <1>1, <1>2, <2>1
      <4>. QED  BY <1>1, <4>3, <4>4
    <3>3. ~ n < cursor
      BY <1>1, <1>2, <2>1, <3>1
    <3>. QED  BY <1>1, <2>2, <3>2, <3>3
  <2>. QED  BY <2>3, <2>4 DEF WalkLen
<1>3. CASE cursor >= N
  <2>1. \A k \in 0 .. N : WalkPos(k) \in Nat /\ WalkPos(k) < cursor
    <3>1. cursor % N \in 0 .. N - 1
      BY <1>1, ModRange
    <3>2. HeadPos \in Nat
      BY <1>1, <1>3, <3>1 DEF HeadPos
    <3>3. \A k \in 0 .. N : WalkPos(k) \in 0 .. N - 1
      BY <1>1, <3>2, ModRange DEF WalkPos
    <3>. QED  BY <1>1, <1>3, <3>3
  <2>2. Kept = N
    BY <1>1, <1>3 DEF Kept
  <2>3. Kept \in 0 .. N /\ Ends(Kept)
    BY <1>1, <2>1, <2>2
  <2>4. \A n \in 0 .. N : Ends(n) => n = Kept
    <3>1. SUFFICES ASSUME NEW n \in 0 .. N, Ends(n) PROVE n = Kept
      OBVIOUS
    <3>2. ~ n < N
      <4>1. WalkPos(n) < cursor /\ WalkPos(n) \in Nat
        BY <2>1
      <4>. QED  BY <1>1, <3>1, <4>1
    <3>. QED  BY <1>1, <2>2, <3>2
  <2>. QED  BY <2>3, <2>4 DEF WalkLen
<1>. QED  BY <1>1, <1>2, <1>3

(* What the walk passes are the messages kept, the oldest first.           *)
LEMMA WalkIsWindow ==
  ASSUME RingTypeOK
  PROVE  Walk = Window
<1>. DEFINE N == MAX_MSG_ITEMS
<1>1. N \in Nat \ {0} /\ cursor \in Nat /\ Kept \in 0 .. N /\ Kept <= cursor
  BY SlotsAssumption DEF RingTypeOK, Kept
<1>2. ASSUME NEW k \in 1 .. Kept
      PROVE  WalkPos(k - 1) = (cursor - Kept + k - 1) % N
  <2>1. CASE cursor < N
    <3>1. Kept = cursor /\ HeadPos = 0
      BY <2>1 DEF Kept, HeadPos
    <3>2. 0 + (k - 1) = cursor - Kept + k - 1
      BY <1>1, <3>1
    <3>. QED  BY <3>1, <3>2 DEF WalkPos
  <2>2. CASE cursor >= N
    <3>1. Kept = N /\ HeadPos = cursor % N
      BY <1>1, <2>2 DEF Kept, HeadPos
    <3>2. k - 1 \in Nat /\ cursor - N + k - 1 \in Nat
      BY <1>1, <2>2, <3>1
    <3>3. ((cursor % N) + (k - 1)) % N = (cursor + (k - 1)) % N
      BY <1>1, <3>2, ModAdd
    <3>4. (cursor - N + k - 1) + N = cursor + (k - 1)
      BY <1>1
    <3>5. ((cursor - N + k - 1) + N) % N = (cursor - N + k - 1) % N
      BY <1>1, <3>2, ModTurn
    <3>. QED  BY <3>1, <3>3, <3>4, <3>5 DEF WalkPos
  <2>. QED  BY <1>1, <2>1, <2>2
<1>. QED  BY <1>2, WalkLenIsKept DEF Walk, Window

(* The messages kept are messages: no slot the walk passes is empty.       *)
LEMMA WindowType ==
  ASSUME RingTypeOK
  PROVE  Window \in Seq(Msg) /\ Len(Window) = Kept
<1>. DEFINE N == MAX_MSG_ITEMS
<1>1. N \in Nat \ {0} /\ cursor \in Nat /\ Kept \in 0 .. N /\ Kept <= cursor
  BY SlotsAssumption DEF RingTypeOK, Kept
<1>2. ASSUME NEW k \in 1 .. Kept
      PROVE  items[(cursor - Kept + k - 1) % N] \in Msg
  <2>. DEFINE p == cursor - Kept + k - 1
  <2>1. p \in Nat /\ p < cursor
    BY <1>1
  <2>2. p % N \in 0 .. N - 1 /\ p % N < cursor
    <3>1. CASE cursor < N
      <4>. HIDE DEF p
      <4>1. p % N = p
        BY <1>1, <2>1, <3>1, ModRange
      <4>. QED  BY <1>1, <2>1, <3>1, <4>1
    <3>2. CASE cursor >= N
      <4>1. p % N \in 0 .. N - 1
        BY <1>1, <2>1, ModRange
      <4>. QED  BY <1>1, <3>2, <4>1
    <3>. QED  BY <1>1, <3>1, <3>2
  <2>. QED  BY <2>2 DEF RingTypeOK, Slot
<1>. QED  BY <1>1, <1>2 DEF Window

-----------------------------------------------------------------------------
LEMMA RingInitTypeOK == RingInit => RingTypeOK
<1>. SUFFICES ASSUME RingInit PROVE RingTypeOK
  OBVIOUS
<1>1. told \in Seq(Msg)
  BY DEF RingInit
<1>. QED  BY <1>1, LengthsAssumption DEF RingInit, RingTypeOK, Slot

LEMMA RingAddTypeOK ==
  ASSUME RingTypeOK, NEW m \in Msg, RingAdd(m)
  PROVE  RingTypeOK'
<1>. DEFINE N == MAX_MSG_ITEMS
<1>1. N \in Nat \ {0} /\ cursor \in Nat /\ cursor' \in 0 .. MaxCursor
  BY SlotsAssumption, LengthsAssumption DEF RingTypeOK, RingAdd
<1>2. Pos \in Slot
  BY <1>1, ModRange DEF Pos, Slot
<1>3. items' \in [Slot -> Msg \cup {NoMsg}]
  BY DEF RingTypeOK, RingAdd
<1>4. ASSUME NEW s \in Slot, s < cursor'
      PROVE  items'[s] \in Msg
  <2>1. CASE s = Pos
    BY <1>2, <2>1 DEF RingTypeOK, RingAdd
  <2>2. CASE s # Pos
    <3>1. s \in 0 .. N - 1
      BY DEF Slot
    <3>2. s # cursor
      <4>1. SUFFICES ASSUME s = cursor PROVE s = Pos
        BY <2>2
      <4>2. cursor < N
        BY <1>1, <3>1, <4>1
      <4>3. cursor % N = cursor
        BY <1>1, <4>2, ModRange
      <4>. QED  BY <4>1, <4>3 DEF Pos
    <3>3. s < cursor
      BY <1>1, <1>4, <3>1, <3>2 DEF RingAdd
    <3>. QED  BY <2>2, <3>3 DEF RingTypeOK, RingAdd
  <2>. QED  BY <2>1, <2>2
<1>. QED  BY <1>1, <1>3, <1>4 DEF RingTypeOK, RingAdd

LEMMA RingStepTypeOK ==
  ASSUME RingTypeOK, [RingNext]_ringVars
  PROVE  RingTypeOK'
<1>1. ASSUME NEW m \in Msg, RingAdd(m) PROVE RingTypeOK'
  BY <1>1, RingAddTypeOK
<1>2. CASE RingClear
  BY <1>2, LengthsAssumption DEF RingClear, RingTypeOK, Slot
<1>3. ASSUME NEW len \in BufferLen, RingShow(len) PROVE RingTypeOK'
  <2>1. told' \in Seq(Msg)
    BY <1>3, WalkIsWindow, WindowType DEF RingShow
  <2>. QED  BY <1>3, <2>1 DEF RingShow, RingTypeOK
<1>4. CASE UNCHANGED ringVars
  BY <1>4 DEF ringVars, RingTypeOK
<1>. QED  BY <1>1, <1>2, <1>3, <1>4 DEF RingNext

(* msg_add, msg_clear and msg_to_string: a slot the messages have come to  *)
(* is never empty, so the text never holds what no message was.            *)
THEOREM RingTypeCorrect == RingSpec => []RingTypeOK
<1>1. RingInit => RingTypeOK
  BY RingInitTypeOK
<1>2. RingTypeOK /\ [RingNext]_ringVars => RingTypeOK'
  BY RingStepTypeOK
<1>. QED  BY <1>1, <1>2, PTL DEF RingSpec

-----------------------------------------------------------------------------
LEMMA AppendIs ==
  ASSUME NEW S, NEW t \in Seq(S), NEW e \in S, NEW u \in Seq(S),
         Len(u) = Len(t) + 1, u[Len(u)] = e,
         \A k \in 1 .. Len(t) : u[k] = t[k]
  PROVE  u = Append(t, e)
<1>1. /\ Append(t, e) \in Seq(S) /\ Len(Append(t, e)) = Len(t) + 1
      /\ \A k \in 1 .. Len(t) : Append(t, e)[k] = t[k]
      /\ Append(t, e)[Len(t) + 1] = e
  BY AppendProperties
<1>2. Len(t) \in Nat
  OBVIOUS
<1>3. \A k \in 1 .. Len(u) : u[k] = Append(t, e)[k]
  BY <1>1, <1>2
<1>. QED  BY <1>1, <1>3, SeqEqual

(* A message more: before the ring has come round it joins the messages    *)
(* kept, afterwards it takes the place of the oldest.                      *)
LEMMA AddIsAdd ==
  ASSUME RingTypeOK, NEW m \in Msg, RingAdd(m)
  PROVE  Last!Add(m)
<1>. DEFINE N == MAX_MSG_ITEMS
            Shift == IF Len(Window) = N THEN Tail(Window) ELSE Window
<1>1. N \in Nat \ {0} /\ cursor \in Nat /\ cursor' = cursor + 1
  BY SlotsAssumption DEF RingTypeOK, RingAdd
<1>2. items' = [items EXCEPT ![cursor % N] = m] /\ DOMAIN items = 0 .. N - 1
  BY DEF RingAdd, Pos, RingTypeOK, Slot
<1>3. Window \in Seq(Msg) /\ Len(Window) = Kept
  BY WindowType
<1>4. CASE cursor < N
  <2>1. Kept = cursor /\ Kept' = cursor + 1
    BY <1>1, <1>4 DEF Kept
  <2>2. Shift = Window
    BY <1>1, <1>3, <1>4, <2>1
  <2>3. cursor % N = cursor
    BY <1>1, <1>4, ModRange
  <2>4. ASSUME NEW k \in 1 .. cursor + 1
        PROVE  items'[(k - 1) % N] = IF k = cursor + 1 THEN m ELSE items[(k - 1) % N]
    <3>1. k - 1 \in Nat /\ k - 1 < N
      BY <1>1, <1>4
    <3>2. (k - 1) % N = k - 1
      BY <1>1, <3>1, ModRange
    <3>. QED  BY <1>1, <1>2, <1>4, <2>3, <3>1, <3>2
  <2>5. Window' = [k \in 1 .. cursor + 1 |-> items'[(k - 1) % N]]
    <3>1. \A k \in 1 .. cursor + 1 : cursor' - Kept' + k - 1 = k - 1
      BY <1>1, <2>1
    <3>. QED  BY <2>1, <3>1 DEF Window
  <2>6. Window = [k \in 1 .. cursor |-> items[(k - 1) % N]]
    <3>1. \A k \in 1 .. cursor : cursor - Kept + k - 1 = k - 1
      BY <1>1, <2>1
    <3>. QED  BY <2>1, <3>1 DEF Window
  <2>7. Window' = Append(Window, m)
    BY <1>1, <1>3, <2>1, <2>4, <2>5, <2>6
  <2>. QED  BY <2>2, <2>7 DEF Last!Add, RingAdd
<1>5. CASE cursor >= N
  <2>1. Kept = N /\ Kept' = N
    BY <1>1, <1>5 DEF Kept
  <2>2. Shift = Tail(Window)
    BY <1>3, <2>1
  <2>3. ASSUME NEW k \in 1 .. N
        PROVE  items'[(cursor' - N + k - 1) % N] =
                 IF k = N THEN m ELSE items[(cursor - N + (k + 1) - 1) % N]
    <3>. DEFINE p == cursor - N + k
    <3>1. p \in Nat /\ cursor' - N + k - 1 = p /\ cursor - N + (k + 1) - 1 = p
      BY <1>1, <1>5
    <3>2. p % N \in 0 .. N - 1
      BY <1>1, <3>1, ModRange
    <3>3. CASE k = N
      BY <1>1, <1>2, <3>1, <3>2, <3>3
    <3>4. CASE k # N
      <4>1. N - k \in 1 .. N - 1 /\ p + (N - k) = cursor
        BY <1>1, <3>4
      <4>2. (p + (N - k)) % N # p % N
        BY <1>1, <3>1, <4>1, ModOther
      <4>. QED  BY <1>2, <3>1, <3>2, <3>4, <4>1, <4>2
    <3>. QED  BY <3>3, <3>4
  <2>4. Window' = [k \in 1 .. N |-> items'[(cursor' - N + k - 1) % N]]
    BY <2>1 DEF Window
  <2>5. Window = [k \in 1 .. N |-> items[(cursor - N + k - 1) % N]]
    BY <2>1 DEF Window
  <2>6. /\ Tail(Window) \in Seq(Msg) /\ Len(Tail(Window)) = N - 1
        /\ \A k \in 1 .. N - 1 : Tail(Window)[k] = Window[k + 1]
    BY <1>1, <1>3, <2>1
  <2>7. \A k \in 1 .. N - 1 : Window[k + 1] = items[(cursor - N + (k + 1) - 1) % N]
    BY <1>1, <2>5
  <2>8. \A k \in 1 .. N : Window'[k] = IF k = N THEN m ELSE Tail(Window)[k]
    <3>. SUFFICES ASSUME NEW k \in 1 .. N
                  PROVE  Window'[k] = IF k = N THEN m ELSE Tail(Window)[k]
      OBVIOUS
    <3>1. Window'[k] = items'[(cursor' - N + k - 1) % N]
      BY <2>4
    <3>2. CASE k = N  BY <2>3, <3>1, <3>2
    <3>3. CASE k # N
      <4>1. k \in 1 .. N - 1  BY <1>1, <3>3
      <4>2. Tail(Window)[k] = Window[k + 1]  BY <2>6, <4>1
      <4>3. Window[k + 1] = items[(cursor - N + (k + 1) - 1) % N]  BY <2>7, <4>1
      <4>. QED  BY <2>3, <3>1, <3>3, <4>2, <4>3
    <3>. QED  BY <3>2, <3>3
  <2>9. Window' = Append(Tail(Window), m)
    <3>1. Window' \in Seq(Msg) /\ Len(Window') = N
      <4>1. \A k \in 1 .. N : Window'[k] \in Msg
        BY <1>1, <2>6, <2>8
      <4>. QED  BY <1>1, <2>4, <4>1
    <3>. QED  BY <1>1, <2>6, <2>8, <3>1, AppendIs
  <2>. QED  BY <2>2, <2>9 DEF Last!Add, RingAdd
<1>. QED  BY <1>1, <1>4, <1>5

LEMMA RingStepIsStep ==
  ASSUME RingTypeOK, [RingNext]_ringVars
  PROVE  [Last!Next]_(Last!vars)
<1>1. ASSUME NEW m \in Msg, RingAdd(m) PROVE Last!Next
  BY <1>1, AddIsAdd DEF Last!Next
<1>2. CASE RingClear
  <2>1. Window' = <<>>
    BY <1>2, SlotsAssumption DEF RingClear, Window, Kept
  <2>. QED  BY <1>2, <2>1 DEF RingClear, Last!Clear, Last!Next
<1>3. ASSUME NEW len \in BufferLen, RingShow(len) PROVE Last!Next
  <2>1. Window' = Window
    BY <1>3 DEF RingShow, Window, Kept
  <2>2. Last!Tell(len)
    BY <1>3, <2>1, WalkIsWindow DEF RingShow, Last!Tell
  <2>. QED  BY <2>2 DEF Last!Next
<1>4. CASE UNCHANGED ringVars
  BY <1>4 DEF ringVars, Last!vars, Window, Kept
<1>. QED  BY <1>1, <1>2, <1>3, <1>4 DEF RingNext

(* The ring of slots, its cursor and the walks of _msg_to_string implement *)
(* the sequence of the last messages.                                      *)
THEOREM RingCorrect == RingSpec => RingIsLast
<1>1. RingInit => Last!Init
  BY SlotsAssumption DEF RingInit, Last!Init, Window, Kept
<1>2. RingTypeOK /\ [RingNext]_ringVars => [Last!Next]_(Last!vars)
  BY RingStepIsStep
<1>3. RingSpec => []RingTypeOK
  BY RingTypeCorrect
<1>. QED  BY <1>1, <1>2, <1>3, PTL DEF RingSpec, RingIsLast, Last!Spec

-----------------------------------------------------------------------------
(***************************************************************************)
(* The integer array, for every first size and every bound on the          *)
(* elements: the elements stay in the block, and the array is a list.      *)
(***************************************************************************)
(* The inductive invariant.  Between the steps of a call it says how far   *)
(* its loop is: the gap an addition moves lies between its place and the   *)
(* end, in a block with room for one more; the gap a removal moves is the  *)
(* place of an element.                                                    *)
ArrayInv ==
  /\ ArrayTypeOK
  /\ ArrayInBlock
  /\ apc = "shift" => /\ index <= i /\ i <= capacity
                      /\ size = 0 \/ capacity < size
                      /\ val \in ArrayVal
  /\ apc = "find" => val \in ArrayVal
  /\ apc = "close" => i < capacity

-----------------------------------------------------------------------------
LEMMA ArrayInitInv == ArrayInit => ArrayInv
<1>. SUFFICES ASSUME ArrayInit PROVE ArrayInv
  OBVIOUS
<1>1. PICK n \in FirstSizes \cup {0} :
        /\ arr = Block(n) /\ size = n /\ capacity = 0
        /\ apc = "idle" /\ i = 0 /\ index = 0 /\ val = Unset
  BY DEF ArrayInit
<1>2. n \in Nat
  BY SizesAssumption
<1>. QED  BY <1>1, <1>2 DEF ArrayInv, ArrayTypeOK, ArrayInBlock, Block

LEMMA AddCallInv ==
  ASSUME ArrayInv, NEW n \in 0 .. MaxCapacity, NEW v \in ArrayVal, AddCall(n, v)
  PROVE  ArrayInv'
<1>. USE DEF ArrayInv, ArrayTypeOK, ArrayInBlock
<1>1. n \in Nat /\ n <= capacity
  BY SizesAssumption DEF AddCall
<1>2. CASE capacity + 1 <= size
  BY <1>1, <1>2 DEF AddCall, Grown
<1>3. CASE ~(capacity + 1 <= size)
  <2>1. capacity = size
    BY <1>3 DEF AddCall
  <2>2. /\ arr' = [k \in 0 .. 2 * size - 1 |-> IF k < capacity THEN arr[k] ELSE Unset]
        /\ size' = 2 * size
    BY <1>3 DEF AddCall, Grown, Copied
  <2>3. arr' \in [DOMAIN arr' -> ArrayVal \cup {Unset}] /\ DOMAIN arr' = 0 .. size' - 1
    BY <2>1, <2>2 DEF AddCall
  <2>4. size' \in Nat /\ capacity' <= size' /\ (size' = 0 \/ capacity' < size')
    BY <2>1, <2>2 DEF AddCall
  <2>. QED  BY <1>1, <2>3, <2>4 DEF AddCall
<1>. QED  BY <1>2, <1>3

LEMMA ShiftInv ==
  ASSUME ArrayInv, ShiftOne \/ Store \/ WriteBeyond
  PROVE  ArrayInv'
<1>. USE DEF ArrayInv, ArrayTypeOK, ArrayInBlock
<1>1. CASE ShiftOne
  BY <1>1 DEF ShiftOne
<1>2. CASE Store
  BY <1>2 DEF Store
<1>3. CASE WriteBeyond
  <2>1. i \in Nat /\ i <= capacity /\ DOMAIN arr = 0 .. size - 1
    BY <1>3 DEF WriteBeyond
  <2>2. size = 0
    BY <1>3, <2>1 DEF WriteBeyond
  <2>. QED  BY <1>3, <2>2 DEF WriteBeyond
<1>. QED  BY <1>1, <1>2, <1>3

LEMMA RemoveInv ==
  ASSUME ArrayInv, (\E v \in ArrayVal : RemoveCall(v)) \/ Found \/ Missed \/ CloseOne
  PROVE  ArrayInv'
<1>. USE DEF ArrayInv, ArrayTypeOK, ArrayInBlock
<1>1. ASSUME NEW v \in ArrayVal, RemoveCall(v) PROVE ArrayInv'
  BY <1>1 DEF RemoveCall
<1>2. CASE Found
  BY <1>2 DEF Found, Find, Equal
<1>3. CASE Missed \/ CloseOne
  BY <1>3 DEF Missed, CloseOne
<1>. QED  BY <1>1, <1>2, <1>3

(* The block asked for is too small unless no element is left.             *)
LEMMA CloseInv ==
  ASSUME ArrayInv, Close
  PROVE  ArrayInv'
<1>. USE DEF ArrayInv, ArrayTypeOK, ArrayInBlock
<1>. DEFINE n == capacity - 1
<1>1. n \in Nat /\ i = n /\ capacity' = n /\ n < size
  BY DEF Close
<1>2. CASE NotReduced
  BY <1>1, <1>2 DEF Close, NotReduced
<1>3. CASE Reduced(n)
  <2>1. 4 * n <= size
    BY <1>3 DEF Reduced
  <2>2. CASE n <= Room(n)
    <3>1. n = 0 /\ Room(n) = 0
      BY <1>1, <2>2 DEF Room
    <3>2. arr' = Copied(0) /\ size' = 0 /\ apc' = "idle"
      BY <1>3, <2>2, <3>1 DEF Reduced
    <3>. QED  BY <1>1, <3>1, <3>2 DEF Close, Copied
  <2>3. CASE ~(n <= Room(n))
    <3>1. n > 0
      BY <1>1, <2>3 DEF Room
    <3>2. UNCHANGED <<arr, size>> /\ apc' = "undefined"
      BY <1>3, <2>3 DEF Reduced
    <3>. QED  BY <1>1, <2>1, <3>1, <3>2 DEF Close
  <2>. QED  BY <2>2, <2>3
<1>. QED  BY <1>2, <1>3 DEF Close

LEMMA ArrayStepInv ==
  ASSUME ArrayInv, [ArrayNext]_arrayVars
  PROVE  ArrayInv'
<1>1. ASSUME NEW n \in 0 .. MaxCapacity, NEW v \in ArrayVal, AddCall(n, v)
      PROVE  ArrayInv'
  BY <1>1, AddCallInv
<1>2. CASE Destroy
  BY <1>2 DEF Destroy, Block, ArrayInv, ArrayTypeOK, ArrayInBlock
<1>3. CASE UNCHANGED arrayVars
  BY <1>3 DEF arrayVars, ArrayInv, ArrayTypeOK, ArrayInBlock
<1>. QED  BY <1>1, <1>2, <1>3, ShiftInv, RemoveInv, CloseInv DEF ArrayNext

LEMMA ArrayInvariant == ArraySpec => []ArrayInv
<1>1. ArrayInit => ArrayInv
  BY ArrayInitInv
<1>2. ArrayInv /\ [ArrayNext]_arrayVars => ArrayInv'
  BY ArrayStepInv
<1>. QED  BY <1>1, <1>2, PTL DEF ArraySpec

(* int_array_grow and int_array_reduce: the elements lie within the block; *)
(* what leaves it is an addition to a block of no size, and a removal that *)
(* leaves a quarter or less, but something.                                *)
THEOREM ArrayBlockCorrect == ArraySpec => []ArrayInBlock
<1>1. ArrayInv => ArrayInBlock
  BY DEF ArrayInv
<1>. QED  BY <1>1, ArrayInvariant, PTL

-----------------------------------------------------------------------------
(* The elements by their place: an addition or a removal in progress leaves *)
(* a gap at i, and the elements behind it stand one further.                *)
LEMMA ElementsIdle ==
  ASSUME apc \notin {"shift", "close"}, capacity \in Nat
  PROVE  Elements = [k \in 1 .. capacity |-> arr[k - 1]]
BY DEF Elements

LEMMA ElementsShift ==
  ASSUME apc = "shift"
  PROVE  Elements = [k \in 1 .. capacity |-> IF k <= i THEN arr[k - 1] ELSE arr[k]]
BY DEF Elements

LEMMA ElementsClose ==
  ASSUME apc = "close"
  PROVE  Elements = [k \in 1 .. capacity - 1 |-> IF k <= i THEN arr[k - 1] ELSE arr[k]]
BY DEF Elements

LEMMA AddCallIsList ==
  ASSUME ArrayInv, NEW n \in 0 .. MaxCapacity, NEW v \in ArrayVal, AddCall(n, v)
  PROVE  ArrayList!Called("add", n, v) /\ n \in 0 .. Len(Elements)
<1>. USE DEF ArrayInv, ArrayTypeOK, ArrayInBlock
<1>1. apc = "idle" /\ apc' = "shift" /\ i' = capacity /\ capacity' = capacity
  BY DEF AddCall
<1>2. \A k \in 1 .. capacity : arr'[k - 1] = arr[k - 1]
  <2>1. capacity \in Nat /\ size \in Nat /\ capacity <= size
    BY <1>1
  <2>2. CASE UNCHANGED <<arr, size>>
    BY <2>2
  <2>3. CASE arr' = Copied(2 * size)
    <3> SUFFICES ASSUME NEW k \in 1 .. capacity PROVE arr'[k - 1] = arr[k - 1]
      OBVIOUS
    <3>1. k - 1 \in 0 .. 2 * size - 1 /\ k - 1 < capacity
      BY <2>1
    <3>. QED  BY <2>3, <3>1 DEF Copied
  <2>. QED  BY <2>2, <2>3 DEF AddCall, Grown
<1>3. Elements = [k \in 1 .. capacity |-> arr[k - 1]]
  BY <1>1, ElementsIdle
<1>4. Elements' = [k \in 1 .. capacity' |-> IF k <= i' THEN arr'[k - 1] ELSE arr'[k]]
  BY <1>1 DEF Elements
<1>5. Elements' = Elements
  BY <1>1, <1>2, <1>3, <1>4
<1>6. ArrayCall = <<>> /\ ArrayCall' = <<"add", n, v>>
  BY <1>1 DEF ArrayCall, AddCall
<1>7. Len(Elements) = capacity /\ n \in 0 .. capacity
  BY <1>3 DEF AddCall
<1>. QED  BY <1>5, <1>6, <1>7 DEF ArrayList!Called

LEMMA ShiftIsList ==
  ASSUME ArrayInv, ShiftOne
  PROVE  Elements' = Elements /\ ArrayCall' = ArrayCall
<1>. USE DEF ArrayInv, ArrayTypeOK, ArrayInBlock
<1>1. /\ apc = "shift" /\ apc' = "shift" /\ i' = i - 1 /\ capacity' = capacity
      /\ i \in Nat /\ i > 0 /\ i <= capacity /\ capacity \in Nat
      /\ arr' = [arr EXCEPT ![i] = arr[i - 1]] /\ i \in DOMAIN arr
  BY DEF ShiftOne
<1>2. Elements = [k \in 1 .. capacity |-> IF k <= i THEN arr[k - 1] ELSE arr[k]]
  BY <1>1, ElementsShift
<1>3. Elements' = [k \in 1 .. capacity' |-> IF k <= i' THEN arr'[k - 1] ELSE arr'[k]]
  BY <1>1 DEF Elements
<1>4. ASSUME NEW k \in 1 .. capacity
      PROVE  (IF k <= i' THEN arr'[k - 1] ELSE arr'[k])
               = (IF k <= i THEN arr[k - 1] ELSE arr[k])
  BY <1>1
<1>5. ArrayCall' = ArrayCall
  BY DEF ArrayCall, ShiftOne
<1>. QED  BY <1>1, <1>2, <1>3, <1>4, <1>5

LEMMA StoreIsInsert ==
  ASSUME ArrayInv, Store
  PROVE  ArrayList!Insert(index, val) /\ val \in ArrayVal /\ index \in 0 .. Len(Elements)
<1>. USE DEF ArrayInv, ArrayTypeOK, ArrayInBlock
<1>1. /\ apc = "shift" /\ apc' = "idle" /\ i = index /\ capacity' = capacity + 1
      /\ index \in Nat /\ index <= capacity /\ capacity \in Nat
      /\ arr' = [arr EXCEPT ![index] = val] /\ index \in DOMAIN arr
      /\ val \in ArrayVal
  BY DEF Store
<1>2. Elements = [k \in 1 .. capacity |-> IF k <= index THEN arr[k - 1] ELSE arr[k]]
  BY <1>1, ElementsShift
<1>3. Elements' = [k \in 1 .. capacity + 1 |-> arr'[k - 1]]
  BY <1>1 DEF Elements
<1>4. Len(Elements) = capacity
  BY <1>1, <1>2
<1>5. ASSUME NEW k \in 1 .. capacity + 1
      PROVE  arr'[k - 1] = CASE k <= index -> Elements[k]
                             [] k = index + 1 -> val
                             [] OTHER -> Elements[k - 1]
  <2>1. CASE k <= index
    BY <1>1, <1>2, <2>1
  <2>2. CASE k = index + 1
    BY <1>1, <2>2
  <2>3. CASE k > index + 1
    BY <1>1, <1>2, <2>3
  <2>. QED  BY <1>1, <2>1, <2>2, <2>3
<1>6. ArrayCall = <<"add", index, val>> /\ ArrayCall' = <<>>
  BY <1>1 DEF ArrayCall
<1>. QED  BY <1>1, <1>3, <1>4, <1>5, <1>6 DEF ArrayList!Insert

LEMMA WriteBeyondIsList ==
  ASSUME ArrayInv, WriteBeyond
  PROVE  ArrayList!NoMemory(index, val) /\ val \in ArrayVal /\ index \in 0 .. Len(Elements)
<1>. USE DEF ArrayInv, ArrayTypeOK, ArrayInBlock
<1>1. /\ apc = "shift" /\ apc' = "undefined" /\ capacity' = capacity
      /\ i <= capacity /\ i \in Nat /\ capacity <= size /\ capacity \in Nat
      /\ DOMAIN arr = 0 .. size - 1 /\ i \notin DOMAIN arr
      /\ size = 0 \/ capacity < size
      /\ index \in Nat /\ index <= i /\ val \in ArrayVal
  BY DEF WriteBeyond
<1>2. capacity = 0
  BY <1>1
<1>3. Elements = [k \in 1 .. 0 |-> IF k <= i THEN arr[k - 1] ELSE arr[k]]
  BY <1>1, <1>2, ElementsShift
<1>4. Elements' = [k \in 1 .. 0 |-> arr'[k - 1]]
  BY <1>1, <1>2 DEF Elements
<1>5. ArrayCall = <<"add", index, val>> /\ ArrayCall' = <<>>
  BY <1>1 DEF ArrayCall
<1>6. Len(Elements) = 0 /\ Elements' = Elements
  BY <1>3, <1>4
<1>. QED  BY <1>1, <1>2, <1>5, <1>6 DEF ArrayList!NoMemory

LEMMA RemoveCallIsCall ==
  ASSUME ArrayInv, NEW v \in ArrayVal, RemoveCall(v)
  PROVE  ArrayList!Called("remove", 0, v) /\ 0 \in 0 .. Len(Elements)
<1>. USE DEF ArrayInv, ArrayTypeOK
<1>1. apc = "idle" /\ apc' = "find" /\ UNCHANGED <<arr, capacity>> /\ capacity \in Nat
  BY DEF RemoveCall
<1>2. Elements = [k \in 1 .. capacity |-> arr[k - 1]]
  BY <1>1, ElementsIdle
<1>3. Elements' = [k \in 1 .. capacity |-> arr[k - 1]]
  BY <1>1 DEF Elements
<1>4. ArrayCall = <<>> /\ ArrayCall' = <<"remove", 0, v>>
  BY <1>1 DEF ArrayCall, RemoveCall
<1>5. Len(Elements) = capacity
  BY <1>1, <1>2
<1>. QED  BY <1>1, <1>2, <1>3, <1>4, <1>5 DEF ArrayList!Called

LEMMA FoundIsDelete ==
  ASSUME ArrayInv, Found
  PROVE  /\ val \in ArrayVal /\ 0 \in 0 .. Len(Elements)
         /\ \E k \in 1 .. Len(Elements) : ArrayList!Delete(0, val, k)
<1>. USE DEF ArrayInv, ArrayTypeOK, ArrayInBlock
<1>1. /\ apc = "find" /\ apc' = "close" /\ capacity' = capacity /\ arr' = arr
      /\ i' \in 0 .. capacity - 1 /\ arr[i'] = val /\ capacity \in Nat /\ val \in ArrayVal
  BY DEF Found, Find, Equal
<1>2. Elements = [k \in 1 .. capacity |-> arr[k - 1]]
  BY <1>1, ElementsIdle
<1>3. Elements' = [k \in 1 .. capacity - 1 |-> IF k <= i' THEN arr[k - 1] ELSE arr[k]]
  BY <1>1 DEF Elements
<1>4. Len(Elements) = capacity
  BY <1>1, <1>2
<1>5. ASSUME NEW k \in 1 .. capacity - 1
      PROVE  (IF k <= i' THEN arr[k - 1] ELSE arr[k])
               = (IF k < i' + 1 THEN Elements[k] ELSE Elements[k + 1])
  BY <1>1, <1>2
<1>6. ArrayCall = <<"remove", 0, val>> /\ ArrayCall' = <<>>
  BY <1>1 DEF ArrayCall
<1>7. ArrayList!Matches(i' + 1, val)
  <2>1. Elements[i' + 1] = val
    BY <1>1, <1>2
  <2>. QED  BY <1>1, <2>1 DEF ArrayList!Matches, SameValue
<1>8. i' + 1 \in 1 .. Len(Elements) /\ i' + 1 \in 0 + 1 .. Len(Elements)
  BY <1>1, <1>4
<1>9. Elements' = [k \in 1 .. Len(Elements) - 1 |->
                     IF k < i' + 1 THEN Elements[k] ELSE Elements[k + 1]]
  BY <1>1, <1>3, <1>4, <1>5
<1>10. ArrayList!Delete(0, val, i' + 1)
  BY <1>6, <1>7, <1>8, <1>9 DEF ArrayList!Delete
<1>. QED  BY <1>1, <1>4, <1>8, <1>10

LEMMA MissedIsNotFound ==
  ASSUME ArrayInv, Missed
  PROVE  ArrayList!NotFound(0, val) /\ val \in ArrayVal /\ 0 \in 0 .. Len(Elements)
<1>. USE DEF ArrayInv, ArrayTypeOK
<1>1. /\ apc = "find" /\ apc' = "idle" /\ UNCHANGED <<arr, capacity>>
      /\ capacity \in Nat /\ val \in ArrayVal
      /\ \A k \in 0 .. capacity - 1 : arr[k] # val
  BY DEF Missed, Equal
<1>2. Elements = [k \in 1 .. capacity |-> arr[k - 1]]
  BY <1>1, ElementsIdle
<1>3. Elements' = [k \in 1 .. capacity |-> arr[k - 1]]
  BY <1>1 DEF Elements
<1>4. Len(Elements) = capacity
  BY <1>1, <1>2
<1>5. ASSUME NEW k \in 0 + 1 .. Len(Elements)
      PROVE  ~ ArrayList!Matches(k, val)
  <2>1. k - 1 \in 0 .. capacity - 1 /\ Elements[k] = arr[k - 1]
    BY <1>1, <1>2, <1>4
  <2>2. Elements[k] # val
    BY <1>1, <2>1
  <2>. QED  BY <2>2 DEF ArrayList!Matches, SameValue
<1>6. ArrayCall = <<"remove", 0, val>> /\ ArrayCall' = <<>>
  BY <1>1 DEF ArrayCall
<1>. QED  BY <1>1, <1>2, <1>3, <1>4, <1>5, <1>6 DEF ArrayList!NotFound

LEMMA CloseOneIsList ==
  ASSUME ArrayInv, CloseOne
  PROVE  Elements' = Elements /\ ArrayCall' = ArrayCall
<1>. USE DEF ArrayInv, ArrayTypeOK, ArrayInBlock
<1>1. /\ apc = "close" /\ apc' = "close" /\ i' = i + 1 /\ capacity' = capacity
      /\ i \in Nat /\ i < capacity - 1 /\ capacity \in Nat
      /\ arr' = [arr EXCEPT ![i] = arr[i + 1]] /\ i \in DOMAIN arr
  BY DEF CloseOne
<1>2. Elements = [k \in 1 .. capacity - 1 |-> IF k <= i THEN arr[k - 1] ELSE arr[k]]
  BY <1>1, ElementsClose
<1>3. Elements' = [k \in 1 .. capacity - 1 |-> IF k <= i' THEN arr'[k - 1] ELSE arr'[k]]
  BY <1>1 DEF Elements
<1>4. ASSUME NEW k \in 1 .. capacity - 1
      PROVE  (IF k <= i' THEN arr'[k - 1] ELSE arr'[k])
               = (IF k <= i THEN arr[k - 1] ELSE arr[k])
  BY <1>1
<1>5. ArrayCall' = ArrayCall
  BY DEF ArrayCall, CloseOne
<1>. QED  BY <1>2, <1>3, <1>4, <1>5

LEMMA CloseIsList ==
  ASSUME ArrayInv, Close
  PROVE  Elements' = Elements /\ ArrayCall' = ArrayCall
<1>. USE DEF ArrayInv, ArrayTypeOK, ArrayInBlock
<1>. DEFINE n == capacity - 1
<1>1. n \in Nat /\ i = n /\ capacity' = n /\ apc = "close"
  BY DEF Close
<1>2. apc' \in {"idle", "undefined"} /\ (n = 0 \/ arr' = arr)
  <2>1. CASE NotReduced
    BY <2>1 DEF NotReduced
  <2>2. CASE Reduced(n)
    BY <1>1, <2>2 DEF Reduced, Room
  <2>. QED  BY <2>1, <2>2 DEF Close
<1>3. Elements = [k \in 1 .. n |-> IF k <= n THEN arr[k - 1] ELSE arr[k]]
  BY <1>1, ElementsClose
<1>4. Elements' = [k \in 1 .. n |-> IF k <= n THEN arr'[k - 1] ELSE arr'[k]]
  BY <1>1, <1>2 DEF Elements
<1>5. ArrayCall = <<>> /\ ArrayCall' = <<>>
  BY <1>1, <1>2 DEF ArrayCall
<1>. QED  BY <1>1, <1>2, <1>3, <1>4, <1>5

LEMMA ArrayStepIsStep ==
  ASSUME ArrayInv, [ArrayNext]_arrayVars
  PROVE  [ArrayList!Next]_(ArrayList!vars)
<1>. USE DEF ArrayList!vars
<1>1. ASSUME NEW n \in 0 .. MaxCapacity, NEW v \in ArrayVal, AddCall(n, v)
      PROVE  ArrayList!Next
  BY <1>1, AddCallIsList DEF ArrayList!Next
<1>2. ASSUME Store PROVE ArrayList!Next
  BY <1>2, StoreIsInsert DEF ArrayList!Next
<1>3. ASSUME WriteBeyond PROVE ArrayList!Next
  BY <1>3, WriteBeyondIsList DEF ArrayList!Next
<1>4. ASSUME NEW v \in ArrayVal, RemoveCall(v) PROVE ArrayList!Next
  BY <1>4, RemoveCallIsCall DEF ArrayList!Next
<1>5. ASSUME Found PROVE ArrayList!Next
  BY <1>5, FoundIsDelete DEF ArrayList!Next
<1>6. ASSUME Missed PROVE ArrayList!Next
  BY <1>6, MissedIsNotFound DEF ArrayList!Next
<1>7. ASSUME Destroy PROVE ArrayList!Next
  <2>1. Elements' = <<>> /\ ArrayCall = <<>> /\ ArrayCall' = <<>>
    BY <1>7 DEF Destroy, Elements, ArrayCall
  <2>. QED  BY <2>1 DEF ArrayList!Empty, ArrayList!Next
<1>8. CASE UNCHANGED arrayVars
  BY <1>8 DEF arrayVars, Elements, ArrayCall
<1>. QED  BY <1>1, <1>2, <1>3, <1>4, <1>5, <1>6, <1>7, <1>8, ShiftIsList,
             CloseOneIsList, CloseIsList DEF ArrayNext

(* int_array_add and int_array_remove, moving element after element, put   *)
(* the value in where the caller asked for it and take out one that is     *)
(* equal to what it asked for, or none if there is none.                   *)
THEOREM ArrayCorrect == ArraySpec => ArrayIsList
<1>1. ArrayInit => ArrayList!Init
  BY SizesAssumption DEF ArrayInit, ArrayList!Init, Elements, ArrayCall
<1>2. ArrayInv /\ [ArrayNext]_arrayVars => [ArrayList!Next]_(ArrayList!vars)
  BY ArrayStepIsStep
<1>. QED  BY <1>1, <1>2, ArrayInvariant, PTL DEF ArraySpec, ArrayIsList, ArrayList!Spec

-----------------------------------------------------------------------------
(***************************************************************************)
(* The heap: when the exchange by product and quotient is one.             *)
(***************************************************************************)
(* A product divided by one of its factors is the other one.               *)
LEMMA NatQuotient ==
  ASSUME NEW a \in Nat, NEW b \in Nat \ {0}
  PROVE  (a * b) \div b = a
<1> DEFINE p == a * b
           q == p \div b
<1>1. p \in Nat
  OBVIOUS
<1>2. q \in Int /\ b * q <= p /\ p < b * q + b
  <2> HIDE DEF p
  <2> QED  BY <1>1
<1>3. b * q <= b * a /\ b * a < b * q + b
  BY <1>2
<1> HIDE DEF q, p
<1>4. ASSUME q >= a + 1 PROVE FALSE
  <2>1. b * (q - a) >= b
    BY <1>2, <1>4
  <2>2. b * (q - a) = b * q - b * a
    BY <1>2
  <2> QED  BY <1>2, <1>3, <2>1, <2>2
<1>5. ASSUME q <= a - 1 PROVE FALSE
  <2>1. b * (a - q) >= b
    BY <1>2, <1>5
  <2>2. b * (a - q) = b * a - b * q
    BY <1>2
  <2> QED  BY <1>2, <1>3, <2>1, <2>2
<1> QED  BY <1>2, <1>4, <1>5 DEF q, p

(* The same for C's quotient, which is cut towards zero.                   *)
LEMMA IntQuotient ==
  ASSUME NEW x \in Int, NEW y \in Int \ {0}
  PROVE  By(x * y, y) = x
<1>1. CASE x >= 0 /\ y > 0
  <2>1. x * y >= 0 /\ x * y \in Int
    BY <1>1
  <2>2. (x * y) \div y = x
    BY <1>1, NatQuotient
  <2> QED  BY <1>1, <2>1, <2>2 DEF By, Abs
<1>2. CASE x < 0 /\ y > 0
  <2>1. x * y < 0 /\ x * y \in Int /\ -(x * y) = (-x) * y
    BY <1>2
  <2>2. ((-x) * y) \div y = -x
    BY <1>2, NatQuotient
  <2> QED  BY <1>2, <2>1, <2>2 DEF By, Abs
<1>3. CASE x = 0 /\ y < 0
  <2>1. x * y = 0
    BY <1>3
  <2>2. (0 * (-y)) \div (-y) = 0
    BY <1>3, NatQuotient
  <2>3. 0 * (-y) = 0
    BY <1>3
  <2> QED  BY <1>3, <2>1, <2>2, <2>3 DEF By, Abs
<1>4. CASE x > 0 /\ y < 0
  <2>1. x * y < 0 /\ x * y \in Int /\ -(x * y) = x * (-y)
    BY <1>4
  <2>2. (x * (-y)) \div (-y) = x
    BY <1>4, NatQuotient
  <2> QED  BY <1>4, <2>1, <2>2 DEF By, Abs
<1>5. CASE x < 0 /\ y < 0
  <2>1. x * y > 0 /\ x * y \in Int /\ x * y = (-x) * (-y)
    BY <1>5
  <2>2. ((-x) * (-y)) \div (-y) = -x
    BY <1>5, NatQuotient
  <2> QED  BY <1>5, <2>1, <2>2 DEF By, Abs
<1> QED  BY <1>1, <1>2, <1>3, <1>4, <1>5

Swapped(h, a, b) == [h EXCEPT ![a] = h[b], ![b] = h[a]]

Fits(h, a, b) == h[a] * h[b] \in Word \ {0}

(* If the product is an int and not 0, the exchange is one.                *)
LEMMA ExchangeSwaps ==
  ASSUME NEW h \in [Index -> Word], NEW a \in Index, NEW b \in Index, a # b,
         Fits(h, a, b)
  PROVE  CanExchange(h, a, b) /\ Exchanged(h, a, b) = Swapped(h, a, b)
<1> DEFINE p == Times(h[a], h[b])
<1>1. h[a] \in Int /\ h[b] \in Int /\ h[a] \in Word /\ h[b] \in Word
  BY HeapAssumption DEF Word
<1>2. h[a] # 0 /\ h[b] # 0
  BY <1>1 DEF Fits
<1>3. p = h[a] * h[b]
  <2>1. h[a] * h[b] \in -HalfWord .. HalfWord - 1 /\ h[a] * h[b] \in Int
    BY <1>1 DEF Fits, Word
  <2>2. \A x \in -HalfWord .. HalfWord - 1 :
          ((x + HalfWord) % (2 * HalfWord)) - HalfWord = x
    BY HeapAssumption
  <2> QED  BY <2>1, <2>2 DEF Times
<1>4. By(p, h[b]) = h[a]
  BY <1>1, <1>2, <1>3, IntQuotient
<1>5. By(p, h[a]) = h[b]
  <2>1. p = h[b] * h[a]
    BY <1>1, <1>3
  <2> QED  BY <1>1, <1>2, <2>1, IntQuotient
<1> HIDE DEF p
<1>6. CanExchange(h, a, b)
  BY <1>1, <1>2, <1>4, <1>5 DEF CanExchange, p
<1>7. Exchanged(h, a, b) = Swapped(h, a, b)
  <2>1. Exchanged(h, a, b) = [h EXCEPT ![b] = h[a], ![a] = h[b]]
    BY <1>4, <1>5 DEF Exchanged, p
  <2> QED  BY <2>1 DEF Swapped
<1> QED  BY <1>6, <1>7

(* A swap moves values about and loses none.                               *)
LEMMA SwapKeepsCounts ==
  ASSUME NEW h \in [Index -> Word], NEW a \in Index, NEW b \in Index, NEW v
  PROVE  /\ Swapped(h, a, b) \in [Index -> Word]
         /\ Count(Swapped(h, a, b), v) = Count(h, v)
<1> DEFINE g == Swapped(h, a, b)
           S == {n \in Index : h[n] = v}
           T == {n \in Index : g[n] = v}
           f == [n \in S |-> IF n = a THEN b ELSE IF n = b THEN a ELSE n]
<1>1. g \in [Index -> Word] /\ \A n \in Index :
        g[n] = IF n = b THEN h[a] ELSE IF n = a THEN h[b] ELSE h[n]
  BY DEF Swapped
<1>2. IsFiniteSet(S)
  <2>1. IsFiniteSet(Index)
    BY HeapAssumption, FS_Interval DEF Index
  <2> QED  BY <2>1, FS_Subset
<1> HIDE DEF g
<1>3. f \in [S -> T]
  BY <1>1
<1>4. \A x, y \in S : f[x] = f[y] => x = y
  OBVIOUS
<1>5. ASSUME NEW t \in T PROVE \E s \in S : f[s] = t
  <2> DEFINE s == IF t = a THEN b ELSE IF t = b THEN a ELSE t
  <2>1. s \in S
    BY <1>1
  <2> QED  BY <2>1
<1>6. ExistsBijection(S, T)
  <2>1. f \in Injection(S, T)
    BY <1>3, <1>4 DEF Injection, IsInjective
  <2>2. f \in Surjection(S, T)
    BY <1>3, <1>5 DEF Surjection
  <2> QED  BY <2>1, <2>2 DEF ExistsBijection, Bijection
<1>7. Cardinality(T) = Cardinality(S)
  BY <1>2, <1>6, FS_Bijection
<1> QED  BY <1>1, <1>7 DEF Count, g

-----------------------------------------------------------------------------
(* Whatever the exchange gives, it gives ints.                             *)
LEMMA ExchangedType ==
  ASSUME NEW h \in [Index -> Word], NEW a \in Index, NEW b \in Index,
         CanExchange(h, a, b)
  PROVE  Exchanged(h, a, b) \in [Index -> Word]
BY DEF CanExchange, Exchanged

(* The children and the parent of a node are nodes, and others than it.    *)
LEMMA Relatives ==
  ASSUME NEW n \in Index
  PROVE  /\ LeftNodeIndex(n) >= 0 =>
              LeftNodeIndex(n) \in Index /\ LeftNodeIndex(n) # n
         /\ RightNodeIndex(n) >= 0 =>
              /\ RightNodeIndex(n) \in Index
              /\ RightNodeIndex(n) # n /\ RightNodeIndex(n) # LeftNodeIndex(n)
         /\ ParentNodeIndex(n) >= 0 =>
              ParentNodeIndex(n) \in Index /\ ParentNodeIndex(n) # n
BY HeapAssumption DEF Index, LeftNodeIndex, RightNodeIndex, ParentNodeIndex

LEMMA HeapInitType == HeapInit => HeapTypeOK
BY HeapAssumption DEF HeapInit, HeapTypeOK, Word

LEMMA ShiftDownType ==
  ASSUME HeapTypeOK, NEW n \in Index, ShiftDown(n)
  PROVE  HeapTypeOK'
<1> DEFINE left == LeftNodeIndex(n)
           right == RightNodeIndex(n)
           h == Exchanged(nodes, n, left)
<1> USE DEF HeapTypeOK
<1>1. CASE Undefined
  BY <1>1 DEF Undefined
<1>2. CASE /\ ~Undefined /\ left \in Index /\ right \in Index
           /\ CanExchange(nodes, n, left)
           /\ IF h[left] > h[right] THEN Exchange(h, left, right)
              ELSE nodes' = h /\ UNCHANGED hpc
  <2>1. h \in [Index -> Word]
    BY <1>2, ExchangedType
  <2> HIDE DEF h, left, right
  <2>2. CASE nodes' = h /\ UNCHANGED hpc
    BY <2>1, <2>2
  <2>3. CASE Exchange(h, left, right)
    BY <1>2, <2>1, <2>3, ExchangedType DEF Exchange
  <2> QED  BY <1>2, <2>2, <2>3
<1> QED
  <2>1. left >= 0 => left \in Index
    BY Relatives
  <2>2. right >= 0 => right \in Index
    BY Relatives
  <2>3. left \in Int /\ right \in Int
    BY HeapAssumption DEF LeftNodeIndex, RightNodeIndex, Index
  <2> HIDE DEF h
  <2> QED  BY <1>1, <1>2, <2>1, <2>2, <2>3 DEF ShiftDown, h

LEMMA ShiftUpType ==
  ASSUME HeapTypeOK, NEW n \in Index, ShiftUp(n)
  PROVE  HeapTypeOK'
<1> DEFINE parent == ParentNodeIndex(n)
<1>1. parent \in Index /\ Exchange(nodes, n, parent) /\ hpc = "filled"
  BY Relatives DEF ShiftUp
<1> HIDE DEF parent
<1>2. CASE CanExchange(nodes, n, parent)
  BY <1>1, <1>2, ExchangedType DEF Exchange, HeapTypeOK
<1>3. CASE ~CanExchange(nodes, n, parent)
  BY <1>1, <1>3 DEF Exchange, Undefined, HeapTypeOK
<1> QED  BY <1>2, <1>3

LEMMA HeapNextType == HeapTypeOK /\ [HeapNext]_heapVars => HeapTypeOK'
<1> SUFFICES ASSUME HeapTypeOK, [HeapNext]_heapVars PROVE HeapTypeOK'
  OBVIOUS
<1>1. CASE \E f \in [Index -> HeapVal] : Fill(f)
  BY <1>1, HeapAssumption DEF Fill, HeapTypeOK, Word
<1>2. CASE \E n \in Index : ShiftUp(n) \/ ShiftDown(n)
  BY <1>2, ShiftUpType, ShiftDownType
<1>3. CASE UNCHANGED heapVars
  BY <1>3 DEF heapVars, HeapTypeOK
<1> QED  BY <1>1, <1>2, <1>3 DEF HeapNext

-----------------------------------------------------------------------------
(* heap_shift_up exchanges a node and its parent.                          *)
LEMMA ShiftUpKeeps ==
  ASSUME HeapTypeOK, Exact, NEW n \in Index, ShiftUp(n), NEW v \in Word
  PROVE  Count(nodes', v) = Count(nodes, v)
<1> DEFINE parent == ParentNodeIndex(n)
<1>1. parent \in Index /\ parent # n /\ Exchange(nodes, n, parent)
  BY Relatives DEF ShiftUp
<1> HIDE DEF parent
<1>2. nodes \in [Index -> Word] /\ Fits(nodes, n, parent)
  BY <1>1 DEF HeapTypeOK, Exact, Fits
<1>3. nodes' = Swapped(nodes, n, parent)
  BY <1>1, <1>2, ExchangeSwaps DEF Exchange
<1> QED  BY <1>1, <1>2, <1>3, SwapKeepsCounts

(* heap_shift_down exchanges it with its left child and that, maybe, with  *)
(* the right one: the products are those of the values before the call.    *)
LEMMA ShiftDownKeeps ==
  ASSUME HeapTypeOK, Exact, NEW n \in Index, ShiftDown(n), NEW v \in Word
  PROVE  Count(nodes', v) = Count(nodes, v)
<1> DEFINE left == LeftNodeIndex(n)
           right == RightNodeIndex(n)
           h == Exchanged(nodes, n, left)
<1>1. CASE Undefined
  BY <1>1 DEF Undefined
<1>2. CASE /\ left >= 0 /\ right >= 0
           /\ IF h[left] > h[right] THEN Exchange(h, left, right)
              ELSE nodes' = h /\ UNCHANGED hpc
  <2>1. /\ left \in Index /\ left # n /\ right \in Index /\ right # n
        /\ right # left
    BY <1>2, Relatives
  <2> HIDE DEF left, right
  <2>2. nodes \in [Index -> Word] /\ Fits(nodes, n, left)
    BY <2>1 DEF HeapTypeOK, Exact, Fits
  <2>3. h = Swapped(nodes, n, left)
    BY <2>1, <2>2, ExchangeSwaps
  <2>4. h \in [Index -> Word] /\ Count(h, v) = Count(nodes, v)
    BY <2>1, <2>2, <2>3, SwapKeepsCounts
  <2>5. Fits(h, left, right)
    <3>1. h[left] = nodes[n] /\ h[right] = nodes[right]
      BY <2>1, <2>2, <2>3 DEF Swapped
    <3>2. nodes[n] * nodes[right] \in Word \ {0}
      BY <2>1 DEF Exact
    <3> QED  BY <3>1, <3>2 DEF Fits
  <2> HIDE DEF h
  <2>6. CASE nodes' = h
    BY <2>4, <2>6
  <2>7. CASE Exchange(h, left, right)
    <3>1. nodes' = Swapped(h, left, right)
      BY <2>1, <2>4, <2>5, <2>7, ExchangeSwaps DEF Exchange
    <3> QED  BY <2>1, <2>4, <3>1, SwapKeepsCounts
  <2> QED  BY <1>2, <2>6, <2>7
<1> QED
  <2>1. left \in Int /\ right \in Int
    BY HeapAssumption DEF LeftNodeIndex, RightNodeIndex, Index
  <2> HIDE DEF h
  <2> QED  BY <1>1, <1>2, <2>1 DEF ShiftDown, h

(* In an array of any size, with ints of any width: as long as no product  *)
(* of two elements overflows or is 0, heap_shift_up and heap_shift_down    *)
(* permute the values, although they exchange them by arithmetic.          *)
THEOREM ShiftsPermute == HeapSpec => HeapKeepsValues
<1>1. ASSUME HeapTypeOK, [HeapNext]_heapVars, hpc = "filled", Exact, NEW v \in Word
      PROVE  Count(nodes', v) = Count(nodes, v)
  <2>1. CASE \E n \in Index : ShiftUp(n) \/ ShiftDown(n)
    BY <1>1, <2>1, ShiftUpKeeps, ShiftDownKeeps
  <2>2. CASE UNCHANGED heapVars
    BY <2>2 DEF heapVars
  <2> QED  BY <1>1, <2>1, <2>2 DEF HeapNext, Fill
<1>2. HeapTypeOK /\ [HeapNext]_heapVars =>
        [hpc = "filled" /\ Exact =>
           \A v \in Word : Count(nodes', v) = Count(nodes, v)]_heapVars
  BY <1>1
<1> QED  BY <1>2, HeapInitType, HeapNextType, PTL DEF HeapSpec, HeapKeepsValues

=============================================================================
