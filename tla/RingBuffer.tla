----------------------------- MODULE RingBuffer -----------------------------
(***************************************************************************)
(* ringBuffer/ringBuffer.c: the messages of one MsgEntity.  Of the two     *)
(* that MsgManage has, getActionOutMsgEntity hands out one, and nothing    *)
(* the other.                                                              *)
(***************************************************************************)
EXTENDS Integers, Sequences, Folds

CONSTANTS MAX_MSG_ITEMS,  \* slots
          Msg,            \* messages
          NoMsg,          \* an empty slot
          StrLen,         \* strlen of each message
          BufferLen,      \* sizes of the buffers the text is asked for with
          MaxCursor       \* bound: INT_MAX, beyond which cursor++ overflows

ASSUME SlotsAssumption   == MAX_MSG_ITEMS \in Nat \ {0}
ASSUME MsgAssumption     == NoMsg \notin Msg
ASSUME StrLenAssumption  == StrLen \in [Msg -> Nat]
ASSUME LengthsAssumption == BufferLen \subseteq Nat /\ MaxCursor \in Nat

VARIABLES cursor,         \* messages added since the last clear
          items,          \* the slots
          told            \* the messages in the reader's buffer, <<>> if it got -1

ringVars == <<cursor, items, told>>

Slot == 0 .. MAX_MSG_ITEMS - 1

RingInit == /\ cursor = 0
            /\ items = [s \in Slot |-> NoMsg]
            /\ told = <<>>

-----------------------------------------------------------------------------
Pos == cursor % MAX_MSG_ITEMS

RingAdd(m) == /\ cursor < MaxCursor
              /\ items' = [items EXCEPT ![Pos] = m]
              /\ cursor' = cursor + 1
              /\ UNCHANGED told

(* A mutant of msg_clear: the cursor stays where it is.                    *)
ClearsItemsOnly == /\ items' = [s \in Slot |-> NoMsg]
                   /\ UNCHANGED <<cursor, told>>

RingClear == /\ items' = [s \in Slot |-> NoMsg]
             /\ cursor' = 0
             /\ UNCHANGED told

-----------------------------------------------------------------------------
(* Both walks of _msg_to_string: from the oldest message round the ring,   *)
(* until the slot has never been filled or the walk is back where it began. *)
(* A mutant: the walk begins at the newest message.                        *)
HeadNewest == IF cursor < MAX_MSG_ITEMS THEN 0 ELSE (cursor - 1) % MAX_MSG_ITEMS

HeadPos == IF cursor < MAX_MSG_ITEMS THEN 0 ELSE cursor % MAX_MSG_ITEMS

WalkPos(k) == (HeadPos + k) % MAX_MSG_ITEMS

WalkLen == CHOOSE n \in 0 .. MAX_MSG_ITEMS :
             /\ \A k \in 0 .. n - 1 : WalkPos(k) < cursor
             /\ n < MAX_MSG_ITEMS => WalkPos(n) >= cursor

Walk == [k \in 1 .. WalkLen |-> items[WalkPos(k - 1)]]

(* The line of a message: MSG_JSON_FORMAT with a number of one digit and a *)
(* time stamp of ten.                                                      *)
LineLen == 48

TextLen(msgs) ==
  MapThenFoldSet(+, 0, LAMBDA k : LineLen + StrLen[msgs[k]],
                 LAMBDA S : CHOOSE k \in S : TRUE, DOMAIN msgs)

RingShow(len) == /\ told' = IF TextLen(Walk) <= len THEN Walk ELSE <<>>
                 /\ UNCHANGED <<cursor, items>>

RingNext == \/ \E m \in Msg : RingAdd(m)
            \/ RingClear
            \/ \E len \in BufferLen : RingShow(len)

RingSpec == RingInit /\ [][RingNext]_ringVars

-----------------------------------------------------------------------------
(* Types: a slot is empty only as long as the messages have not come round *)
(* to it (_msg_to_string prints whatever the slot holds).                  *)
RingTypeOK == /\ cursor \in 0 .. MaxCursor
              /\ items \in [Slot -> Msg \cup {NoMsg}]
              /\ \A s \in Slot : s < cursor => items[s] \in Msg
              /\ told \in Seq(Msg)

(* Refinement: the ring is the sequence of the last MAX_MSG_ITEMS messages. *)
(* The messages kept are the slots from `cursor - Kept` on, modulo the     *)
(* ring; nothing of this depends on how _msg_to_string walks.              *)
Kept == IF cursor < MAX_MSG_ITEMS THEN cursor ELSE MAX_MSG_ITEMS

Window == [k \in 1 .. Kept |-> items[(cursor - Kept + k - 1) % MAX_MSG_ITEMS]]

Last == INSTANCE LastMessages WITH N <- MAX_MSG_ITEMS, last <- Window

(* msg_add, msg_clear and msg_to_string tell the last messages, oldest     *)
(* first, before the ring has come round, when it just has, and after.     *)
RingIsLast == Last!Spec

=============================================================================
