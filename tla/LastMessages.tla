---------------------------- MODULE LastMessages ----------------------------
(***************************************************************************)
(* What the message ring buffer promises: it keeps the last N messages and *)
(* tells them oldest first, all of them or, if the reader's buffer is too  *)
(* small for that, none.                                                   *)
(***************************************************************************)
EXTENDS Naturals, Sequences

CONSTANTS N,             \* how many messages are kept
          Msg,           \* messages
          BufferLen,     \* sizes of the readers' buffers
          TextLen(_)     \* the length of the text that tells some messages

VARIABLES last,          \* the messages kept
          told           \* what the reader got

vars == <<last, told>>

Init == last = <<>> /\ told = <<>>

Add(m) == /\ last' = Append(IF Len(last) = N THEN Tail(last) ELSE last, m)
          /\ UNCHANGED told

Clear == last' = <<>> /\ UNCHANGED told

Tell(len) == /\ told' = IF TextLen(last) <= len THEN last ELSE <<>>
             /\ UNCHANGED last

Next == \/ \E m \in Msg : Add(m)
        \/ Clear
        \/ \E len \in BufferLen : Tell(len)

Spec == Init /\ [][Next]_vars

=============================================================================
