------------------------------- MODULE Utf8Ncr -------------------------------
(* The conversions of src/src/utf8ToUnicodeToNCR/utf8ToUnicodeToNCR.c       *)
(* between UTF-8, numeric character references (&#20013;), URL components   *)
(* (%E4%B8%AD) and 16 bit codes, and the classification of a text.  A       *)
(* conversion walks its source with a cursor, writes to a buffer of the     *)
(* caller and returns the bytes written or an error; an iteration of its    *)
(* loop is a step.                                                          *)
(*                                                                          *)
(* The tests convert a text and convert the answer back, with a second      *)
(* buffer: ConvertBack is that call.  The code relies on buffers that the   *)
(* caller cleared (utf8_to_url_component appends with strlen).              *)
EXTENDS Utf8Codec

CONSTANTS
  Characters,   \* characters in UTF-8, at most four bytes long
  Malformed,    \* other pieces of strings
  Pieces,       \* how many characters and other pieces a text has at most
  Ncrs,         \* the strings read as references, well-formed or not
  Urls,         \* the strings read as URL components, well-formed or not
  Lengths       \* the lengths of the buffers

\* UTF-8 of one character: the least number of bytes, and none of them zero
WellFormed(c) ==
  /\ \/ Len(c) = 1 /\ c[1] \in 1..127
     \/ Len(c) = 2 /\ c[1] \in 194..223
     \/ Len(c) = 3 /\ c[1] \in 224..239 /\ (c[1] = 224 => c[2] > 159)
     \/ Len(c) = 4 /\ c[1] \in 240..247 /\ (c[1] = 240 => c[2] > 143)
  /\ \A k \in 2..Len(c) : c[k] \in 128..191

ASSUME Utf8Assumption ==
  /\ Lengths \subseteq Nat /\ Pieces \in Nat
  /\ Characters \cup Malformed \cup Ncrs \cup Urls \subseteq Seq(1..255)
  /\ \A c \in Characters : WellFormed(c)

VARIABLES
  op,           \* the function that runs
  text,         \* the string the first call was made for
  src,          \* the source of the call that runs
  at,           \* the offset of its cursor
  out,          \* what it wrote, from the start of the buffer
  len,          \* the length of the buffer
  high,         \* the bytes of the buffer it touched
  phase,        \* the loop it is in, "done" after the return
  ret           \* what it returned

utfVars == <<op, text, src, at, out, len, high, phase, ret>>

Back == [to_ncr |-> "from_ncr", to_url |-> "from_url", to_ucs |-> "from_ucs"]

Operations == {"code_type"} \cup DOMAIN Back \cup {Back[f] : f \in DOMAIN Back}

Joined(S) ==
  LET of[n \in Nat] == IF n = 0 THEN {<<>>}
                       ELSE of[n - 1] \cup {p[1] \o p[2] : p \in S \X of[n - 1]}
  IN  of[Pieces]

Texts == Joined(Characters \cup Malformed)
Utf8Texts == Joined(Characters)
ShortTexts == Joined({c \in Characters : Len(c) < 4})

\* The values of CodeType
CODE_UNKWON == 0
CODE_UTF8 == 1
CODE_GBK == 2
CODE_NCR == 4

FirstPhase(f) ==
  CASE f = "code_type" -> "gbk" [] f = "to_url" -> "utf8" [] OTHER -> "write"

Sources(f) ==
  CASE f \in DOMAIN Back -> Texts
    [] f = "from_ncr" -> Ncrs
    [] f = "from_url" -> Urls
    [] f = "code_type" -> Texts \cup Ncrs
    [] OTHER -> {}

UtfInit ==
  /\ op \in Operations /\ text \in Sources(op) /\ src = text
  /\ len \in IF op = "code_type" THEN {0} ELSE Lengths
  /\ at = 0 /\ out = <<>> /\ high = 0 /\ ret = 0
  /\ phase = FirstPhase(op)

Touch(n) == high' = Max({high, n})

Return(r) ==
  /\ phase' = "done" /\ ret' = r
  /\ UNCHANGED <<at, out, high>>

Write(bytes, next) ==
  /\ out' = out \o bytes /\ Touch(Len(out')) /\ at' = next
  /\ UNCHANGED <<phase, ret>>

Skip(n) ==
  /\ at' = at + n
  /\ UNCHANGED <<out, high, phase, ret>>

AtEnd == At(src, at) = 0
Calls(f) == op = f /\ phase = "write" /\ UNCHANGED <<op, text, src, len>>

ToNcr ==
  /\ Calls("to_ncr")
  /\ CASE AtEnd -> Return(Len(out))
       [] ~AtEnd /\ Width(src, at) = 0 -> Return(-2)
       [] OTHER ->
            LET ncr == Ncr(Unicode(src, at))
            IN  IF Len(out) + Len(ncr) >= len THEN Return(-3)
                ELSE Write(ncr, at + Width(src, at))

FromNcr ==
  /\ Calls("from_ncr")
  /\ IF AtEnd THEN Return(Len(out))
     ELSE \E u \in {NcrValue(src, at)} :
            CASE u = -1 -> Return(-2)
              [] u # -1 /\ Len(out) + Len(Encode(u)) > len -> Return(-3)
              [] OTHER -> Write(Encode(u), AfterNcr(src, at))

\* sprintf ends the three bytes with a zero
ToUrl ==
  /\ Calls("to_url")
  /\ CASE AtEnd -> Return(Len(out))
       [] ~AtEnd /\ Len(out) + 3 > len -> Return(-2)
       [] OTHER ->
            /\ out' = out \o <<Percent, ToHex(At(src, at) \div 16),
                               ToHex(At(src, at) % 16)>>
            /\ Touch(Len(out') + 1) /\ at' = at + 1
            /\ UNCHANGED <<phase, ret>>

\* What may stand behind the zero of a string that ends with a percent sign
Behind == {0, 52}

\* The bound is tested for the bytes of an escape only; without room the
\* percent sign and the first digit are skipped and the second is copied.
FromUrl ==
  /\ Calls("from_url")
  /\ CASE at >= Len(src) -> Return(1)
       [] at < Len(src) /\ At(src, at) # Percent ->
            Write(<<At(src, at)>>, at + 1)
       [] at < Len(src) /\ At(src, at) = Percent /\ Len(out) < len ->
            \E low \in IF at + 2 <= Len(src) THEN {At(src, at + 2)} ELSE Behind :
              Write(<<HexMerge(FromHex(At(src, at + 1)), FromHex(low))>>, at + 3)
       [] OTHER -> Skip(2)

\* Two bytes are written where the width of the source was tested.
ToUcs ==
  /\ Calls("to_ucs")
  /\ CASE AtEnd -> Return(Len(out))
       [] ~AtEnd /\ (Width(src, at) = 0 \/ Len(out) + Width(src, at) > len) ->
            Return(-2)
       [] OTHER ->
            Write(<<Unicode(src, at) % 256, (Unicode(src, at) \div 256) % 256>>,
                  at + Width(src, at))

\* FromUcs below, no test of the buffer
FromUcsUnbounded ==
  /\ Calls("from_ucs")
  /\ IF at >= Len(src) THEN Return(Len(out))
     ELSE Write(Encode(At(src, at) + 256 * At(src, at + 1)), at + 2)

FromUcs ==
  /\ Calls("from_ucs")
  /\ IF at >= Len(src) THEN Return(Len(out))
     ELSE LET bytes == Encode(At(src, at) + 256 * At(src, at + 1))
          IN  IF Len(out) + Len(bytes) > len THEN Return(-3)
              ELSE Write(bytes, at + 2)

\* get_str_code_type asks is_gbk_str, is_ncr_str and is_utf8_str in turn; each
\* starts from the first byte.
Asks(f, next) ==
  /\ phase' = next /\ at' = 0
  /\ UNCHANGED <<out, high, ret>>

InPhase(p) == phase = p /\ UNCHANGED <<op, text, src, len>>

IsGbk ==
  /\ InPhase("gbk")
  /\ CASE AtEnd -> Return(CODE_GBK)
       [] ~AtEnd /\ GbkWidth(src, at) = 0 -> Asks(op, "ncr")
       [] OTHER -> Skip(GbkWidth(src, at))

\* IsNcr below, the semicolon searched from the start of the string
IsNcrFromStart ==
  /\ InPhase("ncr")
  /\ CASE AtEnd -> Return(CODE_NCR)
       [] ~AtEnd /\ NcrValue(src, at) = -1 -> Asks(op, "utf8")
       [] OTHER -> at' = AfterNcr(src, 0) /\ UNCHANGED <<out, high, phase, ret>>

IsNcr ==
  /\ InPhase("ncr")
  /\ CASE AtEnd -> Return(CODE_NCR)
       [] ~AtEnd /\ NcrValue(src, at) = -1 -> Asks(op, "utf8")
       [] OTHER -> Skip(AfterNcr(src, at) - at)

\* is_utf8_str, for the classification and first thing in utf8_to_url_component
IsUtf8 ==
  /\ InPhase("utf8")
  /\ CASE AtEnd /\ op = "code_type" -> Return(CODE_UTF8)
       [] AtEnd /\ op = "to_url" -> Asks(op, "write")
       [] ~AtEnd /\ ~IsCharacter(src, at) ->
            Return(IF op = "to_url" THEN -1 ELSE CODE_UNKWON)
       [] OTHER -> Skip(Width(src, at))

\* The caller converts the answer back into another buffer.
ConvertBack ==
  /\ phase = "done" /\ op \in DOMAIN Back /\ ret >= 0
  /\ op' = Back[op] /\ src' = out /\ at' = 0 /\ out' = <<>> /\ high' = 0
  /\ len' \in Lengths /\ phase' = "write" /\ ret' = 0
  /\ UNCHANGED text

UtfNext ==
  \/ ToNcr \/ FromNcr \/ ToUrl \/ FromUrl \/ ToUcs \/ FromUcs
  \/ IsGbk \/ IsNcr \/ IsUtf8 \/ ConvertBack

UtfSpec == UtfInit /\ [][UtfNext]_utfVars

UtfTypeOK ==
  /\ op \in Operations
  /\ at \in Nat /\ high \in Nat /\ len \in Lengths \cup {0}
  /\ \A s \in {text, src, out} : \A i \in DOMAIN s : s[i] \in 0..255
  /\ phase \in {"gbk", "ncr", "utf8", "write", "done"}
  /\ ret >= -3

\* A text in UTF-8 that was converted to references, to a URL component or to
\* 16 bit codes and back is the text again, byte for byte (16 bit codes hold
\* the characters of up to three bytes only).  The tests print one text there
\* and back and compare nothing.
RoundTrip ==
  (phase = "done" /\ ret >= 0 /\ src # text /\ len >= Len(text)) =>
    /\ op \in {"from_ncr", "from_url"} /\ text \in Utf8Texts =>
         out = text
    /\ op = "from_ucs" /\ text \in ShortTexts =>
         out = text

\* How far a conversion writes beyond the length it was given: not at all,
\* but for the zero that utf8_to_url_component lets sprintf write, and for the
\* second byte of a code when utf8_to_unicode was given an odd length.
\* url_component_to_utf8 does write beyond it, without bound but its source:
\* it tests the room for an escape only, and copies every other byte and the
\* last digit of an escape it had no room for.  It writes no more bytes than
\* the source has, so that a buffer of that length is enough.
BufferKept ==
  IF op = "from_url" THEN high <= Len(src)
  ELSE high <= len + (CASE op = "to_url" -> 1
                        [] op = "to_ucs" -> len % 2
                        [] OTHER -> 0)

\* is_utf8_str makes no step over a byte that can only continue a character.
StrayHead == phase = "utf8" /\ At(src, at) \in 128..191

\* Every call returns, for every string: a loop always moves its cursor, but
\* for is_utf8_str at a stray byte.
Returns == (phase # "done") ~> (phase = "done" \/ StrayHead)
=============================================================================
