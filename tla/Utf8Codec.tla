------------------------------ MODULE Utf8Codec ------------------------------
(* The character functions of src/src/utf8ToUnicodeToNCR: how one character *)
(* is measured, decoded, encoded and spelled.  A byte is a number, a string *)
(* a sequence of bytes whose terminating zero is left implicit: At reads a  *)
(* byte by its offset as the code does, the zero included.  A mask of low   *)
(* bits is a remainder, a shift a quotient or a product.                    *)
EXTENDS Integers, Sequences, FiniteSetsExt

At(s, i) == IF i < Len(s) THEN s[i + 1] ELSE 0

\* The bytes of the character that a byte introduces, 0 if it introduces none
Announced(b) ==
  CASE b \in 0..127 -> 1
    [] b \in 128..191 -> 0
    [] b \in 192..223 -> 2
    [] b \in 224..239 -> 3
    [] b \in 240..247 -> 4
    [] b \in 248..251 \cup 254..255 -> 5
    [] b \in 252..253 -> 6

\* How many bytes of a character of n bytes at offset i are in order: the
\* offset of the first one that does not continue it, else n.
Body(s, i, n) ==
  IF n = 0 THEN 0
  ELSE Min({n} \cup {k \in 1..(n - 1) : At(s, i + k) \notin 128..191})

Width(s, i) == Body(s, i, Announced(At(s, i)))

\* A byte that introduces no character passes: 0 bytes announced, 0 in order.
IsCharacter(s, i) == Width(s, i) = Announced(At(s, i))

\* The code of the Width bytes at i, read as a character of that width
LeadCodes == <<128, 32, 16, 8, 4, 2>>
Unicode(s, i) ==
  LET code[k \in Nat] == IF k = 0 THEN At(s, i) % LeadCodes[Width(s, i)]
                         ELSE code[k - 1] * 64 + (At(s, i + k) % 64)
  IN  code[Width(s, i) - 1]

\* u, and what is left of it after one, two ... digits to the base b
Shifted(u, b) ==
  LET rest[k \in Nat] == IF k = 0 THEN u ELSE rest[k - 1] \div b
  IN  rest

Spread(u, lead, codes, k) ==
  <<lead + (Shifted(u, 64)[k] % codes)>>
    \o [j \in 1..k |-> 128 + (Shifted(u, 64)[k - j] % 64)]

\* 0xFFFF and 0x7FFFFFF, the last codes that get three and four bytes
ThreeBytes == 65535
FourBytes == 2048 * ThreeBytes + 2047

\* Encode below, the codes of two bytes ending one too early
EncodeOffByOne(u) ==
  CASE u \in 0..127 -> <<u>>
    [] u \in 128..2046 -> Spread(u, 192, 32, 1)
    [] u \in 2047..ThreeBytes -> Spread(u, 224, 16, 2)
    [] u \in (ThreeBytes + 1)..FourBytes -> Spread(u, 240, 8, 3)
    [] u > FourBytes -> Spread(u, 248, 4, 4)

\* The branch for 5 bytes starts above 0x7FFFFFF, so codes from 0x200000 on
\* get 4 bytes and lose bits; the branch for 6 starts above any unsigned int.
Encode(u) ==
  CASE u \in 0..127 -> <<u>>
    [] u \in 128..2047 -> Spread(u, 192, 32, 1)
    [] u \in 2048..ThreeBytes -> Spread(u, 224, 16, 2)
    [] u \in (ThreeBytes + 1)..FourBytes -> Spread(u, 240, 8, 3)
    [] u > FourBytes -> Spread(u, 248, 4, 4)

\* How many decimal digits an int has
Digits(u) == Min({n \in 1..10 : Shifted(u, 10)[n] = 0})

Decimal(u) == [i \in 1..Digits(u) |-> 48 + (Shifted(u, 10)[Digits(u) - i] % 10)]

Amp == 38
Hash == 35
Semicolon == 59
Percent == 37

Ncr(u) == <<Amp, Hash>> \o Decimal(u) \o <<Semicolon>>

\* The offset after the first semicolon from i on, -1 if there is none
AfterNcr(s, i) ==
  LET ends == {j \in i..(Len(s) - 1) : At(s, j) = Semicolon}
  IN  IF ends = {} THEN -1 ELSE Min(ends) + 1

\* A digit more, or -1 for a byte that is none and for a value above INT_MAX
INT_MAX == 32768 * ThreeBytes + 32767
Further(v, b) ==
  IF b \in 48..57 /\ v \in 0..((INT_MAX - (b - 48)) \div 10)
  THEN v * 10 + (b - 48)
  ELSE -1

NcrValue(s, i) ==
  LET value[k \in Nat] == IF k = 0 THEN 0
                          ELSE Further(value[k - 1], At(s, i + 1 + k))
  IN  IF At(s, i) = Amp /\ At(s, i + 1) = Hash /\ AfterNcr(s, i) # -1
      THEN value[AfterNcr(s, i) - i - 3]
      ELSE -1

FromHex(b) ==
  CASE b \in 97..102 -> b - 87
    [] b \in 65..70 -> b - 55
    [] OTHER -> (b - 48) % 256

ToHex(d) == IF d <= 9 THEN d + 48 ELSE d + 55

\* a | b for a byte b
Or(a, b) ==
  LET Bit(k) == IF (a \div k) % 2 = 1 \/ (b \div k) % 2 = 1 THEN k ELSE 0
  IN  256 * (a \div 256) + Bit(128) + Bit(64) + Bit(32) + Bit(16)
        + Bit(8) + Bit(4) + Bit(2) + Bit(1)

\* The shifted digit is cut to a byte by the char the result is stored in.
HexMerge(h, l) == Or((h * 16) % 256, l)

\* The bytes of the GBK character at i, 0 if there is none
GbkWidth(s, i) ==
  CASE At(s, i) < 128 -> 1
    [] At(s, i) \in 129..254 /\ At(s, i + 1) \in 64..254 -> 2
    [] OTHER -> 0
=============================================================================
