----------------------------- MODULE InputProofs -----------------------------
(***************************************************************************)
(* Proofs about the reader of C declarations, for every specifier list and *)
(* any number of operators, about the service over Ethernet frames and     *)
(* about the conversions of texts, for all texts and lengths of buffers.   *)
(***************************************************************************)
EXTENDS MCInputs, SequenceTheorems, NatLemmas

-----------------------------------------------------------------------------
(***************************************************************************)
(* The grammar.                                                            *)
(***************************************************************************)
Word == Qualifiers \cup Types \cup
        {"p", "q", "3", "(", ")", "[", "]", "*", "is", "array", "0..2", "of",
         "function returning", "point to", "readonly"}

Words == Seq(Word)
Kinds == {"name", "array", "function", "pointer"}

Declarator == [toks : Words, says : Words, last : Kinds]

LEMMA OperatorTypes == Operators \subseteq Declarator /\ Pointers \subseteq Declarator
<1>1. <<"[", "]">> \in Words /\ <<"[", "3", "]">> \in Words
  BY DEF Words, Word
<1>2. <<"(", ")">> \in Words /\ <<"(", "char", "q", ")">> \in Words
  BY DEF Words, Word, Types
<1>3. <<"array", "of">> \in Words /\ <<"array", "0..2", "of">> \in Words
  BY DEF Words, Word
<1>4. <<"*">> \in Words /\ <<"*", "const">> \in Words
  BY DEF Words, Word, Qualifiers
<1>5. <<"function returning">> \in Words /\ <<"point to">> \in Words
      /\ <<"readonly", "point to">> \in Words
  BY DEF Words, Word
<1>6. \A t, w \in Words : \A k \in Kinds :
        [toks |-> t, says |-> w, last |-> k] \in Declarator
  BY DEF Declarator
<1>7. "array" \in Kinds /\ "function" \in Kinds /\ "pointer" \in Kinds
  BY DEF Kinds
<1>8. \A s \in Operators : s \in Declarator
  BY <1>1, <1>2, <1>3, <1>5, <1>6, <1>7 DEF Operators
<1>9. \A s \in Pointers : s \in Declarator
  BY <1>4, <1>5, <1>6, <1>7 DEF Pointers
<1> QED  BY <1>8, <1>9

LEMMA NamedTypes == Named \in Declarator /\ [Named EXCEPT !.toks = Bracketed(@)] \in Declarator
<1>1. <<"p">> \in Words /\ <<"(">> \in Words /\ <<")">> \in Words /\ <<"p", "is">> \in Words
  BY DEF Words, Word
<1>2. <<"(">> \o <<"p">> \o <<")">> \in Words
  BY <1>1, ConcatProperties DEF Words
<1> QED  BY <1>1, <1>2 DEF Named, Declarator, Kinds, Bracketed

LEMMA ExtendedTypes ==
  ASSUME NEW d \in Declarator
  PROVE  Extended(d) \subseteq Declarator
<1>1. \A p \in Pointers : [toks |-> p.toks \o d.toks, says |-> d.says \o p.says,
                           last |-> p.last] \in Declarator
  BY OperatorTypes, ConcatProperties DEF Declarator, Words
<1>2. Bracketed(d.toks) \in Words
  <2>1. <<"(">> \in Words /\ <<")">> \in Words
    BY DEF Words, Word
  <2>2. d.toks \in Words
    BY DEF Declarator
  <2> QED  BY <2>1, <2>2, ConcatProperties DEF Words, Bracketed
<1>3. \A s \in Operators :
        [toks |-> (IF d.last = "pointer" THEN Bracketed(d.toks) ELSE d.toks) \o s.toks,
         says |-> d.says \o s.says, last |-> s.last] \in Declarator
  BY <1>2, OperatorTypes, ConcatProperties DEF Declarator, Words
<1> QED  BY <1>1, <1>3 DEF Extended

LEMMA DeclaratorsUnfold ==
  /\ Declarators \in [Nat -> SUBSET Declarator]
  /\ Declarators[0] = {Named, [Named EXCEPT !.toks = Bracketed(@)]}
  /\ \A n \in Nat : n # 0 =>
       Declarators[n] = Declarators[n - 1]
                        \cup UNION {Extended(d) : d \in Declarators[n - 1]}
<1> DEFINE X == SUBSET Declarator
           base == {Named, [Named EXCEPT !.toks = Bracketed(@)]}
           step == [D \in X |-> D \cup UNION {Extended(d) : d \in D}]
           Is(f) == f = [n \in Nat |-> IF n = 0 THEN base
                           ELSE f[n - 1] \cup UNION {Extended(d) : d \in f[n - 1]}]
<1>1. base \in X
  BY NamedTypes
<1>2. step \in [X -> X]
  BY ExtendedTypes
<1>3. PICK f \in [Nat -> X] : f[0] = base /\ \A n \in Nat : n # 0 => f[n] = step[f[n - 1]]
  <2>1. \E f \in [Nat -> X] : Repetition(f, base, step)
    <3> HIDE DEF X, base, step
    <3> QED  BY <1>1, <1>2, RepetitionExists, Zenon
  <2> QED  BY <2>1 DEF Repetition
<1>4. Is(f)
  <2>1. ASSUME NEW n \in Nat
        PROVE  f[n] = IF n = 0 THEN base
                      ELSE f[n - 1] \cup UNION {Extended(d) : d \in f[n - 1]}
    <3>1. CASE n = 0
      BY <1>3, <3>1
    <3>2. CASE n # 0
      <4>1. n - 1 \in Nat
        BY <3>2
      <4>2. f[n - 1] \in X
        BY <1>3, <4>1
      <4> QED  BY <1>3, <3>2, <4>2
    <3> QED  BY <3>1, <3>2
  <2> QED  BY <1>3, <2>1
<1>5. Is(Declarators)
  <2>1. Declarators = CHOOSE g : Is(g)
    BY DEF Declarators
  <2> HIDE DEF Is
  <2> QED  BY <1>4, <2>1
<1>6. Declarators[0] = base
  BY <1>5
<1>7. \A n \in Nat : n # 0 => Declarators[n] = Declarators[n - 1]
                        \cup UNION {Extended(d) : d \in Declarators[n - 1]}
  BY <1>5
<1>8. \A n \in Nat : Declarators[n] \in X
  <2> DEFINE Fails == {n \in Nat : Declarators[n] \notin X}
  <2> SUFFICES ASSUME Fails # {} PROVE FALSE
    OBVIOUS
  <2>1. PICK m \in Fails : \A k \in Fails : m <= k
    <3>1. Fails \subseteq Nat
      OBVIOUS
    <3> HIDE DEF Fails
    <3> QED  BY <3>1, NatLeast
  <2>2. m # 0
    BY <2>1, <1>6, <1>1
  <2>3. m - 1 \in Nat /\ m - 1 \notin Fails
    BY <2>1, <2>2
  <2>4. Declarators[m - 1] \subseteq Declarator
    BY <2>3
  <2>5. UNION {Extended(d) : d \in Declarators[m - 1]} \subseteq Declarator
    BY <2>4, ExtendedTypes
  <2> QED  BY <1>7, <2>1, <2>2, <2>4, <2>5
<1>9. Declarators \in [Nat -> X]
  <2>1. Declarators = [n \in Nat |-> IF n = 0 THEN base
             ELSE Declarators[n - 1] \cup UNION {Extended(d) : d \in Declarators[n - 1]}]
    BY <1>5
  <2>2. DOMAIN Declarators = Nat /\ Declarators = [n \in Nat |-> Declarators[n]]
    BY <2>1
  <2> HIDE DEF X
  <2> QED  BY <1>8, <2>2
<1> QED  BY <1>6, <1>7, <1>9

-----------------------------------------------------------------------------
(***************************************************************************)
(* What stands around a declarator: the tokens before and behind it, and   *)
(* the words said once it is said.  "last" is what such a declarator may   *)
(* end with.  Around(o, c): c is o with one more token or suffix, the one  *)
(* read next.                                                              *)
(***************************************************************************)
Before == {"(", "*"} \cup Qualifiers \cup Types

Context == [left : Seq(Before), right : Words, rest : Words, last : Kinds]

Said(words) == Reverse([i \in DOMAIN words |-> Renamed(words[i])])

Outermost(c) ==
  /\ c.left \in Seq(Qualifiers \cup Types)
  /\ c.right = <<>>
  /\ c.rest = Said(c.left)

AroundPointer(o, c) ==
  /\ o.last = "pointer"
  /\ c.right = o.right
  /\ \/ /\ c.left = o.left \o <<"*">>
        /\ c.rest = <<"point to">> \o o.rest
     \/ /\ c.left = o.left \o <<"const">>
        /\ c.rest = <<"readonly">> \o o.rest

AroundBracket(o, c) ==
  /\ o.last = "name" /\ c.last \in {"name", "pointer"}
  /\ c.left = o.left \o <<"(">>
  /\ c.right = <<")">> \o o.right
  /\ c.rest = o.rest

AroundSuffix(o, c) ==
  /\ c.last = "name" \/ (c.last = "array" /\ o.last = "array")
  /\ c.left = o.left
  /\ \E s \in Operators : /\ o.last = s.last
                          /\ c.right = s.toks \o o.right
                          /\ c.rest = s.says \o o.rest

Around(o, c) == AroundPointer(o, c) \/ AroundBracket(o, c) \/ AroundSuffix(o, c)

Closed(S) ==
  /\ \A c \in Context : Outermost(c) => c \in S
  /\ \A o \in S : \A c \in Context : Around(o, c) => c \in S

Contexts == {c \in Context : \A S \in SUBSET Context : Closed(S) => c \in S}

LEMMA ContextsBuild == Contexts \subseteq Context /\ Closed(Contexts)
<1>1. \A c \in Context : Outermost(c) => c \in Contexts
  BY DEF Contexts, Closed
<1>2. \A o \in Contexts : \A c \in Context : Around(o, c) => c \in Contexts
  BY DEF Contexts, Closed
<1> QED  BY <1>1, <1>2 DEF Contexts, Closed

LEMMA ContextsInvert ==
  ASSUME NEW c \in Contexts
  PROVE  Outermost(c) \/ \E o \in Contexts : Around(o, c)
<1> DEFINE S == {x \in Contexts : Outermost(x) \/ \E o \in Contexts : Around(o, x)}
<1>1. S \in SUBSET Context /\ S \subseteq Contexts
  BY ContextsBuild
<1>2. \A x \in Context : Outermost(x) => x \in S
  BY ContextsBuild DEF Closed
<1>3. \A o \in S : \A x \in Context : Around(o, x) => x \in S
  BY ContextsBuild DEF Closed
<1>4. Closed(S)
  BY <1>2, <1>3 DEF Closed
<1>5. c \in S
  <2> HIDE DEF S
  <2> QED  BY <1>1, <1>4 DEF Contexts
<1> QED  BY <1>5

LEMMA Concat ==
  /\ \A s, t \in Words : s \o t \in Words
  /\ \A s, t, u \in Words : (s \o t) \o u = s \o (t \o u)
<1>1. \A s, t \in Words : s \o t \in Words
  BY ConcatProperties DEF Words
<1>2. ASSUME NEW s \in Words, NEW t \in Words, NEW u \in Words
      PROVE  (s \o t) \o u = s \o (t \o u)
  BY ConcatAssociative DEF Words
<1> QED  BY <1>1, <1>2

LEMMA Regroup ==
  ASSUME NEW s \in Words, NEW t \in Words, NEW u \in Words
  PROVE  (s \o t) \o u = s \o (t \o u)
BY ConcatAssociative DEF Words

LEMMA FirstWord ==
  ASSUME NEW x \in Word, NEW t \in Words
  PROVE  (<<x>> \o t)[1] = x /\ Len(<<x>> \o t) = Len(t) + 1 /\ Len(t) \in Nat
<1>1. <<x>> \in Seq(Word) /\ Len(<<x>>) = 1 /\ <<x>>[1] = x
  OBVIOUS
<1>2. t \in Seq(Word) /\ Len(t) \in Nat
  BY LenProperties DEF Words
<1> QED  BY <1>1, <1>2, ConcatProperties

LEMMA Singles ==
  /\ <<"(">> \in Words /\ <<")">> \in Words /\ <<"p">> \in Words
  /\ <<"point to">> \in Words /\ <<"readonly">> \in Words
  /\ <<"p", "is">> \in Words /\ <<>> \in Words
  /\ <<"(">> \in Seq(Before) /\ <<"*">> \in Seq(Before) /\ <<"const">> \in Seq(Before)
<1>1. /\ <<"(">> \in Words /\ <<")">> \in Words /\ <<"p">> \in Words
      /\ <<"point to">> \in Words /\ <<"readonly">> \in Words
      /\ <<"p", "is">> \in Words /\ <<>> \in Words
  BY DEF Words, Word
<1>2. <<"(">> \in Seq(Before) /\ <<"*">> \in Seq(Before) /\ <<"const">> \in Seq(Before)
  BY DEF Before, Qualifiers
<1> QED  BY <1>1, <1>2

LEMMA BeforeAreWords == Seq(Before) \subseteq Words
<1>1. Before \subseteq Word
  BY DEF Before, Word
<1> QED  BY <1>1, SeqMonotonic DEF Words

(* Behind a declarator that ends with a pointer stands nothing or a bracket. *)
LEMMA BehindPointer ==
  ASSUME NEW c \in Contexts, c.last = "pointer"
  PROVE  c.right = <<>> \/ c.right[1] = ")"
<1> DEFINE S == {x \in Context : x.last = "pointer" => x.right = <<>> \/ x.right[1] = ")"}
<1>1. \A x \in Context : Outermost(x) => x \in S
  BY DEF Outermost
<1>2. ASSUME NEW o \in S, NEW x \in Context, Around(o, x)
      PROVE  x \in S
  <2>1. CASE AroundPointer(o, x)
    BY <2>1 DEF AroundPointer
  <2>2. CASE AroundBracket(o, x)
    <3>1. x.right = <<")">> \o o.right /\ o.right \in Words
      BY <2>2 DEF AroundBracket, Context
    <3>2. x.right[1] = ")"
      BY <3>1, FirstWord DEF Word
    <3> QED  BY <3>2
  <2>3. CASE AroundSuffix(o, x)
    <3>1. x.last # "pointer"
      BY <2>3 DEF AroundSuffix
    <3> QED  BY <3>1
  <2> QED  BY <1>2, <2>1, <2>2, <2>3 DEF Around
<1>3. S \in SUBSET Context /\ Closed(S)
  BY <1>1, <1>2 DEF Closed
<1>4. c \in S
  <2> HIDE DEF S
  <2> QED  BY <1>3 DEF Contexts
<1> QED  BY <1>4

-----------------------------------------------------------------------------
(***************************************************************************)
(* Every declaration is the identifier in a context.                       *)
(***************************************************************************)
Inside(b, toks, says) ==
  /\ b.last = "name"
  /\ toks = b.left \o <<"p">> \o b.right
  /\ says = <<"p", "is">> \o b.rest

Fits(d) ==
  \A c \in Contexts :
    c.last = d.last =>
      \E b \in Contexts : Inside(b, c.left \o d.toks \o c.right, d.says \o c.rest)

LEMMA BracketsMove ==
  ASSUME NEW l \in Words, NEW r \in Words, NEW t \in Words
  PROVE  l \o Bracketed(t) \o r = (l \o <<"(">>) \o t \o (<<")">> \o r)
<1> DEFINE x == <<"(">>
           z == <<")">>
<1>1. x \in Words /\ z \in Words
  BY Singles
<1>2. Bracketed(t) = (x \o t) \o z
  BY DEF Bracketed
<1> SUFFICES (l \o ((x \o t) \o z)) \o r = ((l \o x) \o t) \o (z \o r)
  BY <1>2
<1> HIDE DEF x, z
<1>3. x \o t \in Words /\ l \o x \in Words /\ (l \o x) \o t \in Words
  BY <1>1, Concat
<1>4. l \o ((x \o t) \o z) = (l \o (x \o t)) \o z
  <2> DEFINE u == x \o t
  <2>1. u \in Words
    BY <1>3
  <2> HIDE DEF u
  <2>2. (l \o u) \o z = l \o (u \o z)
    BY <1>1, <2>1, Regroup, SMTT(30)
  <2> QED  BY <2>2 DEF u
<1>5. l \o (x \o t) = (l \o x) \o t
  BY <1>1, Concat
<1>6. (((l \o x) \o t) \o z) \o r = ((l \o x) \o t) \o (z \o r)
  <2> DEFINE w == (l \o x) \o t
  <2>1. w \in Words
    BY <1>3
  <2> HIDE DEF w
  <2>2. (w \o z) \o r = w \o (z \o r)
    BY <1>1, <2>1, Regroup
  <2> QED  BY <2>2 DEF w
<1> QED  BY <1>4, <1>5, <1>6

LEMMA NamedFits == Fits(Named) /\ Fits([Named EXCEPT !.toks = Bracketed(@)])
<1>1. Fits(Named)
  BY DEF Fits, Named, Inside
<1>2. ASSUME NEW c \in Contexts, c.last = "name"
      PROVE  \E b \in Contexts :
               Inside(b, c.left \o Bracketed(<<"p">>) \o c.right, <<"p", "is">> \o c.rest)
  <2> DEFINE b == [left |-> c.left \o <<"(">>, right |-> <<")">> \o c.right,
                   rest |-> c.rest, last |-> "name"]
  <2>1. c \in Context /\ c.left \in Seq(Before) /\ c.right \in Words /\ c.rest \in Words
    BY ContextsBuild DEF Context
  <2>2. c.left \o <<"(">> \in Seq(Before) /\ <<")">> \o c.right \in Words
    BY <2>1, Singles, ConcatProperties DEF Words
  <2>3. b \in Context
    BY <2>1, <2>2 DEF Context, Kinds
  <2>4. AroundBracket(c, b)
    BY <1>2 DEF AroundBracket
  <2>5. b \in Contexts
    BY <2>3, <2>4, ContextsBuild DEF Closed, Around
  <2>6. c.left \o Bracketed(<<"p">>) \o c.right
        = (c.left \o <<"(">>) \o <<"p">> \o (<<")">> \o c.right)
    <3>1. c.left \in Words /\ <<"p">> \in Words
      BY <2>1, Singles, BeforeAreWords
    <3> QED  BY <2>1, <3>1, BracketsMove, Zenon
  <2> QED  BY <2>5, <2>6 DEF Inside
<1>3. Fits([Named EXCEPT !.toks = Bracketed(@)])
  BY <1>2 DEF Fits, Named
<1> QED  BY <1>1, <1>3

LEMMA RegroupAll ==
  ASSUME NEW l \in Words, NEW x \in Words, NEW t \in Words, NEW r \in Words
  PROVE  (l \o x) \o t \o r = l \o (x \o t) \o r
BY Regroup, Zenon

LEMMA Pair ==
  ASSUME NEW x, NEW y
  PROVE  <<x, y>> = <<x>> \o <<y>>
<1> DEFINE S == {x, y}
<1>1. <<x>> \in Seq(S) /\ <<y>> \in Seq(S) /\ <<x, y>> \in Seq(S)
  OBVIOUS
<1>2. Len(<<x>>) = 1 /\ Len(<<y>>) = 1 /\ Len(<<x, y>>) = 2
      /\ <<x>>[1] = x /\ <<y>>[1] = y /\ <<x, y>>[1] = x /\ <<x, y>>[2] = y
  OBVIOUS
<1> DEFINE s == <<x>>
           t == <<y>>
           u == <<x, y>>
<1> HIDE DEF S, s, t, u
<1>3. /\ s \o t \in Seq(S) /\ Len(s \o t) = 2
      /\ (s \o t)[1] = x /\ (s \o t)[2] = y
  <2>1. /\ s \o t \in Seq(S)
        /\ Len(s \o t) = Len(s) + Len(t)
        /\ \A i \in 1 .. Len(s) + Len(t) :
             (s \o t)[i] = IF i <= Len(s) THEN s[i] ELSE t[i - Len(s)]
    BY <1>1, ConcatProperties DEF s, t
  <2>2. Len(s) = 1 /\ Len(t) = 1 /\ s[1] = x /\ t[1] = y
    BY <1>2 DEF s, t
  <2> QED  BY <2>1, <2>2
<1>4. u \in Seq(S) /\ Len(u) = 2 /\ u[1] = x /\ u[2] = y
  BY <1>1, <1>2 DEF u
<1>5. \A i \in 1 .. 2 : u[i] = (s \o t)[i]
  BY <1>3, <1>4
<1>6. u = s \o t
  BY <1>3, <1>4, <1>5, SeqEqual
<1> QED  BY <1>6 DEF s, t, u

LEMMA Pairs == /\ <<"*", "const">> = <<"*">> \o <<"const">>
               /\ <<"readonly", "point to">> = <<"readonly">> \o <<"point to">>
BY Pair, Zenon

LEMMA PointerForms ==
  \A p \in Pointers :
    /\ p.last = "pointer"
    /\ \/ p.toks = <<"*">> /\ p.says = <<"point to">>
       \/ p.toks = <<"*", "const">> /\ p.says = <<"readonly", "point to">>
<1> DEFINE a == [toks |-> <<"*">>, says |-> <<"point to">>, last |-> "pointer"]
           b == [toks |-> <<"*", "const">>, says |-> <<"readonly", "point to">>,
                 last |-> "pointer"]
<1>1. Pointers = {a, b}
  BY DEF Pointers
<1>2. /\ a.toks = <<"*">> /\ a.says = <<"point to">> /\ a.last = "pointer"
      /\ b.toks = <<"*", "const">> /\ b.says = <<"readonly", "point to">>
      /\ b.last = "pointer"
  OBVIOUS
<1> HIDE DEF a, b
<1>3. \A p \in Pointers : p = a \/ p = b
  BY <1>1
<1> QED  BY <1>2, <1>3, Zenon

LEMMA PointerContext ==
  ASSUME NEW c \in Contexts, c.last = "pointer", NEW k \in Kinds
  PROVE  /\ [left |-> c.left \o <<"*">>, right |-> c.right,
             rest |-> <<"point to">> \o c.rest, last |-> k] \in Contexts
         /\ [left |-> c.left \o <<"const">>, right |-> c.right,
             rest |-> <<"readonly">> \o c.rest, last |-> k] \in Contexts
<1>1. c \in Context /\ c.left \in Seq(Before) /\ c.right \in Words /\ c.rest \in Words
  BY ContextsBuild DEF Context
<1>2. c.left \o <<"*">> \in Seq(Before) /\ c.left \o <<"const">> \in Seq(Before)
  BY <1>1, Singles, ConcatProperties
<1>3. <<"point to">> \o c.rest \in Words /\ <<"readonly">> \o c.rest \in Words
  BY <1>1, Singles, Concat
<1> DEFINE x == [left |-> c.left \o <<"*">>, right |-> c.right,
                 rest |-> <<"point to">> \o c.rest, last |-> k]
           y == [left |-> c.left \o <<"const">>, right |-> c.right,
                 rest |-> <<"readonly">> \o c.rest, last |-> k]
<1>4. x \in Context /\ y \in Context
  BY <1>1, <1>2, <1>3 DEF Context
<1>5. AroundPointer(c, x) /\ AroundPointer(c, y)
  BY DEF AroundPointer
<1> HIDE DEF x, y
<1>6. x \in Contexts /\ y \in Contexts
  BY <1>4, <1>5, ContextsBuild DEF Closed, Around
<1> QED  BY <1>6 DEF x, y

LEMMA PointerFits ==
  ASSUME NEW d \in Declarator, Fits(d), NEW p \in Pointers
  PROVE  Fits([toks |-> p.toks \o d.toks, says |-> d.says \o p.says, last |-> p.last])
<1> SUFFICES ASSUME NEW c \in Contexts, c.last = "pointer"
             PROVE  \E b \in Contexts : Inside(b, c.left \o (p.toks \o d.toks) \o c.right,
                                               (d.says \o p.says) \o c.rest)
  <2>1. p.last = "pointer"
    BY PointerForms
  <2> QED  BY <2>1 DEF Fits
<1>1. /\ c.left \in Words /\ c.right \in Words /\ c.rest \in Words
      /\ d.toks \in Words /\ d.says \in Words /\ d.last \in Kinds
      /\ p.toks \in Words /\ p.says \in Words
  BY ContextsBuild, BeforeAreWords, OperatorTypes DEF Context, Declarator
<1>2. c.left \o (p.toks \o d.toks) \o c.right = (c.left \o p.toks) \o d.toks \o c.right
  <2> DEFINE l == c.left
             x == p.toks
             t == d.toks
             r == c.right
  <2>1. l \in Words /\ x \in Words /\ t \in Words /\ r \in Words
    BY <1>1
  <2> HIDE DEF l, x, t, r
  <2>2. (l \o x) \o t \o r = l \o (x \o t) \o r
    BY <2>1, RegroupAll
  <2> QED  BY <2>2 DEF l, x, t, r
<1>3. (d.says \o p.says) \o c.rest = d.says \o (p.says \o c.rest)
  <2> DEFINE a == d.says
             b == p.says
             w == c.rest
  <2>1. a \in Words /\ b \in Words /\ w \in Words
    BY <1>1
  <2> HIDE DEF a, b, w
  <2>2. (a \o b) \o w = a \o (b \o w)
    BY <2>1, Regroup
  <2> QED  BY <2>2 DEF a, b, w
<1> DEFINE x == [left |-> c.left \o p.toks, right |-> c.right,
                 rest |-> p.says \o c.rest, last |-> d.last]
<1>4. x \in Contexts
  <2>1. CASE p.toks = <<"*">> /\ p.says = <<"point to">>
    BY <1>1, <2>1, PointerContext
  <2>2. CASE p.toks = <<"*", "const">> /\ p.says = <<"readonly", "point to">>
    <3> DEFINE y == [left |-> c.left \o <<"*">>, right |-> c.right,
                     rest |-> <<"point to">> \o c.rest, last |-> "pointer"]
               z == [left |-> y.left \o <<"const">>, right |-> y.right,
                     rest |-> <<"readonly">> \o y.rest, last |-> d.last]
    <3>1. "pointer" \in Kinds
      BY DEF Kinds
    <3>2. y \in Contexts /\ y.last = "pointer"
      BY <3>1, PointerContext
    <3>3. z \in Contexts
      <4> HIDE DEF y
      <4> QED  BY <1>1, <3>2, PointerContext
    <3>4. y.left = c.left \o <<"*">> /\ y.right = c.right
          /\ y.rest = <<"point to">> \o c.rest
      OBVIOUS
    <3>5. y.left \o <<"const">> = c.left \o p.toks
      <4>1. <<"*">> \in Words /\ <<"const">> \in Words
        BY Singles, BeforeAreWords
      <4>2. (c.left \o <<"*">>) \o <<"const">> = c.left \o (<<"*">> \o <<"const">>)
        <5> DEFINE l == c.left
                   u == <<"*">>
                   v == <<"const">>
        <5>1. l \in Words /\ u \in Words /\ v \in Words
          BY <1>1, <4>1
        <5> HIDE DEF l, u, v
        <5>2. (l \o u) \o v = l \o (u \o v)
          BY <5>1, Regroup, Zenon
        <5> QED  BY <5>2, Zenon DEF l, u, v
      <4> HIDE DEF y
      <4> QED  BY <2>2, <3>4, <4>2, Pairs, Zenon
    <3>6. <<"readonly">> \o y.rest = p.says \o c.rest
      <4>1. (<<"readonly">> \o <<"point to">>) \o c.rest
            = <<"readonly">> \o (<<"point to">> \o c.rest)
        <5> DEFINE l == <<"readonly">>
                   u == <<"point to">>
                   v == c.rest
        <5>1. l \in Words /\ u \in Words /\ v \in Words
          BY <1>1, Singles
        <5> HIDE DEF l, u, v
        <5>2. (l \o u) \o v = l \o (u \o v)
          BY <5>1, Regroup, Zenon
        <5> QED  BY <5>2, Zenon DEF l, u, v
      <4> HIDE DEF y
      <4> QED  BY <2>2, <3>4, <4>1, Pairs, Zenon
    <3>7. z = x
      <4> HIDE DEF y
      <4> QED  BY <3>4, <3>5, <3>6
    <3> QED  BY <3>3, <3>7
  <2>3. \/ p.toks = <<"*">> /\ p.says = <<"point to">>
        \/ p.toks = <<"*", "const">> /\ p.says = <<"readonly", "point to">>
    BY PointerForms
  <2> QED  BY <2>1, <2>2, <2>3
<1>5. \E b \in Contexts : Inside(b, x.left \o d.toks \o x.right, d.says \o x.rest)
  <2>1. x.last = d.last
    OBVIOUS
  <2> HIDE DEF x
  <2> QED  BY <1>4, <2>1 DEF Fits
<1>6. x.left = c.left \o p.toks /\ x.right = c.right /\ x.rest = p.says \o c.rest
  OBVIOUS
<1> HIDE DEF x
<1> QED  BY <1>2, <1>3, <1>5, <1>6

LEMMA SuffixFits ==
  ASSUME NEW d \in Declarator, Fits(d), NEW s \in Operators, MayFollow(d, s)
  PROVE  Fits([toks |-> (IF d.last = "pointer" THEN Bracketed(d.toks) ELSE d.toks) \o s.toks,
               says |-> d.says \o s.says, last |-> s.last])
<1> DEFINE t == IF d.last = "pointer" THEN Bracketed(d.toks) ELSE d.toks
<1> SUFFICES ASSUME NEW c \in Contexts, c.last = s.last
             PROVE  \E b \in Contexts : Inside(b, c.left \o (t \o s.toks) \o c.right,
                                               (d.says \o s.says) \o c.rest)
  BY DEF Fits
<1>1. /\ c.left \in Words /\ c.right \in Words /\ c.rest \in Words
      /\ d.toks \in Words /\ d.says \in Words /\ d.last \in Kinds
      /\ s.toks \in Words /\ s.says \in Words /\ c.left \in Seq(Before)
  BY ContextsBuild, BeforeAreWords, OperatorTypes DEF Context, Declarator
<1>2. t \in Words
  BY <1>1, Singles, Concat DEF Bracketed
<1> DEFINE x(k) == [left |-> c.left, right |-> s.toks \o c.right,
                    rest |-> s.says \o c.rest, last |-> k]
<1>3. ASSUME NEW k \in Kinds, k = "name" \/ (k = "array" /\ s.last = "array")
      PROVE  x(k) \in Contexts
  <2>1. s.toks \o c.right \in Words /\ s.says \o c.rest \in Words
    BY <1>1, Concat
  <2>2. x(k) \in Context
    BY <1>1, <2>1 DEF Context
  <2>3. AroundSuffix(c, x(k))
    BY <1>3 DEF AroundSuffix
  <2> HIDE DEF x
  <2> QED  BY <2>2, <2>3, ContextsBuild DEF Closed, Around
<1>4. ASSUME NEW y \in Contexts, y.last = d.last,
             c.left \o t \o (s.toks \o c.right) = y.left \o d.toks \o y.right,
             y.rest = s.says \o c.rest
      PROVE  \E b \in Contexts : Inside(b, c.left \o (t \o s.toks) \o c.right,
                                        (d.says \o s.says) \o c.rest)
  <2> HIDE DEF t
  <2>1. c.left \o (t \o s.toks) \o c.right = c.left \o t \o (s.toks \o c.right)
    <3>1. c.left \o (t \o s.toks) = (c.left \o t) \o s.toks
      <4> DEFINE l == c.left
                 v == s.toks
      <4>1. l \in Words /\ v \in Words
        BY <1>1
      <4> HIDE DEF l, v
      <4>2. (l \o t) \o v = l \o (t \o v)
        BY <1>2, <4>1, Regroup, Zenon
      <4> QED  BY <4>2 DEF l, v
    <3> DEFINE l == c.left \o t
    <3>2. l \in Words
      BY <1>1, <1>2, Concat
    <3> HIDE DEF l
    <3>3. (l \o s.toks) \o c.right = l \o (s.toks \o c.right)
      BY <1>1, <3>2, Regroup, Zenon
    <3> QED  BY <3>1, <3>3 DEF l
  <2>2. (d.says \o s.says) \o c.rest = d.says \o (s.says \o c.rest)
    <3> DEFINE a == d.says
               b == s.says
               w == c.rest
    <3>1. a \in Words /\ b \in Words /\ w \in Words
      BY <1>1
    <3> HIDE DEF a, b, w
    <3>2. (a \o b) \o w = a \o (b \o w)
      BY <3>1, Regroup
    <3> QED  BY <3>2 DEF a, b, w
  <2>3. \E b \in Contexts : Inside(b, y.left \o d.toks \o y.right, d.says \o y.rest)
    BY <1>4 DEF Fits
  <2> QED  BY <1>4, <2>1, <2>2, <2>3
<1>5. CASE d.last # "pointer"
  <2>1. d.last = "name" \/ (d.last = "array" /\ s.last = "array")
    BY <1>1, <1>5 DEF MayFollow, Kinds
  <2>2. x(d.last) \in Contexts
    BY <1>1, <1>3, <2>1
  <2>3. t = d.toks
    BY <1>5
  <2>4. /\ x(d.last).last = d.last /\ x(d.last).left = c.left
        /\ x(d.last).right = s.toks \o c.right /\ x(d.last).rest = s.says \o c.rest
    OBVIOUS
  <2> HIDE DEF x
  <2> QED  BY <1>4, <2>2, <2>3, <2>4
<1>6. CASE d.last = "pointer"
  <2> DEFINE w == x("name")
             y == [left |-> c.left \o <<"(">>, right |-> <<")">> \o w.right,
                   rest |-> w.rest, last |-> "pointer"]
  <2>1. w \in Contexts
    <3>1. "name" \in Kinds
      BY DEF Kinds
    <3> QED  BY <1>3, <3>1
  <2>2. w.left = c.left /\ w.last = "name" /\ w.rest = s.says \o c.rest
        /\ w.right = s.toks \o c.right
    OBVIOUS
  <2> HIDE DEF w
  <2>3. w.right \in Words /\ w.rest \in Words
    BY <2>1, ContextsBuild DEF Context
  <2>4. c.left \o <<"(">> \in Seq(Before) /\ <<")">> \o w.right \in Words
    BY <1>1, <2>3, Singles, ConcatProperties DEF Words
  <2>5. y \in Context
    BY <2>3, <2>4 DEF Context, Kinds
  <2>6. AroundBracket(w, y)
    BY <2>2 DEF AroundBracket
  <2>7. y.left = c.left \o <<"(">> /\ y.right = <<")">> \o w.right
        /\ y.rest = w.rest /\ y.last = "pointer"
    OBVIOUS
  <2> HIDE DEF y
  <2>8. y \in Contexts
    BY <2>1, <2>5, <2>6, ContextsBuild DEF Closed, Around
  <2>9. c.left \o Bracketed(d.toks) \o w.right
        = (c.left \o <<"(">>) \o d.toks \o (<<")">> \o w.right)
    <3> DEFINE l == c.left
               v == d.toks
               r == w.right
    <3>1. l \in Words /\ v \in Words /\ r \in Words
      BY <1>1, <2>3
    <3> HIDE DEF l, v, r
    <3>2. l \o Bracketed(v) \o r = (l \o <<"(">>) \o v \o (<<")">> \o r)
      BY <3>1, BracketsMove, Zenon
    <3> QED  BY <3>2, Zenon DEF l, v, r
  <2> QED  BY <1>4, <1>6, <2>2, <2>7, <2>8, <2>9
<1> QED  BY <1>5, <1>6

LEMMA DeclaratorsFit ==
  ASSUME NEW n \in Nat, NEW d \in Declarators[n]
  PROVE  Fits(d)
<1> DEFINE Fails == {k \in Nat : \E e \in Declarators[k] : ~ Fits(e)}
<1> SUFFICES ASSUME Fails # {} PROVE FALSE
  OBVIOUS
<1>1. PICK m \in Fails : \A k \in Fails : m <= k
  <2>1. Fails \subseteq Nat
    OBVIOUS
  <2> HIDE DEF Fails
  <2> QED  BY <2>1, NatLeast
<1>2. PICK e \in Declarators[m] : ~ Fits(e)
  BY <1>1
<1>3. m # 0
  BY <1>2, DeclaratorsUnfold, NamedFits
<1>4. m \in Nat /\ m - 1 \in Nat /\ m - 1 \notin Fails
  BY <1>1, <1>3
<1>5. \A f \in Declarators[m - 1] : Fits(f) /\ f \in Declarator
  BY <1>4, DeclaratorsUnfold
<1>6. PICK f \in Declarators[m - 1] : e \in Extended(f)
  BY <1>2, <1>3, <1>4, <1>5, DeclaratorsUnfold
<1>7. f \in Declarator /\ Fits(f)
  BY <1>5
<1>8. \/ \E p \in Pointers :
           e = [toks |-> p.toks \o f.toks, says |-> f.says \o p.says, last |-> p.last]
      \/ \E s \in Operators :
           /\ MayFollow(f, s)
           /\ e = [toks |-> (IF f.last = "pointer" THEN Bracketed(f.toks) ELSE f.toks)
                            \o s.toks,
                   says |-> f.says \o s.says, last |-> s.last]
  BY <1>6 DEF Extended
<1>9. Fits(e)
  BY <1>7, <1>8, PointerFits, SuffixFits
<1> QED  BY <1>2, <1>9

LEMMA SaidWords ==
  ASSUME NEW s \in Seq(Qualifiers \cup Types)
  PROVE  /\ Said(s) \in Words /\ Len(s) \in Nat /\ Len(Said(s)) = Len(s)
         /\ \A i \in 1 .. Len(s) : Said(s)[i] = Renamed(s[Len(s) - i + 1])
<1> DEFINE r == [i \in DOMAIN s |-> Renamed(s[i])]
<1>1. Len(s) \in Nat /\ DOMAIN s = 1 .. Len(s)
      /\ \A i \in 1 .. Len(s) : s[i] \in Qualifiers \cup Types
  BY LenProperties, ElementOfSeq
<1>2. \A w \in Qualifiers \cup Types : Renamed(w) \in Word
  BY DEF Renamed, Word
<1>3. r \in [1 .. Len(s) -> Word]
  BY <1>1, <1>2
<1>4. r \in Seq(Word) /\ Len(r) = Len(s)
  BY <1>1, <1>3
<1>5. \A i \in 1 .. Len(s) : r[i] = Renamed(s[i])
  BY <1>1
<1> HIDE DEF r
<1>6. Said(s) = [i \in 1 .. Len(s) |-> r[(Len(s) - i) + 1]]
  BY <1>4 DEF Said, Reverse, r
<1>7. \A i \in 1 .. Len(s) : Len(s) - i + 1 \in 1 .. Len(s)
  BY <1>1
<1>8. Said(s) \in [1 .. Len(s) -> Word]
  BY <1>3, <1>6, <1>7
<1>9. Said(s) \in Seq(Word) /\ Len(Said(s)) = Len(s)
  BY <1>1, <1>8
<1> QED  BY <1>1, <1>5, <1>6, <1>7, <1>9 DEF Words

LEMMA DeclarationsFit ==
  ASSUME NEW D \in Declarations
  PROVE  D.toks \in Words /\ D.says \in Words
         /\ \E b \in Contexts : Inside(b, D.toks, D.says)
<1>1. PICK s \in Specifiers, d \in Declarators[Depth] :
        D.toks = s \o d.toks /\ D.says = Reading(s, d)
  BY DEF Declarations
<1>2. s \in Seq(Qualifiers \cup Types)
  BY SpecifierAssumption
<1>3. d \in Declarator /\ Fits(d)
  BY DepthAssumption, DeclaratorsUnfold, DeclaratorsFit
<1>4. d.toks \in Words /\ d.says \in Words /\ d.last \in Kinds
  BY <1>3 DEF Declarator
<1>5. s \in Seq(Before) /\ s \in Words
  <2>1. Qualifiers \cup Types \subseteq Before
    BY DEF Before
  <2>2. s \in Seq(Before)
    BY <1>2, <2>1, SeqMonotonic
  <2> QED  BY <2>2, BeforeAreWords
<1>6. D.says = d.says \o Said(s)
  BY <1>1 DEF Reading, Said, Renamed
<1>7. Said(s) \in Words
  BY <1>2, SaidWords
<1> DEFINE c == [left |-> s, right |-> <<>>, rest |-> Said(s), last |-> d.last]
<1>8. c \in Contexts
  <2>1. c \in Context
    BY <1>4, <1>5, <1>7, Singles DEF Context
  <2>2. Outermost(c)
    BY <1>2 DEF Outermost
  <2> HIDE DEF c
  <2> QED  BY <2>1, <2>2, ContextsBuild DEF Closed
<1>9. c.left = s /\ c.right = <<>> /\ c.rest = Said(s) /\ c.last = d.last
  OBVIOUS
<1> HIDE DEF c
<1>10. s \o d.toks \in Words /\ (s \o d.toks) \o <<>> = s \o d.toks
  <2>1. s \o d.toks \in Words
    BY <1>4, <1>5, Concat
  <2> QED  BY <2>1, ConcatEmptySeq DEF Words
<1>11. \E b \in Contexts : Inside(b, D.toks, D.says)
  BY <1>1, <1>3, <1>6, <1>8, <1>9, <1>10 DEF Fits
<1>12. D.toks \in Words /\ D.says \in Words
  BY <1>1, <1>4, <1>6, <1>7, <1>10, Concat
<1> QED  BY <1>11, <1>12

-----------------------------------------------------------------------------
(***************************************************************************)
(* The machine.  Ahead(t): t is what was not read yet, with the token read *)
(* last in front.                                                          *)
(***************************************************************************)
Ahead(t) ==
  /\ t \in Words /\ read \in Nat
  /\ IF t = <<>>
     THEN read = Len(decl.toks) /\ this = "EOF"
     ELSE /\ read + Len(t) = Len(decl.toks) + 1
          /\ this = t[1]
          /\ \A i \in 1 .. Len(t) - 1 : decl.toks[read + i] = t[i + 1]

LEMMA ReadOn ==
  ASSUME NEW u \in Words, NEW t \in Words, NEW n \in Nat \ {0}, Len(u) = n,
         Ahead(u \o t), decl.toks \in Words, UNCHANGED decl, Read(n)
  PROVE  Ahead(t)'
<1> DEFINE N == Len(decl.toks)
           w == u \o t
<1>1. Len(t) \in Nat /\ N \in Nat /\ read \in Nat /\ (t # <<>> => Len(t) # 0)
  BY LenProperties, EmptySeq DEF Words, Ahead
<1>2. /\ Len(w) = n + Len(t)
      /\ \A i \in 1 .. n + Len(t) : w[i] = IF i <= n THEN u[i] ELSE t[i - n]
  BY ConcatProperties DEF Words
<1>3. w # <<>>
  BY <1>1, <1>2
<1>4. /\ read + (n + Len(t)) = N + 1
      /\ \A i \in 1 .. n + Len(t) - 1 : decl.toks[read + i] = w[i + 1]
  <2>1. Ahead(w)
    OBVIOUS
  <2>2. Len(w) = n + Len(t)
    BY <1>2
  <2> HIDE DEF w
  <2>3. /\ read + Len(w) = N + 1
        /\ \A i \in 1 .. Len(w) - 1 : decl.toks[read + i] = w[i + 1]
    BY <1>3, <2>1 DEF Ahead
  <2> QED  BY <2>2, <2>3
<1> HIDE DEF w
<1>5. read' = (IF read + n > N THEN N ELSE read + n)
      /\ this' = (IF read + n - 1 < N THEN decl.toks[read + n] ELSE "EOF")
  BY <1>1 DEF Read, Token
<1>6. CASE t = <<>>
  <2>1. Len(t) = 0
    BY <1>6
  <2>2. read + n = N + 1
    BY <1>1, <1>4, <2>1
  <2>3. read' = N /\ this' = "EOF"
    BY <1>1, <1>5, <2>2
  <2> QED  BY <1>1, <1>6, <2>3 DEF Ahead
<1>7. CASE t # <<>>
  <2>1. Len(t) \in Nat \ {0}
    BY <1>1, <1>7
  <2>2. read + n <= N /\ read + n - 1 < N
    BY <1>1, <1>4, <2>1
  <2>3. read' = read + n /\ this' = decl.toks[read + n]
    BY <1>1, <1>5, <2>2
  <2>4. read' + Len(t) = N + 1
    BY <1>1, <1>4, <2>3
  <2>5. ASSUME NEW j \in n .. n + Len(t) - 1
        PROVE  decl.toks[read + j] = t[j - n + 1]
    <3>1. j \in 1 .. n + Len(t) - 1 /\ j + 1 \in 1 .. n + Len(t)
          /\ ~ (j + 1 <= n) /\ j + 1 - n = j - n + 1
      BY <1>1
    <3>2. decl.toks[read + j] = w[j + 1]
      BY <1>4, <3>1
    <3>3. w[j + 1] = t[j + 1 - n]
      BY <1>2, <3>1
    <3> QED  BY <3>1, <3>2, <3>3
  <2>6. this' = t[1]
    <3>1. n \in n .. n + Len(t) - 1 /\ n - n + 1 = 1
      BY <2>1
    <3> QED  BY <2>3, <2>5, <3>1
  <2>7. ASSUME NEW i \in 1 .. Len(t) - 1
        PROVE  decl.toks[read' + i] = t[i + 1]
    <3>1. n + i \in n .. n + Len(t) - 1 /\ n + i - n + 1 = i + 1
          /\ read' + i = read + (n + i)
      BY <1>1, <2>1, <2>3
    <3>2. decl.toks[read + (n + i)] = t[n + i - n + 1]
      BY <2>5, <3>1
    <3> QED  BY <3>1, <3>2
  <2>8. read' \in Nat
    BY <1>1, <2>3
  <2> QED  BY <1>7, <2>4, <2>6, <2>7, <2>8 DEF Ahead
<1> QED  BY <1>6, <1>7

LEMMA ReadOne ==
  ASSUME NEW u \in Words, Len(u) = 1, NEW t \in Words,
         Ahead(u \o t), decl.toks \in Words, UNCHANGED decl, Read(1)
  PROVE  Ahead(t)'
<1>1. 1 \in Nat \ {0}
  OBVIOUS
<1> QED  BY <1>1, ReadOn, Zenon

LEMMA AtFirst ==
  ASSUME NEW t, Ahead(t)
  PROVE  this = IF t = <<>> THEN "EOF" ELSE t[1]
BY DEF Ahead

LEMMA AtSecond ==
  ASSUME NEW t, Ahead(t), Len(t) >= 2, decl.toks \in Words
  PROVE  Token(read) = t[2]
<1>1. Len(t) \in Nat /\ read \in Nat /\ Len(decl.toks) \in Nat
  BY LenProperties DEF Words, Ahead
<1>2. t # <<>>
  BY <1>1
<1>3. /\ read + Len(t) = Len(decl.toks) + 1
      /\ \A i \in 1 .. Len(t) - 1 : decl.toks[read + i] = t[i + 1]
  BY <1>2 DEF Ahead
<1>4. 1 \in 1 .. Len(t) - 1 /\ read < Len(decl.toks) /\ 1 + 1 = 2
  BY <1>1, <1>3
<1>5. decl.toks[read + 1] = t[2]
  BY <1>3, <1>4
<1> QED  BY <1>4, <1>5 DEF Token

LEMMA AtStays ==
  ASSUME NEW t, Ahead(t), UNCHANGED <<decl, read, this>>
  PROVE  Ahead(t)'
BY DEF Ahead

LEMMA OnTop ==
  ASSUME NEW S, NEW s \in Seq(S), NEW x \in S, NEW w, w = s \o <<x>>
  PROVE  Last(w) = x /\ Front(w) = s /\ w # <<>>
<1>1. Len(s) \in Nat /\ <<x>> \in Seq(S) /\ Len(<<x>>) = 1 /\ <<x>>[1] = x
  BY LenProperties
<1> DEFINE y == <<x>>
<1> HIDE DEF y
<1>2. y \in Seq(S) /\ Len(y) = 1 /\ y[1] = x
  BY <1>1 DEF y
<1>3. /\ s \o y \in Seq(S) /\ Len(s \o y) = Len(s) + 1
      /\ \A i \in 1 .. Len(s) + 1 : (s \o y)[i] = IF i <= Len(s) THEN s[i] ELSE y[i - Len(s)]
  BY <1>2, ConcatProperties
<1> DEFINE v == s \o y
<1>4. v \in Seq(S) /\ Len(v) = Len(s) + 1 /\ v[Len(s) + 1] = x
      /\ \A i \in 1 .. Len(s) : v[i] = s[i]
  BY <1>1, <1>2, <1>3
<1> HIDE DEF v
<1>5. Last(v) = x /\ v # <<>>
  BY <1>1, <1>4 DEF Last
<1>6. /\ Front(v) \in Seq(S) /\ Len(Front(v)) = Len(s)
      /\ \A i \in 1 .. Len(s) : Front(v)[i] = v[i]
  <2>1. \A i \in 1 .. Len(s) : v[i] \in S
    BY <1>1, <1>4, ElementOfSeq
  <2>2. Front(v) = SubSeq(v, 1, Len(s))
    BY <1>1, <1>4 DEF Front
  <2>3. /\ SubSeq(v, 1, Len(s)) \in Seq(S)
        /\ Len(SubSeq(v, 1, Len(s))) = IF 1 <= Len(s) THEN Len(s) - 1 + 1 ELSE 0
        /\ \A i \in 1 .. Len(s) - 1 + 1 : SubSeq(v, 1, Len(s))[i] = v[1 + i - 1]
    BY <1>1, <2>1, SubSeqProperties
  <2> QED  BY <1>1, <2>2, <2>3
<1>7. Front(v) = s
  BY <1>4, <1>6, SeqEqual
<1>8. w = v
  BY DEF v, y
<1> QED  BY <1>5, <1>7, <1>8

LEMMA OperatorForms ==
  \A s \in Operators :
    \/ /\ s.last = "array" /\ s.says = <<"array", "of">> /\ s.toks = <<"[", "]">>
    \/ /\ s.last = "array" /\ s.says = <<"array", "0..2", "of">>
       /\ s.toks = <<"[", "3", "]">>
    \/ /\ s.last = "function" /\ s.says = <<"function returning">>
       /\ s.toks = <<"(", ")">>
    \/ /\ s.last = "function" /\ s.says = <<"function returning">>
       /\ s.toks = <<"(", "char", "q", ")">>
<1> DEFINE a == [toks |-> <<"[", "]">>, says |-> <<"array", "of">>, last |-> "array"]
           b == [toks |-> <<"[", "3", "]">>, says |-> <<"array", "0..2", "of">>,
                 last |-> "array"]
           c == [toks |-> <<"(", ")">>, says |-> <<"function returning">>,
                 last |-> "function"]
           d == [toks |-> <<"(", "char", "q", ")">>, says |-> <<"function returning">>,
                 last |-> "function"]
<1>1. Operators = {a, b, c, d}
  BY DEF Operators
<1>2. /\ a.last = "array" /\ a.says = <<"array", "of">> /\ a.toks = <<"[", "]">>
      /\ b.last = "array" /\ b.says = <<"array", "0..2", "of">>
      /\ b.toks = <<"[", "3", "]">>
  OBVIOUS
<1>3. /\ c.last = "function" /\ c.says = <<"function returning">>
      /\ c.toks = <<"(", ")">>
      /\ d.last = "function" /\ d.says = <<"function returning">>
      /\ d.toks = <<"(", "char", "q", ")">>
  OBVIOUS
<1> HIDE DEF a, b, c, d
<1>4. \A s \in Operators : s = a \/ s = b \/ s = c \/ s = d
  BY <1>1
<1> QED  BY <1>2, <1>3, <1>4, Zenon

LEMMA SuffixStarts ==
  ASSUME NEW s \in Operators, NEW t \in Words
  PROVE  /\ s.toks \o t # <<>>
         /\ (s.toks \o t)[1] = s.toks[1] /\ (s.toks \o t)[2] = s.toks[2]
         /\ Len(s.toks \o t) >= 2
         /\ s.toks[1] = IF s.last = "array" THEN "[" ELSE "("
<1>1. s.toks \in Words /\ Len(s.toks) \in 2 .. 4
      /\ s.toks[1] = IF s.last = "array" THEN "[" ELSE "("
  <2>1. s.toks \in Words
    BY OperatorTypes DEF Declarator
  <2>2. CASE s.last = "array" /\ s.toks = <<"[", "]">>
    BY <2>1, <2>2
  <2>3. CASE s.last = "array" /\ s.toks = <<"[", "3", "]">>
    BY <2>1, <2>3
  <2>4. CASE s.last = "function" /\ s.toks = <<"(", ")">>
    BY <2>1, <2>4
  <2>5. CASE s.last = "function" /\ s.toks = <<"(", "char", "q", ")">>
    BY <2>1, <2>5
  <2> QED  BY <2>2, <2>3, <2>4, <2>5, OperatorForms, Zenon
<1>2. Len(t) \in Nat
  BY LenProperties DEF Words
<1> DEFINE u == s.toks
<1>3. u \in Words /\ Len(u) \in 2 .. 4
  BY <1>1
<1> HIDE DEF u
<1>4. /\ u \o t \in Words /\ Len(u \o t) = Len(u) + Len(t)
      /\ \A i \in 1 .. Len(u) + Len(t) :
           (u \o t)[i] = IF i <= Len(u) THEN u[i] ELSE t[i - Len(u)]
  BY <1>3, ConcatProperties DEF Words
<1>5. Len(u \o t) >= 2 /\ (u \o t)[1] = u[1] /\ (u \o t)[2] = u[2]
  BY <1>2, <1>3, <1>4
<1>6. u \o t # <<>>
  BY <1>4, <1>5, EmptySeq
<1> QED  BY <1>1, <1>5, <1>6 DEF u

(* A suffix follows if the token read last begins one.                     *)
LEMMA SuffixFollows ==
  ASSUME NEW c \in Contexts, Ahead(c.right), this = "[" \/ this = "("
  PROVE  \E o \in Contexts : AroundSuffix(o, c)
<1>1. CASE Outermost(c)
  BY <1>1, AtFirst DEF Outermost
<1>2. ASSUME NEW o \in Contexts, AroundPointer(o, c)
      PROVE  FALSE
  <2>1. c.right = <<>> \/ c.right[1] = ")"
    BY <1>2, BehindPointer DEF AroundPointer
  <2> QED  BY <2>1, AtFirst
<1>3. ASSUME NEW o \in Contexts, AroundBracket(o, c)
      PROVE  FALSE
  <2>1. o.right \in Words /\ c.right = <<")">> \o o.right
    BY <1>3, ContextsBuild DEF Context, AroundBracket
  <2>2. c.right[1] = ")" /\ Len(c.right) = Len(o.right) + 1 /\ Len(o.right) \in Nat
    <3>1. ")" \in Word
      BY DEF Word
    <3> QED  BY <2>1, <3>1, FirstWord
  <2>3. c.right # <<>>
    BY <2>2, EmptySeq
  <2> QED  BY <2>2, <2>3, AtFirst
<1> QED  BY <1>1, <1>2, <1>3, ContextsInvert DEF Around

-----------------------------------------------------------------------------
(***************************************************************************)
(* The invariant.  What was read and printed is a declarator; what is on   *)
(* the stack, unread and unsaid is a context of it.                        *)
(***************************************************************************)
Remains(c) ==
  /\ stack = c.left
  /\ Ahead(c.right)
  /\ printed \in Words /\ printed \o c.rest = decl.says

\* No suffix of the declarator follows.
NoSuffix(c) == /\ c.last \in {"name", "array"} => this # "["
               /\ c.last = "name" => this # "("

List == {<<")">>, <<"q", ")">>, <<"char", "q", ")">>}

InInitialize ==
  /\ nextstate = "initialize" /\ printed = <<>>
  /\ \E b \in Contexts : /\ Inside(b, decl.toks, decl.says)
                         /\ read \in 0 .. Len(b.left)
                         /\ stack = SubSeq(b.left, 1, read)

InGetArray ==
  /\ nextstate = "get_array"
  /\ \E c \in Contexts : c.last = "name" /\ Remains(c)

InMore ==
  /\ nextstate = "more"
  /\ \E c \in Contexts : c.last = "array" /\ Remains(c)

InGetParms ==
  /\ nextstate = "get_parms"
  /\ \E c \in Contexts : c.last = "name" /\ Remains(c) /\ this # "["

InList ==
  /\ nextstate = "list"
  /\ \E c \in Contexts, l \in List :
       /\ c.last = "function"
       /\ stack = c.left /\ Ahead(l \o c.right)
       /\ printed \in Words
       /\ printed \o (<<"function returning">> \o c.rest) = decl.says

InGetLparen ==
  /\ nextstate = "get_lparen"
  /\ \E c \in Contexts : Remains(c) /\ NoSuffix(c)

InGetPtrPart ==
  /\ nextstate = "get_ptr_part"
  /\ \E c \in Contexts : Remains(c) /\ NoSuffix(c)
  /\ stack # <<>> => Last(stack) # "("

InGetType ==
  /\ nextstate = "get_type"
  /\ stack \in Seq(Qualifiers \cup Types)
  /\ printed \o Said(stack) = decl.says

ReaderState ==
  \/ InInitialize \/ InGetArray \/ InMore \/ InGetParms \/ InList
  \/ InGetLparen \/ InGetPtrPart \/ InGetType
  \/ nextstate = "NULL" /\ printed = decl.says
  \/ nextstate = "undefined"

ReaderInv == decl.kind = "typed" => decl \in Declarations /\ ReaderState

LEMMA ReaderStarts == DeclInit => ReaderInv
<1> SUFFICES ASSUME DeclInit, decl.kind = "typed" PROVE ReaderInv
  BY DEF ReaderInv
<1>1. decl \notin Truncated
  <2>1. \A x \in Truncated : x.kind = "cut"
    BY DEF Truncated
  <2> QED  BY <2>1
<1>2. decl \in Declarations
  BY <1>1 DEF DeclInit
<1>3. PICK b \in Contexts : Inside(b, decl.toks, decl.says)
  BY <1>2, DeclarationsFit
<1>4. b.left \in Seq(Before)
  BY ContextsBuild DEF Context
<1>5. Len(b.left) \in Nat
  BY <1>4, LenProperties
<1>6. SubSeq(b.left, 1, 0) = <<>>
  BY SubSeqEmpty
<1>7. read \in 0 .. Len(b.left) /\ stack = SubSeq(b.left, 1, read)
  BY <1>5, <1>6 DEF DeclInit
<1>8. InInitialize
  BY <1>3, <1>7 DEF InInitialize, DeclInit
<1> QED  BY <1>2, <1>8 DEF ReaderInv, ReaderState

\* all reads l, then e, then r
IsJoined(all, l, e, r) ==
  /\ all \in Words /\ Len(all) = Len(l) + 1 + Len(r)
  /\ \A i \in 1 .. Len(l) : all[i] = l[i]
  /\ all[Len(l) + 1] = e
  /\ \A i \in 1 .. Len(r) : all[Len(l) + 1 + i] = r[i]

LEMMA ThreeParts ==
  ASSUME NEW l \in Words, NEW r \in Words, NEW e \in Word
  PROVE  IsJoined(l \o <<e>> \o r, l, e, r)
<1> DEFINE x == <<e>>
<1>1. x \in Seq(Word) /\ Len(x) = 1 /\ x[1] = e
  OBVIOUS
<1>2. l \in Seq(Word) /\ r \in Seq(Word) /\ Len(l) \in Nat /\ Len(r) \in Nat
  BY LenProperties DEF Words
<1> HIDE DEF x
<1> DEFINE v == l \o x
<1>3. v \in Seq(Word) /\ Len(v) = Len(l) + 1 /\ v[Len(l) + 1] = e
      /\ \A i \in 1 .. Len(l) : v[i] = l[i]
  <2>1. /\ l \o x \in Seq(Word) /\ Len(l \o x) = Len(l) + Len(x)
        /\ \A i \in 1 .. Len(l) + Len(x) :
             (l \o x)[i] = IF i <= Len(l) THEN l[i] ELSE x[i - Len(l)]
    BY <1>1, <1>2, ConcatProperties
  <2> QED  BY <1>1, <1>2, <2>1
<1> HIDE DEF v
<1>4. /\ v \o r \in Seq(Word) /\ Len(v \o r) = Len(v) + Len(r)
      /\ \A i \in 1 .. Len(v) + Len(r) :
           (v \o r)[i] = IF i <= Len(v) THEN v[i] ELSE r[i - Len(v)]
  BY <1>2, <1>3, ConcatProperties
<1> DEFINE w == v \o r
<1>5. /\ w \in Seq(Word) /\ Len(w) = Len(l) + 1 + Len(r)
      /\ \A i \in 1 .. Len(l) + 1 + Len(r) :
           w[i] = IF i <= Len(l) + 1 THEN v[i] ELSE r[i - (Len(l) + 1)]
  BY <1>3, <1>4
<1> HIDE DEF w
<1>6. \A i \in 1 .. Len(l) : w[i] = l[i]
  BY <1>2, <1>3, <1>5
<1>7. w[Len(l) + 1] = e
  BY <1>2, <1>3, <1>5
<1>8. \A i \in 1 .. Len(r) : w[Len(l) + 1 + i] = r[i]
  <2> TAKE i \in 1 .. Len(r)
  <2>1. /\ Len(l) + 1 + i \in 1 .. Len(l) + 1 + Len(r)
        /\ ~ (Len(l) + 1 + i <= Len(l) + 1)
        /\ Len(l) + 1 + i - (Len(l) + 1) = i
    BY <1>2
  <2> QED  BY <1>5, <2>1
<1>9. l \o <<e>> \o r = w
  BY DEF w, v, x
<1>10. w \in Words
  BY <1>5 DEF Words
<1>11. IsJoined(w, l, e, r)
  BY <1>5, <1>6, <1>7, <1>8, <1>10 DEF IsJoined
<1> QED  BY <1>9, <1>11

LEMMA InitializeKeeps ==
  ASSUME decl \in Declarations, ReaderState, Initialize
  PROVE  ReaderState'
<1>1. nextstate = "initialize" /\ UNCHANGED decl
  BY DEF Initialize
<1>2. printed = <<>>
  BY <1>1 DEF ReaderState, InInitialize, InGetArray, InMore, InGetParms, InList,
              InGetLparen, InGetPtrPart, InGetType
<1>3. PICK b \in Contexts : /\ Inside(b, decl.toks, decl.says)
                            /\ read \in 0 .. Len(b.left)
                            /\ stack = SubSeq(b.left, 1, read)
  BY <1>1 DEF ReaderState, InInitialize, InGetArray, InMore, InGetParms, InList,
              InGetLparen, InGetPtrPart, InGetType
<1>4. /\ b.left \in Seq(Before) /\ b.left \in Words /\ b.right \in Words
      /\ b.rest \in Words /\ Len(b.left) \in Nat /\ Len(b.right) \in Nat
  BY ContextsBuild, BeforeAreWords, LenProperties DEF Context, Words
<1>5. /\ b.last = "name"
      /\ decl.toks = b.left \o <<"p">> \o b.right
      /\ decl.says = <<"p", "is">> \o b.rest
  BY <1>3 DEF Inside
<1> DEFINE l == b.left
           r == b.right
           n == Len(l)
           N == Len(decl.toks)
<1>6. l = b.left /\ r = b.right
  OBVIOUS
<1>7. /\ l \in Seq(Before) /\ l \in Words /\ r \in Words
      /\ Len(l) \in Nat /\ Len(r) \in Nat /\ read \in 0 .. Len(l)
  BY <1>3, <1>4
<1>8. decl.toks = l \o <<"p">> \o r /\ stack = SubSeq(l, 1, read)
  BY <1>3, <1>5
<1> HIDE DEF l, r
<1>9. /\ decl.toks \in Words /\ N = n + 1 + Len(r)
      /\ \A i \in 1 .. n : decl.toks[i] = l[i]
      /\ decl.toks[n + 1] = "p"
      /\ \A i \in 1 .. Len(r) : decl.toks[n + 1 + i] = r[i]
  <2>1. "p" \in Word
    BY DEF Word
  <2>2. decl.toks = l \o <<"p">> \o r
    BY <1>8
  <2>3. IsJoined(l \o <<"p">> \o r, l, "p", r)
    BY <1>7, <2>1, ThreeParts
  <2>4. IsJoined(decl.toks, l, "p", r)
    BY <2>2, <2>3
  <2> QED  BY <2>4 DEF IsJoined
<1> HIDE DEF n, N
<1>10. n = Len(l) /\ n \in Nat /\ N \in Nat
  BY <1>7, <1>9, LenProperties DEF n, N, Words
<1>11. CASE read < n
  <2>1. Token(read) = l[read + 1] /\ read + 1 \in 1 .. n /\ read \in Nat
    <3>1. read \in Nat /\ read + 1 \in 1 .. n /\ read < N
      <4>1. read \in Nat /\ read < n /\ n < N
        BY <1>7, <1>9, <1>10, <1>11
      <4> QED  BY <1>10, <4>1
    <3>2. Token(read) = decl.toks[read + 1]
      BY <3>1 DEF Token, N
    <3>3. decl.toks[read + 1] = l[read + 1]
      BY <1>9, <3>1
    <3> QED  BY <3>1, <3>2, <3>3
  <2>2. Token(read) \in Before
    BY <1>7, <1>10, <2>1, ElementOfSeq
  <2>3. TypeOf(Token(read)) # "IDENTIFIER"
    BY <2>2 DEF TypeOf, Before, Qualifiers, Types
  <2>4. Read(1) /\ stack' = Append(stack, this') /\ UNCHANGED printed
        /\ IF Len(stack) = MAXTOKENS THEN Goto("undefined") ELSE UNCHANGED nextstate
    BY <1>1, <2>3 DEF Initialize
  <2>5. CASE Len(stack) = MAXTOKENS
    BY <2>4, <2>5 DEF Goto, ReaderState
  <2>6. CASE Len(stack) # MAXTOKENS
    <3>1. read' = read + 1 /\ this' = l[read + 1]
      <4>1. read + 1 <= N /\ read + 1 - 1 = read
        BY <1>7, <1>9, <1>10, <1>11, <2>1
      <4> QED  BY <2>1, <2>4, <4>1 DEF Read, N
    <3>2. SubSeq(l, 1, read + 1) = SubSeq(l, 1, read) \o <<l[read + 1]>>
      <4>1. 1 \in 1 .. Len(l) /\ read + 1 \in 1 .. Len(l) /\ read + 1 - 1 = read
        BY <1>10, <2>1
      <4>2. SubSeq(l, 1, read + 1)
            = SubSeq(l, 1, read + 1 - 1) \o <<l[read + 1]>>
        BY <1>7, <4>1, SubSeqRecursiveSecond
      <4> QED  BY <4>1, <4>2
    <3>3. stack \in Seq(Before)
      <4>1. \A i \in 1 .. read : l[i] \in Before
        BY <1>7, <1>10, <2>1, ElementOfSeq
      <4> QED  BY <1>7, <1>8, <2>1, <4>1, SubSeqProperties
    <3>4. Append(stack, this') = stack \o <<this'>>
      BY <2>2, <2>1, <3>1, <3>3, AppendIsConcat
    <3>5. stack' = SubSeq(l, 1, read')
      BY <1>8, <2>4, <2>6, <3>1, <3>2, <3>4
    <3>6. read' \in 0 .. Len(l)
      BY <1>10, <2>1, <3>1
    <3>7. InInitialize'
      <4>1. nextstate' = "initialize" /\ printed' = <<>>
        BY <1>1, <1>2, <2>4, <2>6
      <4>2. Inside(b, decl.toks, decl.says)'
        BY <1>1, <1>3 DEF Inside
      <4> QED  BY <1>6, <3>5, <3>6, <4>1, <4>2 DEF InInitialize
    <3> QED  BY <3>7 DEF ReaderState
  <2> QED  BY <2>5, <2>6
<1>12. CASE read = n
  <2>1. Token(read) = "p"
    BY <1>7, <1>9, <1>10, <1>12 DEF Token, N
  <2>2. TypeOf(Token(read)) = "IDENTIFIER"
    BY <2>1 DEF TypeOf
  <2>3. Say(<<"p", "is">>) /\ Read(2) /\ Goto("get_array") /\ UNCHANGED stack
    BY <1>1, <2>1, <2>2 DEF Initialize
  <2>4. stack' = l
    BY <1>7, <1>8, <1>10, <1>12, <2>3, SubSeqFull
  <2>5. printed' = <<"p", "is">>
    BY <1>2, <2>3, Singles, ConcatEmptySeq DEF Say, Words
  <2>6. Ahead(r)'
    <3>1. read' = (IF read + 2 > N THEN N ELSE read + 2)
          /\ this' = (IF read + 1 < N THEN decl.toks[read + 2] ELSE "EOF")
      <4>1. read + 2 - 1 = read + 1 /\ read + 1 + 1 = read + 2
        BY <1>10, <1>12
      <4> QED  BY <2>3, <4>1 DEF Read, Token, N
    <3>2. CASE r = <<>>
      <4>1. Len(r) = 0
        BY <3>2
      <4>2. read + 2 > N /\ ~ (read + 1 < N)
        BY <1>9, <1>10, <1>12, <4>1
      <4> QED  BY <1>1, <1>7, <1>10, <3>1, <3>2, <4>2 DEF Ahead, N
    <3>3. CASE r # <<>>
      <4>1. Len(r) # 0
        BY <1>7, <3>3, EmptySeq DEF Words
      <4>2. read' = n + 2 /\ this' = decl.toks[n + 2]
        BY <1>7, <1>9, <1>10, <1>12, <3>1, <4>1
      <4>3. this' = r[1]
        <5>1. 1 \in 1 .. Len(r) /\ n + 1 + 1 = n + 2
          BY <1>7, <1>10, <4>1
        <5> QED  BY <1>9, <4>2, <5>1
      <4>4. \A i \in 1 .. Len(r) - 1 : decl.toks[read' + i] = r[i + 1]
        <5> TAKE i \in 1 .. Len(r) - 1
        <5>1. i + 1 \in 1 .. Len(r) /\ n + 1 + (i + 1) = n + 2 + i
          BY <1>7, <1>10
        <5> QED  BY <1>9, <4>2, <5>1
      <4>5. read' \in Nat /\ read' + Len(r) = N + 1
        BY <1>7, <1>9, <1>10, <4>2
      <4> QED  BY <1>1, <1>7, <1>10, <3>3, <4>3, <4>4, <4>5 DEF Ahead, N
    <3> QED  BY <3>2, <3>3
  <2>7. Remains(b)'
    BY <1>1, <1>5, <1>6, <2>4, <2>5, <2>6, Singles DEF Remains
  <2>8. InGetArray'
    BY <1>5, <2>3, <2>7 DEF InGetArray, Goto
  <2> QED  BY <2>8 DEF ReaderState
<1> QED  BY <1>7, <1>10, <1>11, <1>12

LEMMA GetArrayKeeps ==
  ASSUME decl \in Declarations, ReaderState, GetArray
  PROVE  ReaderState'
<1>1. UNCHANGED <<decl, stack>> /\ decl.toks \in Words
  BY DeclarationsFit DEF GetArray
<1>2. PICK c \in Contexts : /\ Remains(c)
                            /\ \/ nextstate = "get_array" /\ c.last = "name"
                               \/ nextstate = "more" /\ c.last = "array"
  BY DEF GetArray, ReaderState, InInitialize, InGetArray, InMore, InGetParms, InList,
         InGetLparen, InGetPtrPart, InGetType
<1>3. CASE this = "["
  <2>1. PICK o \in Contexts : AroundSuffix(o, c)
    BY <1>2, <1>3, SuffixFollows DEF Remains
  <2>2. PICK s \in Operators : /\ o.last = s.last
                               /\ c.right = s.toks \o o.right
                               /\ c.rest = s.says \o o.rest
    BY <2>1 DEF AroundSuffix
  <2>3. /\ c.left = o.left
        /\ o.right \in Words /\ o.rest \in Words
        /\ s.toks \in Words /\ s.says \in Words
    BY <2>1, ContextsBuild, OperatorTypes DEF AroundSuffix, Context, Declarator
  <2>4. this = s.toks[1] /\ Token(read) = s.toks[2] /\ s.last = "array"
    <3> DEFINE t == s.toks \o o.right
    <3>1. Ahead(t)
      BY <1>2, <2>2 DEF Remains
    <3>2. t # <<>> /\ t[1] = s.toks[1] /\ t[2] = s.toks[2] /\ Len(t) >= 2
          /\ s.toks[1] = IF s.last = "array" THEN "[" ELSE "("
      BY <2>3, SuffixStarts
    <3> HIDE DEF t
    <3>3. this = t[1] /\ Token(read) = t[2]
      BY <1>1, <3>1, <3>2, AtFirst, AtSecond
    <3> QED  BY <1>3, <3>2, <3>3
  <2>5. printed \in Words /\ printed \o (s.says \o o.rest) = decl.says
    BY <1>2, <2>2 DEF Remains
  <2>6. (printed \o s.says) \o o.rest = decl.says /\ printed \o s.says \in Words
    BY <2>3, <2>5, Regroup, Concat
  <2>7. Ahead(s.toks \o o.right)
    BY <1>2, <2>2 DEF Remains
  <2>8. /\ Say(s.says) /\ Goto("more")
        /\ \E n \in Nat \ {0} : Len(s.toks) = n /\ Read(n)
    <3>1. CASE s.toks = <<"[", "]">> /\ s.says = <<"array", "of">>
      <4>1. s.toks[2] = "]" /\ Len(s.toks) = 2
        BY <3>1
      <4>2. Token(read) \notin DOMAIN UpTo
        BY <2>4, <4>1 DEF UpTo
      <4>3. Read(2) /\ Say(<<"array", "of">>) /\ Goto("more")
        BY <1>3, <4>2 DEF GetArray
      <4> QED  BY <3>1, <4>1, <4>3
    <3>2. CASE s.toks = <<"[", "3", "]">> /\ s.says = <<"array", "0..2", "of">>
      <4>1. s.toks[2] = "3" /\ Len(s.toks) = 3
        BY <3>2
      <4>2. Token(read) \in DOMAIN UpTo /\ UpTo[Token(read)] = "0..2"
        BY <2>4, <4>1 DEF UpTo
      <4>3. Read(3) /\ Say(<<"array", "0..2", "of">>) /\ Goto("more")
        BY <1>3, <4>2 DEF GetArray
      <4> QED  BY <3>2, <4>1, <4>3
    <3> QED  BY <2>4, <3>1, <3>2, OperatorForms
  <2>9. Ahead(o.right)'
    BY <1>1, <2>3, <2>7, <2>8, ReadOn
  <2>10. Remains(o)'
    BY <1>1, <1>2, <2>3, <2>6, <2>8, <2>9 DEF Remains, Say
  <2>11. InMore'
    BY <2>2, <2>4, <2>8, <2>10 DEF InMore, Goto
  <2> QED  BY <2>11 DEF ReaderState
<1>4. CASE this # "["
  <2>1. /\ nextstate' = IF nextstate = "more" THEN "get_lparen" ELSE "get_parms"
        /\ UNCHANGED <<read, this, printed>>
    BY <1>4 DEF GetArray, Goto
  <2>2. Remains(c)' /\ this' # "["
    BY <1>1, <1>2, <1>4, <2>1, AtStays DEF Remains
  <2>3. InGetParms' \/ InGetLparen'
    BY <1>2, <2>1, <2>2 DEF InGetParms, InGetLparen, NoSuffix
  <2> QED  BY <2>3 DEF ReaderState
<1> QED  BY <1>3, <1>4

LEMMA ListsAreRead ==
  ASSUME NEW l \in List
  PROVE  /\ l \in Words /\ l # <<>>
         /\ l[1] = ")" => l = <<")">>
         /\ l[1] # ")" => \E k \in List : l = <<l[1]>> \o k
<1>1. <<"char", "q", ")">> = <<"char">> \o <<"q", ")">>
  <2> DEFINE u == <<"char">>
             v == <<"q", ")">>
             w == <<"char", "q", ")">>
  <2>1. /\ u \in Words /\ v \in Words /\ w \in Words
        /\ Len(u) = 1 /\ Len(v) = 2 /\ Len(w) = 3
        /\ u[1] = "char" /\ v[1] = "q" /\ v[2] = ")"
        /\ w[1] = "char" /\ w[2] = "q" /\ w[3] = ")"
    BY DEF Words, Word, Types
  <2> HIDE DEF u, v, w
  <2>2. /\ u \o v \in Words /\ Len(u \o v) = Len(u) + Len(v)
        /\ \A i \in 1 .. Len(u) + Len(v) :
             (u \o v)[i] = IF i <= Len(u) THEN u[i] ELSE v[i - Len(u)]
    BY <2>1, ConcatProperties DEF Words
  <2> DEFINE x == u \o v
  <2>3. x \in Words /\ Len(x) = 3 /\ x[1] = "char" /\ x[2] = "q" /\ x[3] = ")"
    BY <2>1, <2>2
  <2> HIDE DEF x
  <2>4. \A i \in 1 .. 3 : w[i] = x[i]
    BY <2>1, <2>3
  <2>5. w = x
    BY <2>1, <2>3, <2>4, SeqEqual DEF Words
  <2> QED  BY <2>5 DEF u, v, w, x
<1>2. <<"q", ")">> = <<"q">> \o <<")">>
  BY Pair, Zenon
<1>3. CASE l = <<")">>
  <2>1. l[1] = ")" /\ l # <<>>
    BY <1>3
  <2>2. l \in Words
    BY <1>3, Singles
  <2> QED  BY <1>3, <2>1, <2>2
<1>4. CASE l = <<"q", ")">>
  <2>1. l[1] = "q" /\ l # <<>>
    BY <1>4
  <2>2. l \in Words
    BY <1>4 DEF Words, Word
  <2>3. <<")">> \in List
    BY DEF List
  <2>4. l = <<"q">> \o <<")">>
    BY <1>2, <1>4, Zenon
  <2> QED  BY <2>1, <2>2, <2>3, <2>4
<1>5. CASE l = <<"char", "q", ")">>
  <2>1. l[1] = "char" /\ l # <<>>
    BY <1>5
  <2>2. l \in Words
    BY <1>5 DEF Words, Word, Types
  <2>3. <<"q", ")">> \in List
    BY DEF List
  <2>4. l = <<"char">> \o <<"q", ")">>
    BY <1>1, <1>5, Zenon
  <2> QED  BY <2>1, <2>2, <2>3, <2>4
<1> QED  BY <1>3, <1>4, <1>5 DEF List

LEMMA GetParmsKeeps ==
  ASSUME decl \in Declarations, ReaderState, GetParms
  PROVE  ReaderState'
<1>1. UNCHANGED <<decl, stack>> /\ decl.toks \in Words
  BY DeclarationsFit DEF GetParms
<1>2. CASE nextstate = "get_parms"
  <2>1. PICK c \in Contexts : c.last = "name" /\ Remains(c) /\ this # "["
    BY <1>2 DEF ReaderState, InInitialize, InGetArray, InMore, InGetParms, InList,
                InGetLparen, InGetPtrPart, InGetType
  <2>2. CASE this # "("
    <3>1. nextstate' = "get_lparen" /\ UNCHANGED <<read, this, printed>>
      BY <1>2, <2>2 DEF GetParms, Goto
    <3>2. Remains(c)' /\ NoSuffix(c)'
      BY <1>1, <2>1, <2>2, <3>1, AtStays DEF Remains, NoSuffix
    <3>3. InGetLparen'
      BY <3>1, <3>2 DEF InGetLparen
    <3> QED  BY <3>3 DEF ReaderState
  <2>3. CASE this = "("
    <3>1. Read(1) /\ nextstate' = "list" /\ UNCHANGED printed
      BY <1>2, <2>3 DEF GetParms, Goto
    <3>2. PICK o \in Contexts : AroundSuffix(o, c)
      BY <2>1, <2>3, SuffixFollows DEF Remains
    <3>3. PICK s \in Operators : /\ o.last = s.last
                                 /\ c.right = s.toks \o o.right
                                 /\ c.rest = s.says \o o.rest
      BY <3>2 DEF AroundSuffix
    <3>4. c.left = o.left /\ o.right \in Words
      BY <3>2, ContextsBuild DEF AroundSuffix, Context
    <3>5. s.last = "function"
      <4>1. c.right # <<>> /\ c.right[1] = IF s.last = "array" THEN "[" ELSE "("
        BY <3>3, <3>4, SuffixStarts
      <4>2. this = c.right[1]
        BY <2>1, <4>1, AtFirst DEF Remains
      <4> QED  BY <2>1, <2>3, <4>1, <4>2, OperatorForms
    <3>6. s.says = <<"function returning">> /\ \E l \in List : s.toks = <<"(">> \o l
      <4>1. <<"(", "char", "q", ")">> = <<"(">> \o <<"char", "q", ")">>
        <5> DEFINE u == <<"(">>
                   v == <<"char", "q", ")">>
                   w == <<"(", "char", "q", ")">>
        <5>1. /\ u \in Words /\ v \in Words /\ w \in Words
              /\ Len(u) = 1 /\ Len(v) = 3 /\ Len(w) = 4
              /\ u[1] = "(" /\ v[1] = "char" /\ v[2] = "q" /\ v[3] = ")"
              /\ w[1] = "(" /\ w[2] = "char" /\ w[3] = "q" /\ w[4] = ")"
          BY DEF Words, Word, Types
        <5> HIDE DEF u, v, w
        <5>2. /\ u \o v \in Words /\ Len(u \o v) = Len(u) + Len(v)
              /\ \A i \in 1 .. Len(u) + Len(v) :
                   (u \o v)[i] = IF i <= Len(u) THEN u[i] ELSE v[i - Len(u)]
          BY <5>1, ConcatProperties DEF Words
        <5> DEFINE x == u \o v
        <5>3. x \in Words /\ Len(x) = 4 /\ x[1] = "(" /\ x[2] = "char" /\ x[3] = "q"
              /\ x[4] = ")"
          BY <5>1, <5>2
        <5> HIDE DEF x
        <5>4. \A i \in 1 .. 4 : w[i] = x[i]
          BY <5>1, <5>3
        <5>5. w = x
          BY <5>1, <5>3, <5>4, SeqEqual DEF Words
        <5> QED  BY <5>5 DEF u, v, w, x
      <4>2. <<"(", ")">> = <<"(">> \o <<")">>
        BY Pair, Zenon
      <4>3. <<")">> \in List /\ <<"char", "q", ")">> \in List
        BY DEF List
      <4>4. /\ s.says = <<"function returning">>
            /\ s.toks = <<"(", ")">> \/ s.toks = <<"(", "char", "q", ")">>
        BY <3>5, OperatorForms
      <4> QED  BY <4>1, <4>2, <4>3, <4>4, Zenon
    <3>7. PICK l \in List : s.toks = <<"(">> \o l
      BY <3>6
    <3>8. Ahead(l \o o.right)'
      <4> DEFINE x == <<"(">>
                 r == o.right
      <4>1. x \in Words /\ l \in Words /\ r \in Words /\ Len(x) = 1
        BY <3>4, Singles, ListsAreRead
      <4>2. Ahead((x \o l) \o r)
        BY <2>1, <3>3, <3>7 DEF Remains
      <4> HIDE DEF x, r
      <4>3. l \o r \in Words /\ (x \o l) \o r = x \o (l \o r)
        BY <4>1, Concat, Regroup
      <4>4. Ahead(x \o (l \o r))
        BY <4>2, <4>3
      <4>5. Ahead(l \o r)'
        <5> DEFINE m == l \o r
        <5>1. m \in Words /\ Ahead(x \o m)
          BY <4>3, <4>4
        <5> HIDE DEF m
        <5>2. Ahead(m)'
          BY <1>1, <3>1, <4>1, <5>1, ReadOne
        <5> QED  BY <5>2 DEF m
      <4> QED  BY <4>5 DEF r
    <3>9. InList'
      <4>1. o.last = "function" /\ stack' = o.left
        BY <1>1, <2>1, <3>3, <3>4, <3>5 DEF Remains
      <4>2. printed' \in Words
            /\ printed' \o (<<"function returning">> \o o.rest) = decl'.says
        BY <1>1, <2>1, <3>1, <3>3, <3>6 DEF Remains
      <4> QED  BY <3>1, <3>8, <4>1, <4>2 DEF InList
    <3> QED  BY <3>9 DEF ReaderState
  <2> QED  BY <2>2, <2>3
<1>3. CASE nextstate = "list"
  <2>1. PICK c \in Contexts, l \in List :
          /\ c.last = "function"
          /\ stack = c.left /\ Ahead(l \o c.right)
          /\ printed \in Words
          /\ printed \o (<<"function returning">> \o c.rest) = decl.says
    BY <1>3 DEF ReaderState, InInitialize, InGetArray, InMore, InGetParms, InList,
                InGetLparen, InGetPtrPart, InGetType
  <2>2. /\ l \in Words /\ l # <<>> /\ Len(l) \in Nat \ {0}
        /\ c.right \in Words /\ c.rest \in Words
    BY ListsAreRead, ContextsBuild, EmptySeq DEF Context, Words
  <2>3. this = l[1]
    <3> DEFINE r == c.right
    <3>1. r \in Words /\ Len(r) \in Nat
      BY <2>2, LenProperties DEF Words
    <3> HIDE DEF r
    <3>2. l \o r # <<>> /\ (l \o r)[1] = l[1]
      <4>1. /\ l \o r \in Words /\ Len(l \o r) = Len(l) + Len(r)
            /\ \A i \in 1 .. Len(l) + Len(r) :
                 (l \o r)[i] = IF i <= Len(l) THEN l[i] ELSE r[i - Len(l)]
        BY <2>2, <3>1, ConcatProperties DEF Words
      <4> DEFINE w == l \o r
      <4>2. w \in Words /\ Len(w) # 0 /\ w[1] = l[1]
        BY <2>2, <3>1, <4>1
      <4> HIDE DEF w
      <4>3. w # <<>>
        BY <4>2, EmptySeq
      <4> QED  BY <4>2, <4>3 DEF w
    <3>3. Ahead(l \o r)
      BY <2>1 DEF r
    <3> QED  BY <3>2, <3>3, AtFirst
  <2>4. CASE this = ")"
    <3>1. l = <<")">> /\ Len(l) = 1
      <4>1. l = <<")">>
        BY <2>3, <2>4, ListsAreRead
      <4> QED  BY <4>1
    <3>2. Read(1) /\ Say(<<"function returning">>) /\ nextstate' = "get_lparen"
      BY <1>3, <2>4 DEF GetParms, Goto
    <3>3. Ahead(c.right)'
      BY <1>1, <2>1, <2>2, <3>1, <3>2, ReadOn
    <3>4. printed' \in Words /\ printed' \o c.rest = decl'.says
      <4> DEFINE f == <<"function returning">>
      <4>1. f \in Words
        BY DEF Words, Word
      <4>2. printed' = printed \o f /\ printed \o (f \o c.rest) = decl'.says
        BY <1>1, <2>1, <3>2 DEF Say
      <4> HIDE DEF f
      <4>3. printed \o f \in Words /\ (printed \o f) \o c.rest = printed \o (f \o c.rest)
        BY <2>1, <2>2, <4>1, Concat, Regroup
      <4> QED  BY <4>2, <4>3
    <3>5. Remains(c)' /\ NoSuffix(c)'
      BY <1>1, <2>1, <3>3, <3>4 DEF Remains, NoSuffix
    <3>6. InGetLparen'
      BY <3>2, <3>5 DEF InGetLparen
    <3> QED  BY <3>6 DEF ReaderState
  <2>5. CASE this # ")"
    <3>1. Read(1) /\ nextstate' = "list" /\ UNCHANGED printed
      BY <1>3, <2>5 DEF GetParms, Goto
    <3>2. PICK k \in List : l = <<l[1]>> \o k
      BY <2>3, <2>5, ListsAreRead
    <3>3. Ahead(k \o c.right)'
      <4> DEFINE x == <<l[1]>>
                 r == c.right
      <4>1. x \in Words /\ k \in Words /\ r \in Words /\ Len(x) = 1
        <5>1. l[1] \in Word
          BY <2>2, ElementOfSeq DEF Words
        <5>2. x \in Words /\ Len(x) = 1
          BY <5>1 DEF Words
        <5>3. k \in Words /\ r \in Words
          BY <2>2, ListsAreRead
        <5> QED  BY <5>2, <5>3
      <4>2. Ahead((x \o k) \o r)
        BY <2>1, <3>2
      <4> HIDE DEF x, r
      <4>3. k \o r \in Words /\ (x \o k) \o r = x \o (k \o r)
        BY <4>1, Concat, Regroup
      <4>4. Ahead(x \o (k \o r))
        BY <4>2, <4>3
      <4>5. Ahead(k \o r)'
        <5> DEFINE m == k \o r
        <5>1. m \in Words /\ Ahead(x \o m)
          BY <4>3, <4>4
        <5> HIDE DEF m
        <5>2. Ahead(m)'
          BY <1>1, <3>1, <4>1, <5>1, ReadOne
        <5> QED  BY <5>2 DEF m
      <4> QED  BY <4>5 DEF r
    <3>4. InList'
      BY <1>1, <2>1, <3>1, <3>3 DEF InList
    <3> QED  BY <3>4 DEF ReaderState
  <2> QED  BY <2>4, <2>5
<1> QED  BY <1>2, <1>3 DEF GetParms

(* Where no suffix follows, what comes next is on the stack.               *)
LEMMA NextIsOnStack ==
  ASSUME NEW c \in Contexts, Remains(c), NoSuffix(c)
  PROVE  \/ Outermost(c)
         \/ \E o \in Contexts : AroundPointer(o, c)
         \/ \E o \in Contexts : AroundBracket(o, c)
<1>1. ASSUME NEW o \in Contexts, AroundSuffix(o, c) PROVE FALSE
  <2>1. PICK s \in Operators : o.last = s.last /\ c.right = s.toks \o o.right
    BY <1>1 DEF AroundSuffix
  <2>2. o.right \in Words
    BY ContextsBuild DEF Context
  <2>3. c.right # <<>> /\ c.right[1] = IF s.last = "array" THEN "[" ELSE "("
    BY <2>1, <2>2, SuffixStarts
  <2>4. this = c.right[1]
    BY <2>3, AtFirst DEF Remains
  <2>5. \/ c.last = "name"
        \/ c.last = "array" /\ s.last = "array"
    BY <1>1, <2>1 DEF AroundSuffix
  <2> QED  BY <2>3, <2>4, <2>5 DEF NoSuffix
<1> QED  BY <1>1, ContextsInvert DEF Around

LEMMA TopOfStack ==
  ASSUME NEW c \in Contexts, stack = c.left
  PROVE  /\ Outermost(c) /\ stack # <<>> => Last(stack) \in Qualifiers \cup Types
         /\ \A o \in Contexts :
              /\ AroundBracket(o, c) =>
                   stack # <<>> /\ Last(stack) = "(" /\ Front(stack) = o.left
              /\ AroundPointer(o, c) =>
                   /\ stack # <<>> /\ Front(stack) = o.left
                   /\ \/ Last(stack) = "*" /\ c.rest = <<"point to">> \o o.rest
                      \/ Last(stack) = "const" /\ c.rest = <<"readonly">> \o o.rest
<1>1. ASSUME Outermost(c), stack # <<>>
      PROVE  Last(stack) \in Qualifiers \cup Types
  <2>1. stack \in Seq(Qualifiers \cup Types)
    BY <1>1 DEF Outermost
  <2>2. Len(stack) \in Nat \ {0}
    BY <1>1, <2>1, EmptySeq
  <2>3. Len(stack) \in 1 .. Len(stack)
    BY <2>2
  <2> QED  BY <2>1, <2>3, ElementOfSeq DEF Last
<1>2. ASSUME NEW o \in Contexts, AroundBracket(o, c)
      PROVE  stack # <<>> /\ Last(stack) = "(" /\ Front(stack) = o.left
  <2>1. o.left \in Seq(Before) /\ "(" \in Before /\ stack = o.left \o <<"(">>
    BY <1>2, ContextsBuild DEF Context, Before, AroundBracket
  <2> QED  BY <2>1, OnTop
<1>3. ASSUME NEW o \in Contexts, AroundPointer(o, c)
      PROVE  /\ stack # <<>> /\ Front(stack) = o.left
             /\ \/ Last(stack) = "*" /\ c.rest = <<"point to">> \o o.rest
                \/ Last(stack) = "const" /\ c.rest = <<"readonly">> \o o.rest
  <2>1. o.left \in Seq(Before)
    BY ContextsBuild DEF Context
  <2>2. "*" \in Before /\ "const" \in Before
    BY DEF Before, Qualifiers
  <2>3. CASE stack = o.left \o <<"*">> /\ c.rest = <<"point to">> \o o.rest
    <3>1. Last(stack) = "*" /\ Front(stack) = o.left /\ stack # <<>>
      BY <2>1, <2>2, <2>3, OnTop, Zenon
    <3> QED  BY <2>3, <3>1
  <2>4. CASE stack = o.left \o <<"const">> /\ c.rest = <<"readonly">> \o o.rest
    <3>1. Last(stack) = "const" /\ Front(stack) = o.left /\ stack # <<>>
      BY <2>1, <2>2, <2>4, OnTop, Zenon
    <3> QED  BY <2>4, <3>1
  <2> QED  BY <1>3, <2>3, <2>4 DEF AroundPointer
<1> QED  BY <1>1, <1>2, <1>3

LEMMA GetLparenKeeps ==
  ASSUME decl \in Declarations, ReaderState, GetLparen
  PROVE  ReaderState'
<1>1. UNCHANGED <<decl, printed>> /\ decl.toks \in Words
  BY DeclarationsFit DEF GetLparen
<1>2. PICK c \in Contexts : Remains(c) /\ NoSuffix(c)
  BY DEF GetLparen, ReaderState, InInitialize, InGetArray, InMore, InGetParms, InList,
         InGetLparen, InGetPtrPart, InGetType
<1>3. CASE stack # <<>> /\ Last(stack) = "("
  <2>1. stack' = Front(stack) /\ Read(1) /\ nextstate' = "get_array"
    BY <1>3 DEF GetLparen, Pop, Goto
  <2>2. stack = c.left
    BY <1>2 DEF Remains
  <2>3. ~ Outermost(c)
    BY <1>3, <2>2, TopOfStack DEF Qualifiers, Types
  <2>4. \A o \in Contexts : ~ AroundPointer(o, c)
    BY <1>3, <2>2, TopOfStack
  <2>5. PICK o \in Contexts : AroundBracket(o, c)
    BY <1>2, <2>3, <2>4, NextIsOnStack
  <2>6. stack' = o.left
    BY <2>1, <2>2, <2>5, TopOfStack
  <2>7. o.last = "name" /\ c.right = <<")">> \o o.right /\ c.rest = o.rest
        /\ o.right \in Words
    BY <2>5, ContextsBuild DEF AroundBracket, Context
  <2>8. Ahead(o.right)'
    <3> DEFINE x == <<")">>
    <3>1. x \in Words /\ Len(x) = 1
      BY Singles
    <3>2. Ahead(x \o o.right)
      BY <1>2, <2>7 DEF Remains
    <3> HIDE DEF x
    <3> QED  BY <1>1, <2>1, <2>7, <3>1, <3>2, ReadOne
  <2>9. Remains(o)'
    BY <1>1, <1>2, <2>6, <2>7, <2>8 DEF Remains
  <2>10. InGetArray'
    BY <2>1, <2>7, <2>9 DEF InGetArray
  <2> QED  BY <2>10 DEF ReaderState
<1>4. CASE ~ (stack # <<>> /\ Last(stack) = "(")
  <2>1. nextstate' = "get_ptr_part" /\ UNCHANGED <<read, this, stack>>
    BY <1>4 DEF GetLparen, Goto
  <2>2. Remains(c)' /\ NoSuffix(c)'
    BY <1>1, <1>2, <2>1, AtStays DEF Remains, NoSuffix
  <2>3. stack' # <<>> => Last(stack') # "("
    BY <1>4, <2>1
  <2>4. InGetPtrPart'
    BY <2>1, <2>2, <2>3 DEF InGetPtrPart
  <2> QED  BY <2>4 DEF ReaderState
<1> QED  BY <1>3, <1>4

(* The word on top is said first.                                          *)
LEMMA SaidTop ==
  ASSUME NEW s \in Seq(Qualifiers \cup Types), s # <<>>
  PROVE  /\ Front(s) \in Seq(Qualifiers \cup Types)
         /\ Renamed(Last(s)) \in Word
         /\ Said(s) = <<Renamed(Last(s))>> \o Said(Front(s))
<1> DEFINE n == Len(s)
           f == Front(s)
           e == Renamed(Last(s))
<1>1. n \in Nat \ {0}
  BY EmptySeq
<1>2. \A i \in 1 .. n - 1 : s[i] \in Qualifiers \cup Types
  BY <1>1, ElementOfSeq
<1>3. /\ f \in Seq(Qualifiers \cup Types) /\ Len(f) = n - 1
      /\ \A i \in 1 .. n - 1 : f[i] = s[i]
  <2>1. /\ SubSeq(s, 1, n - 1) \in Seq(Qualifiers \cup Types)
        /\ Len(SubSeq(s, 1, n - 1)) = IF 1 <= n - 1 THEN n - 1 - 1 + 1 ELSE 0
        /\ \A i \in 1 .. n - 1 - 1 + 1 : SubSeq(s, 1, n - 1)[i] = s[1 + i - 1]
    BY <1>1, <1>2, SubSeqProperties
  <2> HIDE DEF n
  <2>2. f = SubSeq(s, 1, n - 1)
    BY DEF Front, n
  <2> QED  BY <1>1, <2>1, <2>2
<1>4. e \in Word
  <2>1. n \in 1 .. n
    BY <1>1
  <2>2. s[n] \in Qualifiers \cup Types
    BY <2>1, ElementOfSeq
  <2> QED  BY <2>2 DEF Last, Renamed, Word
<1>5. /\ Said(s) \in Words /\ Len(Said(s)) = n
      /\ \A i \in 1 .. n : Said(s)[i] = Renamed(s[n - i + 1])
  BY SaidWords
<1>6. /\ Said(f) \in Words /\ Len(Said(f)) = n - 1
      /\ \A i \in 1 .. n - 1 : Said(f)[i] = Renamed(f[n - 1 - i + 1])
  BY <1>3, SaidWords
<1>7. e = Renamed(s[n])
  BY DEF Last
<1> DEFINE x == <<e>>
           t == Said(f)
<1>8. x \in Words /\ Len(x) = 1 /\ x[1] = e
  <2> HIDE DEF e
  <2> QED  BY <1>4 DEF Words
<1>9. t \in Words /\ Len(t) = n - 1
  BY <1>6
<1>10. ASSUME NEW i \in 2 .. n PROVE t[i - 1] = Renamed(s[n - i + 1])
  <2>1. i - 1 \in 1 .. n - 1 /\ n - 1 - (i - 1) + 1 = n - i + 1
        /\ n - i + 1 \in 1 .. n - 1
    BY <1>1
  <2>2. t[i - 1] = Renamed(f[n - 1 - (i - 1) + 1])
    BY <1>6, <2>1
  <2>3. f[n - i + 1] = s[n - i + 1]
    BY <1>3, <2>1
  <2> QED  BY <2>1, <2>2, <2>3
<1> HIDE DEF n, f, e, x, t
<1>11. /\ x \o t \in Words /\ Len(x \o t) = Len(x) + Len(t)
       /\ \A i \in 1 .. Len(x) + Len(t) :
            (x \o t)[i] = IF i <= Len(x) THEN x[i] ELSE t[i - Len(x)]
  BY <1>8, <1>9, ConcatProperties DEF Words
<1> DEFINE w == x \o t
<1>12. w \in Words /\ Len(w) = n /\ w[1] = e /\ \A i \in 2 .. n : w[i] = t[i - 1]
  BY <1>1, <1>8, <1>9, <1>11
<1> DEFINE v == Said(s)
<1>13. v \in Words /\ Len(v) = n /\ \A i \in 1 .. n : v[i] = Renamed(s[n - i + 1])
  BY <1>5
<1> HIDE DEF w, v
<1>14. ASSUME NEW i \in 1 .. n PROVE v[i] = w[i]
  <2>1. CASE i = 1
    <3>1. n - i + 1 = n
      BY <1>1, <2>1
    <3> QED  BY <1>7, <1>12, <1>13, <2>1, <3>1
  <2>2. CASE i # 1
    <3>1. i \in 2 .. n
      BY <1>1, <2>2
    <3> QED  BY <1>10, <1>12, <1>13, <3>1
  <2> QED  BY <2>1, <2>2
<1>15. v = w
  BY <1>12, <1>13, <1>14, SeqEqual DEF Words
<1> QED  BY <1>3, <1>4, <1>15 DEF v, w, x, t, e, f

LEMMA GetPtrPartKeeps ==
  ASSUME decl \in Declarations, ReaderState, GetPtrPart
  PROVE  ReaderState'
<1>1. UNCHANGED <<decl, read, this>>
  BY DEF GetPtrPart
<1>2. nextstate = "get_ptr_part"
  BY DEF GetPtrPart
<1>3. InGetPtrPart
  BY <1>2 DEF ReaderState, InInitialize, InGetArray, InMore, InGetParms, InList,
              InGetLparen, InGetPtrPart, InGetType
<1>4. PICK c \in Contexts : Remains(c) /\ NoSuffix(c)
  BY <1>3 DEF InGetPtrPart
<1>5. stack = c.left /\ Ahead(c.right) /\ printed \in Words /\ printed \o c.rest = decl.says
  BY <1>4 DEF Remains
<1>6. \A o \in Contexts : ~ AroundBracket(o, c)
  BY <1>3, <1>5, TopOfStack DEF InGetPtrPart
<1>7. CASE stack = <<>> /\ nextstate' = "undefined"
  BY <1>7 DEF ReaderState
<1>8. ASSUME NEW w \in Word, stack # <<>>, stack' = Front(stack), Say(<<w>>),
             nextstate' = "get_lparen",
             NEW o \in Contexts, Front(stack) = o.left, c.rest = <<w>> \o o.rest,
             o.right = c.right, o.last = "pointer"
      PROVE  ReaderState'
  <2> DEFINE x == <<w>>
  <2>1. x \in Words /\ o.rest \in Words
    BY ContextsBuild DEF Context, Words
  <2>2. printed' = printed \o x /\ printed \o (x \o o.rest) = decl.says
    BY <1>5, <1>8 DEF Say
  <2> HIDE DEF x
  <2>3. printed' \in Words /\ printed' \o o.rest = decl.says
    BY <1>5, <2>1, <2>2, Concat, Regroup
  <2>4. Ahead(o.right)'
    BY <1>1, <1>5, <1>8, AtStays
  <2>5. Remains(o)' /\ NoSuffix(o)'
    BY <1>1, <1>8, <2>3, <2>4 DEF Remains, NoSuffix
  <2>6. InGetLparen'
    BY <1>8, <2>5 DEF InGetLparen
  <2> QED  BY <2>6 DEF ReaderState
<1>9. CASE /\ stack # <<>> /\ Last(stack) = "*"
           /\ Say(<<"point to">>) /\ Pop /\ Goto("get_lparen")
  <2>1. ~ Outermost(c)
    BY <1>5, <1>9, TopOfStack DEF Qualifiers, Types
  <2>2. PICK o \in Contexts : AroundPointer(o, c)
    BY <1>4, <1>6, <2>1, NextIsOnStack
  <2>3. Front(stack) = o.left /\ c.rest = <<"point to">> \o o.rest
    BY <1>5, <1>9, <2>2, TopOfStack
  <2>4. o.right = c.right /\ o.last = "pointer" /\ "point to" \in Word
    BY <2>2 DEF AroundPointer, Word
  <2> QED  BY <1>8, <1>9, <2>3, <2>4 DEF Pop, Goto
<1>10. CASE /\ stack # <<>> /\ TypeOf(Last(stack)) = "QUALIFIER"
            /\ Say(<<Renamed(Last(stack))>>) /\ Pop /\ Goto("get_lparen")
  <2>1. CASE Outermost(c)
    <3>1. /\ stack \in Seq(Qualifiers \cup Types) /\ c.right = <<>>
          /\ c.rest = Said(stack)
      BY <1>5, <2>1 DEF Outermost
    <3>2. /\ Front(stack) \in Seq(Qualifiers \cup Types)
          /\ Renamed(Last(stack)) \in Word
          /\ Said(stack) = <<Renamed(Last(stack))>> \o Said(Front(stack))
      BY <1>10, <3>1, SaidTop
    <3> DEFINE o == [left |-> Front(stack), right |-> <<>>, rest |-> Said(Front(stack)),
                     last |-> "pointer"]
    <3>3. o \in Contexts
      <4>1. Front(stack) \in Seq(Before)
        <5>1. Qualifiers \cup Types \subseteq Before
          BY DEF Before
        <5> QED  BY <3>2, <5>1, SeqMonotonic
      <4>2. Said(Front(stack)) \in Words
        BY <3>2, SaidWords
      <4>3. o \in Context
        BY <4>1, <4>2, Singles DEF Context, Kinds
      <4>4. Outermost(o)
        BY <3>2 DEF Outermost
      <4> HIDE DEF o
      <4> QED  BY <4>3, <4>4, ContextsBuild DEF Closed
    <3>4. /\ Front(stack) = o.left /\ c.rest = <<Renamed(Last(stack))>> \o o.rest
          /\ o.right = c.right /\ o.last = "pointer"
      BY <3>1, <3>2
    <3> HIDE DEF o
    <3> QED  BY <1>8, <1>10, <3>2, <3>3, <3>4 DEF Pop, Goto
  <2>2. CASE ~ Outermost(c)
    <3>1. PICK o \in Contexts : AroundPointer(o, c)
      BY <1>4, <1>6, <2>2, NextIsOnStack
    <3>2. Last(stack) # "*"
      BY <1>10 DEF TypeOf
    <3>3. /\ Front(stack) = o.left /\ Last(stack) = "const"
          /\ c.rest = <<"readonly">> \o o.rest
      BY <1>5, <3>1, <3>2, TopOfStack
    <3>4. Renamed(Last(stack)) = "readonly"
      BY <3>3 DEF Renamed
    <3>5. o.right = c.right /\ o.last = "pointer" /\ "readonly" \in Word
      BY <3>1 DEF AroundPointer, Word
    <3> QED  BY <1>8, <1>10, <3>3, <3>4, <3>5 DEF Pop, Goto
  <2> QED  BY <2>1, <2>2
<1>11. CASE /\ stack # <<>> /\ TypeOf(Last(stack)) \notin {"*", "QUALIFIER"}
            /\ Goto("get_type") /\ UNCHANGED <<stack, printed>>
  <2>1. \A o \in Contexts : ~ AroundPointer(o, c)
    <3>1. Last(stack) # "*" /\ Last(stack) # "const"
      BY <1>11 DEF TypeOf
    <3> QED  BY <1>5, <3>1, TopOfStack
  <2>2. Outermost(c)
    BY <1>4, <1>6, <2>1, NextIsOnStack
  <2>3. stack \in Seq(Qualifiers \cup Types) /\ c.rest = Said(stack)
    BY <1>5, <2>2 DEF Outermost
  <2>4. InGetType'
    BY <1>1, <1>5, <1>11, <2>3 DEF InGetType, Goto
  <2> QED  BY <2>4 DEF ReaderState
<1> QED  BY <1>7, <1>9, <1>10, <1>11 DEF GetPtrPart, Goto

LEMMA GetTypeKeeps ==
  ASSUME decl \in Declarations, ReaderState, GetType
  PROVE  ReaderState'
<1>1. UNCHANGED decl /\ nextstate = "get_type" /\ nextstate' = "NULL"
  BY DEF GetType, Goto
<1>2. InGetType
  BY <1>1 DEF ReaderState, InInitialize, InGetArray, InMore, InGetParms, InList,
              InGetLparen, InGetPtrPart, InGetType
<1> DEFINE all == [i \in DOMAIN stack |-> Renamed(Reverse(stack)[i])]
<1>3. stack \in Seq(Qualifiers \cup Types) /\ Len(stack) \in Nat
      /\ DOMAIN stack = 1 .. Len(stack)
  BY <1>2, LenProperties DEF InGetType
<1>4. all = Said(stack)
  <2>1. /\ Said(stack) \in Words /\ Len(Said(stack)) = Len(stack)
        /\ \A i \in 1 .. Len(stack) :
             Said(stack)[i] = Renamed(stack[Len(stack) - i + 1])
    BY <1>3, SaidWords
  <2>2. \A i \in 1 .. Len(stack) : Reverse(stack)[i] = stack[Len(stack) - i + 1]
    BY DEF Reverse
  <2>3. Said(stack) = [i \in 1 .. Len(stack) |-> Said(stack)[i]]
    BY <2>1, LenProperties DEF Words
  <2> QED  BY <1>3, <2>1, <2>2, <2>3
<1>5. printed' = printed \o all
  BY DEF GetType, Say
<1>6. printed' = decl'.says
  BY <1>1, <1>2, <1>4, <1>5 DEF InGetType
<1> QED  BY <1>1, <1>6 DEF ReaderState

(* For a declaration of a type with any specifiers and operators, what the *)
(* machine prints is what C means by it: the states of cAnalizeFsm.c keep  *)
(* apart what is printed, unread and on the stack, and lose nothing.       *)
THEOREM ReaderIsRight == DeclSpec => []ReadsDeclaration
<1>1. DeclInit => ReaderInv
  BY ReaderStarts
<1>2. ASSUME ReaderInv, [DeclNext]_declVars
      PROVE  ReaderInv'
  <2> SUFFICES ASSUME decl'.kind = "typed"
               PROVE  decl' \in Declarations /\ ReaderState'
    BY DEF ReaderInv
  <2>1. UNCHANGED decl
    BY <1>2 DEF DeclNext, declVars, Initialize, GetArray, GetParms, GetLparen,
                GetPtrPart, GetType
  <2>2. decl \in Declarations /\ ReaderState
    BY <1>2, <2>1 DEF ReaderInv
  <2>3. CASE Initialize
    BY <2>1, <2>2, <2>3, InitializeKeeps
  <2>4. CASE GetArray
    BY <2>1, <2>2, <2>4, GetArrayKeeps
  <2>5. CASE GetParms
    BY <2>1, <2>2, <2>5, GetParmsKeeps
  <2>6. CASE GetLparen
    BY <2>1, <2>2, <2>6, GetLparenKeeps
  <2>7. CASE GetPtrPart
    BY <2>1, <2>2, <2>7, GetPtrPartKeeps
  <2>8. CASE GetType
    BY <2>1, <2>2, <2>8, GetTypeKeeps
  <2>9. CASE UNCHANGED declVars
    BY <2>2, <2>9 DEF declVars, ReaderState, InInitialize, InGetArray, InMore, InGetParms,
       InList, InGetLparen, InGetPtrPart, InGetType, Remains, NoSuffix, Ahead
  <2> QED  BY <1>2, <2>1, <2>2, <2>3, <2>4, <2>5, <2>6, <2>7, <2>8, <2>9 DEF DeclNext
<1>3. ReaderInv => ReadsDeclaration
  BY DEF ReaderInv, ReadsDeclaration, ReaderState, InInitialize, InGetArray, InMore,
         InGetParms, InList, InGetLparen, InGetPtrPart, InGetType
<1> QED  BY <1>1, <1>2, <1>3, PTL DEF DeclSpec

-----------------------------------------------------------------------------
(***************************************************************************)
(* The service over Ethernet frames.                                       *)
(***************************************************************************)
LEMMA SetAddresses ==
  ASSUME MacTypeOK, NEW f \in Frames, ~Dropped(f.msg)
  PROVE  SetIfAddr(f.msg) \subseteq Address \cup {NoAddress}
<1>1. f.msg \in Messages
  BY DEF Frames
<1>2. ASSUME Sets(f.msg), f.msg.ip # "invalid"
      PROVE  f.msg.ip \in Address
  <2>1. f.msg.verb = "ModifyNetInfo" /\ f.msg.mac \in {"own", "prefix"}
    BY <1>2 DEF Sets, Mine
  <2>2. f.msg.ip # "none"
    BY <2>1 DEF Dropped, Mine
  <2>3. f.msg.ip \in Address \cup {"invalid", "none"}
    BY <1>1, <2>1 DEF Messages
  <2> QED  BY <1>2, <2>2, <2>3
<1>3. eth0 \in Address \cup {NoAddress}
  BY DEF MacTypeOK
<1> QED  BY <1>2, <1>3 DEF SetIfAddr

LEMMA ServiceTypes == MacSpec => []MacTypeOK
<1>1. MacInit => MacTypeOK
  BY MacAssumption DEF MacInit, MacTypeOK
<1>2. ASSUME MacTypeOK, [MacNext]_macVars
      PROVE  MacTypeOK'
  <2>1. CASE Start
    <3>1. fds' \in 0 .. MaxFds
      BY <2>1, MacAssumption DEF Start
    <3>2. PICK names \in Devices :
            hwaddr' = "lo" \/ \E i \in DOMAIN names : hwaddr' = names[i]
      BY <2>1 DEF Start
    <3>3. hwaddr' \in Interfaces
      BY <3>2 DEF Devices, Interfaces
    <3> QED  BY <1>2, <2>1, <3>1, <3>3 DEF Start, MacTypeOK
  <2>2. Opened(fds) \in 0 .. MaxFds
    BY <1>2, MacAssumption DEF Opened, MacTypeOK
  <2>3. ASSUME NEW f \in Frames, Receive(f)
        PROVE  MacTypeOK'
    <3>1. eth0' \in Address \cup {NoAddress}
      BY <1>2, <2>3, SetAddresses DEF Receive
    <3> QED  BY <1>2, <2>2, <2>3, <3>1 DEF Receive, MacTypeOK
  <2>4. CASE get_ip \/ GetLocalNetMask
    BY <1>2, <2>2, <2>4 DEF get_ip, GetLocalNetMask, MacTypeOK
  <2>5. CASE Answer
    <3>1. reply' \in [turn : 0 .. 1, ip : Address \cup {NoAddress}]
      <4>1. 1 - reply.turn \in 0 .. 1
        BY <1>2 DEF MacTypeOK
      <4> QED  BY <1>2, <2>5, <4>1 DEF Answer, MacTypeOK
    <3> QED  BY <1>2, <2>5, <3>1 DEF Answer, MacTypeOK
  <2>6. ASSUME NEW f \in Frames, Ignore(f)
        PROVE  MacTypeOK'
    BY <1>2, <2>6 DEF Ignore, macVars, MacTypeOK
  <2>7. CASE Exit \/ OthersSet
    BY <1>2, <2>7 DEF Exit, OthersSet, MacTypeOK
  <2>8. CASE UNCHANGED macVars
    BY <1>2, <2>8 DEF macVars, MacTypeOK
  <2> QED  BY <1>2, <2>1, <2>3, <2>4, <2>5, <2>6, <2>7, <2>8 DEF MacNext
<1> QED  BY <1>1, <1>2, PTL DEF MacSpec

(* What the buffer may hold: before it is read again, what the last answer *)
(* told; while an answer is made, an address eth0 had since the command,   *)
(* or still the old one, if there was none to read or no way to read it.   *)
AnswerInv ==
  /\ MacTypeOK
  /\ state \in {"starting", "serving", "get_ip"} => temp_ip = reply.ip
  /\ state = "get_ip" => eth0 \in had
  /\ state \in {"GetLocalNetMask", "sendto"} =>
       \/ temp_ip \in had \ {NoAddress}
       \/ temp_ip = reply.ip /\ (NoAddress \in had \/ fds = MaxFds)

(* An answer tells an address that eth0 had after the command it answers   *)
(* was carried out, not always the one it has when it is sent; only if     *)
(* eth0 had none meanwhile or the descriptors are used up may it repeat    *)
(* the answer before it: what receiver.c does for any addresses, messages  *)
(* and number of descriptors, others setting eth0 between its calls.       *)
THEOREM AnswersAreCurrent == MacSpec => AnswerIsCurrent
<1>1. MacInit => AnswerInv
  BY MacAssumption DEF MacInit, AnswerInv, MacTypeOK
<1>2. AnswerInv /\ MacTypeOK' /\ [MacNext]_macVars => AnswerInv'
  <2> SUFFICES ASSUME AnswerInv, MacTypeOK', [MacNext]_macVars PROVE AnswerInv'
    OBVIOUS
  <2>1. fds = MaxFds => Opened(fds) = MaxFds
    BY MacAssumption DEF Opened
  <2>2. ASSUME NEW f \in Frames, Receive(f)
        PROVE  AnswerInv'
    BY <2>2 DEF Receive, AnswerInv
  <2>3. CASE get_ip
    BY <2>1, <2>3 DEF get_ip, AnswerInv
  <2>4. CASE GetLocalNetMask
    BY <2>1, <2>4 DEF GetLocalNetMask, AnswerInv
  <2>5. CASE Start \/ Answer \/ Exit
    BY <2>5 DEF Start, Answer, Exit, AnswerInv
  <2>6. CASE OthersSet
    BY <2>6 DEF OthersSet, AnswerInv
  <2>7. CASE UNCHANGED macVars \/ \E f \in Frames : Ignore(f)
    BY <2>7 DEF macVars, Ignore, AnswerInv
  <2> QED  BY <2>2, <2>3, <2>4, <2>5, <2>6, <2>7 DEF MacNext
<1>3. AnswerInv /\ [MacNext]_macVars =>
        [reply' # reply =>
           \/ reply'.ip \in had \ {NoAddress}
           \/ reply'.ip = reply.ip /\ (NoAddress \in had \/ fds = MaxFds)]_macVars
  <2> SUFFICES ASSUME AnswerInv, [MacNext]_macVars, reply' # reply
               PROVE  \/ reply'.ip \in had \ {NoAddress}
                      \/ reply'.ip = reply.ip /\ (NoAddress \in had \/ fds = MaxFds)
    OBVIOUS
  <2>1. CASE Answer
    BY <2>1 DEF Answer, AnswerInv
  <2>2. ASSUME NEW f \in Frames, Receive(f) \/ Ignore(f)
        PROVE  FALSE
    BY <2>2 DEF Receive, Ignore, macVars
  <2>3. CASE Start \/ get_ip \/ GetLocalNetMask \/ Exit \/ OthersSet \/ UNCHANGED macVars
    BY <2>3 DEF Start, get_ip, GetLocalNetMask, Exit, OthersSet, macVars
  <2> QED  BY <2>1, <2>2, <2>3 DEF MacNext
<1> QED
  BY <1>1, <1>2, <1>3, ServiceTypes, PTL DEF MacSpec, AnswerIsCurrent

-----------------------------------------------------------------------------
(***************************************************************************)
(* The conversions of texts.                                               *)
(***************************************************************************)
(***************************************************************************)
(* Numbers and their digits.                                               *)
(***************************************************************************)
LEMMA Quotients ==
  ASSUME NEW x \in Nat, NEW b \in {10, 64}
  PROVE  x \div b \in Nat /\ x % b \in 0 .. b - 1 /\ x = b * (x \div b) + (x % b)
<1>1. CASE b = 10
  BY <1>1
<1>2. CASE b = 64
  BY <1>2
<1> QED  BY <1>1, <1>2

LEMMA ShiftedUnfolds ==
  ASSUME NEW u \in Nat, NEW b \in {10, 64}
  PROVE  /\ Shifted(u, b) \in [Nat -> Nat]
         /\ Shifted(u, b)[0] = u
         /\ \A n \in Nat : n # 0 => Shifted(u, b)[n] = Shifted(u, b)[n - 1] \div b
<1> DEFINE step == [x \in Nat |-> x \div b]
           Is(f) == f = [k \in Nat |-> IF k = 0 THEN u ELSE f[k - 1] \div b]
<1>1. step \in [Nat -> Nat]
  BY Quotients
<1>2. PICK f \in [Nat -> Nat] : Repetition(f, u, step)
  <2> HIDE DEF step
  <2> QED  BY <1>1, RepetitionExists, Zenon
<1>3. Is(f)
  <2>1. ASSUME NEW n \in Nat
        PROVE  f[n] = IF n = 0 THEN u ELSE f[n - 1] \div b
    <3>1. CASE n = 0
      BY <1>2, <3>1 DEF Repetition
    <3>2. CASE n # 0
      <4>1. f[n - 1] \in Nat
        BY <1>2, <3>2
      <4> QED  BY <1>2, <3>2, <4>1 DEF Repetition
    <3> QED  BY <3>1, <3>2
  <2> QED  BY <1>2, <2>1
<1>4. Is(Shifted(u, b))
  <2>1. Shifted(u, b) = CHOOSE g : Is(g)
    BY DEF Shifted
  <2> HIDE DEF Is
  <2> QED  BY <1>3, <2>1
<1> DEFINE S == Shifted(u, b)
<1>5. S = [k \in Nat |-> IF k = 0 THEN u ELSE S[k - 1] \div b]
  BY <1>4
<1> HIDE DEF S
<1>6. S[0] = u /\ \A n \in Nat : n # 0 => S[n] = S[n - 1] \div b
  BY <1>5
<1>7. S \in [Nat -> Nat]
  <2> DEFINE Fails == {n \in Nat : S[n] \notin Nat}
  <2>1. Fails = {}
    <3> SUFFICES ASSUME Fails # {} PROVE FALSE
      OBVIOUS
    <3>1. PICK m \in Fails : \A k \in Fails : m <= k
      <4>1. Fails \subseteq Nat
        OBVIOUS
      <4> HIDE DEF Fails
      <4> QED  BY <4>1, NatLeast
    <3>2. m # 0
      BY <1>6, <3>1
    <3>3. m - 1 \in Nat /\ S[m - 1] \in Nat
      BY <3>1, <3>2
    <3>4. S[m] = S[m - 1] \div b
      BY <1>6, <3>1, <3>2
    <3> QED  BY <3>1, <3>3, <3>4, Quotients
  <2> QED  BY <1>5, <2>1
<1> QED  BY <1>6, <1>7 DEF S

LEMMA LeastIs ==
  ASSUME NEW T, T \subseteq Nat, T # {}
  PROVE  Min(T) \in T /\ \A k \in T : Min(T) <= k
BY NatLeast DEF Min

Code == 0 .. INT_MAX

(* The provers count a literal down, so large numbers are kept as multiples *)
(* of this one.                                                            *)
LEMMA LastOfThree ==
  /\ ThreeBytes \in Nat /\ ThreeBytes > 2047 /\ ThreeBytes < 100000
  /\ FourBytes = 2048 * ThreeBytes + 2047 /\ FourBytes \in Nat
  /\ INT_MAX = 32768 * ThreeBytes + 32767 /\ INT_MAX \in Nat
<1>1. ThreeBytes \in Nat /\ ThreeBytes > 2047 /\ ThreeBytes < 100000
  BY DEF ThreeBytes
<1>2. FourBytes = 2048 * ThreeBytes + 2047 /\ INT_MAX = 32768 * ThreeBytes + 32767
  BY DEF FourBytes, INT_MAX
<1> QED  BY <1>1, <1>2

LEMMA CodeBound ==
  ASSUME NEW u \in Code
  PROVE  /\ u \in Nat /\ u <= INT_MAX
         /\ \A p \in Nat : p = 10000 => u < 100000 * (10 * p)
<1>1. u \in Nat /\ u <= 32768 * ThreeBytes + 32767 /\ u <= INT_MAX
  BY LastOfThree DEF Code
<1> QED  BY <1>1, LastOfThree

LEMMA TenthBelow ==
  ASSUME NEW x \in Nat, NEW y \in Nat, x < 10 * y
  PROVE  x \div 10 < y
OBVIOUS

LEMMA DigitsEnd ==
  ASSUME NEW u \in Code
  PROVE  Digits(u) \in 1 .. 10 /\ Shifted(u, 10)[Digits(u)] = 0
<1> DEFINE S == Shifted(u, 10)
           T == {n \in 1 .. 10 : S[n] = 0}
           p == 10000
           q == 10 * p
           Below(n, y) == S[n] \in Nat /\ S[n] < y
<1>1. u \in Nat
  BY CodeBound
<1>2. p \in Nat /\ q \in Nat /\ q = 10 * p /\ p = 10000 /\ u < 100000 * q
  BY CodeBound
<1> HIDE DEF p, q
<1>3. /\ S \in [Nat -> Nat] /\ S[0] = u
      /\ \A n \in Nat : n # 0 => S[n] = S[n - 1] \div 10
  BY <1>1, ShiftedUnfolds
<1> HIDE DEF S
<1>4. ASSUME NEW n \in Nat, NEW y \in Nat, Below(n, 10 * y)
      PROVE  Below(n + 1, y)
  <2>1. S[n + 1] = S[n] \div 10 /\ S[n + 1] \in Nat
    BY <1>3
  <2> QED  BY <1>4, <2>1, TenthBelow
<1> HIDE DEF Below
<1>5. Below(0, 10 * (10000 * q))
  BY <1>1, <1>2, <1>3 DEF Below
<1>6. Below(1, 10000 * q)
  BY <1>2, <1>4, <1>5
<1>7. Below(2, 1000 * q)
  <2>1. 1000 * q \in Nat /\ 10000 * q = 10 * (1000 * q)
    BY <1>2
  <2>2. Below(1, 10 * (1000 * q))
    BY <1>6, <2>1
  <2>3. Below(1 + 1, 1000 * q)
    BY <1>4, <2>1, <2>2
  <2> QED  BY <2>3
<1>8. Below(3, 100 * q)
  <2>1. 100 * q \in Nat /\ 1000 * q = 10 * (100 * q)
    BY <1>2
  <2>2. Below(2, 10 * (100 * q))
    BY <1>7, <2>1
  <2>3. Below(2 + 1, 100 * q)
    BY <1>4, <2>1, <2>2
  <2> QED  BY <2>3
<1>9. Below(4, 10 * q)
  <2>1. 10 * q \in Nat /\ 100 * q = 10 * (10 * q)
    BY <1>2
  <2>2. Below(3, 10 * (10 * q))
    BY <1>8, <2>1
  <2>3. Below(3 + 1, 10 * q)
    BY <1>4, <2>1, <2>2
  <2> QED  BY <2>3
<1>10. Below(5, q)
  <2>1. q \in Nat /\ 10 * q = 10 * (q)
    BY <1>2
  <2>2. Below(4, 10 * (q))
    BY <1>9, <2>1
  <2>3. Below(4 + 1, q)
    BY <1>4, <2>1, <2>2
  <2> QED  BY <2>3
<1>11. Below(6, p)
  <2>1. p \in Nat /\ q = 10 * (p)
    BY <1>2
  <2>2. Below(5, 10 * (p))
    BY <1>10, <2>1
  <2>3. Below(5 + 1, p)
    BY <1>4, <2>1, <2>2
  <2> QED  BY <2>3
<1>12. Below(7, 1000)
  <2>1. 1000 \in Nat /\ p = 10 * (1000)
    BY <1>2
  <2>2. Below(6, 10 * (1000))
    BY <1>11, <2>1
  <2>3. Below(6 + 1, 1000)
    BY <1>4, <2>1, <2>2
  <2> QED  BY <2>3
<1>13. Below(8, 100)
  <2>1. 100 \in Nat /\ 1000 = 10 * (100)
    BY <1>2
  <2>2. Below(7, 10 * (100))
    BY <1>12, <2>1
  <2>3. Below(7 + 1, 100)
    BY <1>4, <2>1, <2>2
  <2> QED  BY <2>3
<1>14. Below(9, 10)
  <2>1. 10 \in Nat /\ 100 = 10 * (10)
    BY <1>2
  <2>2. Below(8, 10 * (10))
    BY <1>13, <2>1
  <2>3. Below(8 + 1, 10)
    BY <1>4, <2>1, <2>2
  <2> QED  BY <2>3
<1>15. Below(10, 1)
  <2>1. 1 \in Nat /\ 10 = 10 * (1)
    BY <1>2
  <2>2. Below(9, 10 * (1))
    BY <1>14, <2>1
  <2>3. Below(9 + 1, 1)
    BY <1>4, <2>1, <2>2
  <2> QED  BY <2>3
<1>16. S[10] = 0
  BY <1>15 DEF Below
<1>17. T \subseteq Nat /\ T # {}
  BY <1>16
<1>18. Min(T) \in T
  <2> HIDE DEF T
  <2> QED  BY <1>17, LeastIs
<1> QED  BY <1>18 DEF Digits, S

(***************************************************************************)
(* Strings and their characters.                                           *)
(***************************************************************************)
Byte == 0 .. 255
Strings == Seq(Byte)

LEMMA AtIsByte ==
  ASSUME NEW s \in Strings, NEW i \in Nat
  PROVE  At(s, i) \in Byte /\ (At(s, i) # 0 => i < Len(s))
<1>1. Len(s) \in Nat /\ \A k \in 1 .. Len(s) : s[k] \in Byte
  BY LenProperties, ElementOfSeq DEF Strings
<1>2. i < Len(s) => i + 1 \in 1 .. Len(s)
  BY <1>1
<1> QED  BY <1>1, <1>2 DEF At, Byte

LEMMA AnnouncedRange == \A b \in Byte : Announced(b) \in 0 .. 6
BY DEF Byte, Announced

LEMMA WidthRange ==
  ASSUME NEW s \in Strings, NEW i \in Nat
  PROVE  /\ Width(s, i) \in 0 .. Announced(At(s, i))
         /\ Announced(At(s, i)) # 0 => Width(s, i) # 0
         /\ Width(s, i) \in 0 .. 6
<1> DEFINE n == Announced(At(s, i))
           T == {n} \cup {k \in 1 .. (n - 1) : At(s, i + k) \notin 128 .. 191}
<1>1. n \in 0 .. 6
  BY AtIsByte, AnnouncedRange
<1> HIDE DEF n
<1>2. CASE n = 0
  BY <1>2 DEF Width, Body, n
<1>3. CASE n # 0
  <2>1. T \subseteq 1 .. n /\ n \in T
    BY <1>1, <1>3
  <2>2. T \subseteq Nat /\ T # {}
    BY <2>1
  <2>3. Min(T) \in T
    <3> HIDE DEF T
    <3> QED  BY <2>2, LeastIs
  <2>4. Width(s, i) = Min(T)
    BY <1>3 DEF Width, Body, n
  <2> QED  BY <1>1, <1>3, <2>1, <2>3, <2>4 DEF n
<1> QED  BY <1>2, <1>3

LEMMA LeadRange ==
  ASSUME NEW n \in 1 .. 6, NEW b \in Nat
  PROVE  /\ b % LeadCodes[n] \in Nat
         /\ n = 1 => b % LeadCodes[n] < 128
         /\ n = 2 => b % LeadCodes[n] < 32
         /\ n = 3 => b % LeadCodes[n] < 16
         /\ n = 4 => b % LeadCodes[n] < 8
         /\ n = 5 => b % LeadCodes[n] < 4
         /\ n = 6 => b % LeadCodes[n] < 2
<1>1. CASE n = 1
  BY <1>1 DEF LeadCodes
<1>2. CASE n = 2
  BY <1>2 DEF LeadCodes
<1>3. CASE n = 3
  BY <1>3 DEF LeadCodes
<1>4. CASE n = 4
  BY <1>4 DEF LeadCodes
<1>5. CASE n = 5
  BY <1>5 DEF LeadCodes
<1>6. CASE n = 6
  BY <1>6 DEF LeadCodes
<1> QED  BY <1>1, <1>2, <1>3, <1>4, <1>5, <1>6

(* What the bytes of a character add to its code, one after the other.     *)
LEMMA UnicodeUnfolds ==
  ASSUME NEW s \in Strings, NEW i \in Nat, Width(s, i) # 0
  PROVE  \E f \in [Nat -> Nat] :
           /\ f[0] = At(s, i) % LeadCodes[Width(s, i)]
           /\ \A k \in Nat : k # 0 => f[k] = f[k - 1] * 64 + (At(s, i + k) % 64)
           /\ Unicode(s, i) = f[Width(s, i) - 1]
<1> DEFINE base == At(s, i) % LeadCodes[Width(s, i)]
           step == [p \in Nat \X Nat |-> p[2] * 64 + (At(s, i + p[1]) % 64)]
           Is(f) == f = [k \in Nat |-> IF k = 0 THEN base
                           ELSE f[k - 1] * 64 + (At(s, i + k) % 64)]
<1>1. base \in Nat
  <2> DEFINE w == Width(s, i)
             b == At(s, i)
  <2>1. w \in 1 .. 6
    BY WidthRange
  <2>2. b \in Byte
    BY AtIsByte
  <2>3. b \in Nat
    BY <2>2 DEF Byte
  <2> HIDE DEF w, b
  <2>4. b % LeadCodes[w] \in Nat
    BY <2>1, <2>3, LeadRange
  <2> QED  BY <2>4 DEF w, b
<1>2. ASSUME NEW k \in Nat, NEW c \in Nat
      PROVE  c * 64 + (At(s, i + k) % 64) \in Nat
  <2> DEFINE b == At(s, i + k)
  <2>1. i + k \in Nat
    OBVIOUS
  <2>2. b \in Byte
    BY <2>1, AtIsByte
  <2> HIDE DEF b
  <2>3. c * 64 + (b % 64) \in Nat
    BY <2>2 DEF Byte
  <2> QED  BY <2>3 DEF b
<1>3. step \in [Nat \X Nat -> Nat]
  BY <1>2
<1> HIDE DEF base
<1>4. PICK f \in [Nat -> Nat] : CountedRepetition(f, base, step)
  <2> HIDE DEF step
  <2> QED  BY <1>1, <1>3, CountedRepetitionExists, Zenon
<1>5. f[0] = base /\ \A k \in Nat : k # 0 => f[k] = f[k - 1] * 64 + (At(s, i + k) % 64)
  <2>1. ASSUME NEW k \in Nat, k # 0
        PROVE  f[k] = f[k - 1] * 64 + (At(s, i + k) % 64)
    <3>1. f[k - 1] \in Nat
      BY <1>4, <2>1
    <3>2. <<k, f[k - 1]>> \in Nat \X Nat
      BY <3>1
    <3>3. f[k] = step[<<k, f[k - 1]>>]
      BY <1>4, <2>1 DEF CountedRepetition
    <3> QED  BY <3>2, <3>3
  <2> QED  BY <1>4, <2>1 DEF CountedRepetition
<1>6. Is(f)
  <2>1. f = [k \in Nat |-> f[k]]
    BY <1>4
  <2> QED  BY <1>5, <2>1
<1> DEFINE G == CHOOSE g : Is(g)
<1>7. Is(G)
  <2> HIDE DEF Is
  <2> QED  BY <1>6
<1>8. Unicode(s, i) = G[Width(s, i) - 1]
  BY DEF Unicode, base
<1> HIDE DEF G
<1>9. G[0] = base /\ \A k \in Nat : k # 0 => G[k] = G[k - 1] * 64 + (At(s, i + k) % 64)
  BY <1>7
<1>10. G \in [Nat -> Nat]
  <2> DEFINE Fails == {k \in Nat : G[k] \notin Nat}
  <2>1. Fails = {}
    <3> SUFFICES ASSUME Fails # {} PROVE FALSE
      OBVIOUS
    <3>1. PICK m \in Fails : \A k \in Fails : m <= k
      <4>1. Fails \subseteq Nat
        OBVIOUS
      <4> HIDE DEF Fails
      <4> QED  BY <4>1, NatLeast
    <3>2. m # 0
      BY <1>1, <1>9, <3>1
    <3>3. m - 1 \in Nat /\ G[m - 1] \in Nat
      BY <3>1, <3>2
    <3>4. G[m] = G[m - 1] * 64 + (At(s, i + m) % 64)
      BY <1>9, <3>1, <3>2
    <3>5. G[m - 1] * 64 + (At(s, i + m) % 64) \in Nat
      BY <1>2, <3>1, <3>3
    <3> QED  BY <3>1, <3>4, <3>5
  <2> QED  BY <1>7, <2>1
<1> QED  BY <1>8, <1>9, <1>10 DEF base

LEMMA UnicodeIsCode ==
  ASSUME NEW s \in Strings, NEW i \in Nat, Width(s, i) # 0
  PROVE  Unicode(s, i) \in Code
<1> DEFINE w == Width(s, i)
           b == At(s, i)
           bit(k) == At(s, i + k) % 64
           u == Unicode(s, i)
<1>1. w \in 1 .. 6
  BY WidthRange
<1>2. b \in Nat
  <2>1. b \in Byte
    BY AtIsByte
  <2> QED  BY <2>1 DEF Byte
<1>3. ASSUME NEW k \in Nat
      PROVE  bit(k) \in 0 .. 63
  <2> DEFINE c == At(s, i + k)
  <2>1. i + k \in Nat
    OBVIOUS
  <2>2. c \in Byte
    BY <2>1, AtIsByte
  <2> HIDE DEF c
  <2>3. c % 64 \in 0 .. 63
    BY <2>2 DEF Byte
  <2> QED  BY <2>3 DEF c
<1>4. PICK f \in [Nat -> Nat] :
        /\ f[0] = b % LeadCodes[w]
        /\ \A k \in Nat : k # 0 => f[k] = f[k - 1] * 64 + bit(k)
        /\ u = f[w - 1]
  BY UnicodeUnfolds
<1> HIDE DEF w, b, bit, u
<1>5. /\ f[0] \in Nat /\ f[1] \in Nat /\ f[2] \in Nat /\ f[3] \in Nat
      /\ f[4] \in Nat /\ f[5] \in Nat
  BY <1>4
<1>6. /\ bit(1) \in 0 .. 63 /\ bit(2) \in 0 .. 63 /\ bit(3) \in 0 .. 63
      /\ bit(4) \in 0 .. 63 /\ bit(5) \in 0 .. 63
  BY <1>3
<1>7. /\ f[1] = f[0] * 64 + bit(1) /\ f[2] = f[1] * 64 + bit(2)
      /\ f[3] = f[2] * 64 + bit(3) /\ f[4] = f[3] * 64 + bit(4)
      /\ f[5] = f[4] * 64 + bit(5)
  <2>1. \A k \in {1, 2, 3, 4, 5} : f[k] = f[k - 1] * 64 + bit(k)
    BY <1>4
  <2> QED  BY <2>1
<1>8. /\ w = 1 => f[0] < 128
      /\ w = 2 => f[0] < 32
      /\ w = 3 => f[0] < 16
      /\ w = 4 => f[0] < 8
      /\ w = 5 => f[0] < 4
      /\ w = 6 => f[0] < 2
  BY <1>1, <1>2, <1>4, LeadRange
<1> DEFINE f0 == f[0]
           f1 == f[1]
           f2 == f[2]
           f3 == f[3]
           f4 == f[4]
           f5 == f[5]
<1>9. /\ f0 \in Nat /\ f1 \in Nat /\ f2 \in Nat /\ f3 \in Nat /\ f4 \in Nat /\ f5 \in Nat
      /\ f1 <= f0 * 64 + 63 /\ f2 <= f1 * 64 + 63 /\ f3 <= f2 * 64 + 63
      /\ f4 <= f3 * 64 + 63 /\ f5 <= f4 * 64 + 63
  BY <1>5, <1>6, <1>7
<1> HIDE DEF f0, f1, f2, f3, f4, f5
<1> DEFINE t == 4096
<1>10. ThreeBytes = 16 * t - 1 /\ t \in Nat
  BY DEF ThreeBytes
<1>11. t = 4096
  OBVIOUS
<1> HIDE DEF t
<1>12. /\ f0 < 128 => f0 <= INT_MAX
       /\ f0 < 32 => f1 <= INT_MAX
       /\ f0 < 16 => f2 <= INT_MAX
       /\ f0 < 8 => f3 <= INT_MAX
       /\ f0 < 4 => f4 <= INT_MAX
       /\ f0 < 2 => f5 <= INT_MAX
  BY <1>9, <1>10, <1>11, LastOfThree
<1>13. CASE w = 1
  <2>1. u = f0 /\ f0 < 128
    BY <1>4, <1>8, <1>13 DEF f0, f0
  <2> QED  BY <1>9, <1>12, <2>1, LastOfThree DEF u, Code
<1>14. CASE w = 2
  <2>1. u = f1 /\ f0 < 32
    BY <1>4, <1>8, <1>14 DEF f0, f1
  <2> QED  BY <1>9, <1>12, <2>1, LastOfThree DEF u, Code
<1>15. CASE w = 3
  <2>1. u = f2 /\ f0 < 16
    BY <1>4, <1>8, <1>15 DEF f0, f2
  <2> QED  BY <1>9, <1>12, <2>1, LastOfThree DEF u, Code
<1>16. CASE w = 4
  <2>1. u = f3 /\ f0 < 8
    BY <1>4, <1>8, <1>16 DEF f0, f3
  <2> QED  BY <1>9, <1>12, <2>1, LastOfThree DEF u, Code
<1>17. CASE w = 5
  <2>1. u = f4 /\ f0 < 4
    BY <1>4, <1>8, <1>17 DEF f0, f4
  <2> QED  BY <1>9, <1>12, <2>1, LastOfThree DEF u, Code
<1>18. CASE w = 6
  <2>1. u = f5 /\ f0 < 2
    BY <1>4, <1>8, <1>18 DEF f0, f5
  <2> QED  BY <1>9, <1>12, <2>1, LastOfThree DEF u, Code
<1> QED  BY <1>1, <1>13, <1>14, <1>15, <1>16, <1>17, <1>18

LEMMA SpreadTypes ==
  ASSUME NEW u \in Nat, NEW lead \in Nat, NEW codes \in {32, 16, 8, 4}, NEW k \in 1 .. 4,
         lead + codes <= 256
  PROVE  Spread(u, lead, codes, k) \in Strings /\ Len(Spread(u, lead, codes, k)) = k + 1
<1> DEFINE S == Shifted(u, 64)
           x == <<lead + (S[k] % codes)>>
           y == [j \in 1 .. k |-> 128 + (S[k - j] % 64)]
<1>1. S \in [Nat -> Nat]
  BY ShiftedUnfolds
<1> HIDE DEF S
<1>2. lead + (S[k] % codes) \in Byte
  <2>1. S[k] \in Nat
    BY <1>1
  <2>2. S[k] % codes \in 0 .. codes - 1
    <3>1. CASE codes = 32
      BY <2>1, <3>1
    <3>2. CASE codes = 16
      BY <2>1, <3>2
    <3>3. CASE codes = 8
      BY <2>1, <3>3
    <3>4. CASE codes = 4
      BY <2>1, <3>4
    <3> QED  BY <3>1, <3>2, <3>3, <3>4
  <2> QED  BY <2>2 DEF Byte
<1>3. \A j \in 1 .. k : 128 + (S[k - j] % 64) \in Byte
  <2> TAKE j \in 1 .. k
  <2>1. k - j \in Nat
    OBVIOUS
  <2>2. S[k - j] \in Nat
    BY <1>1, <2>1
  <2> QED  BY <2>2 DEF Byte
<1>4. x \in Seq(Byte) /\ Len(x) = 1
  BY <1>2
<1>5. y \in Seq(Byte) /\ Len(y) = k
  BY <1>3
<1> HIDE DEF x, y
<1>6. x \o y \in Seq(Byte) /\ Len(x \o y) = 1 + k
  BY <1>4, <1>5, ConcatProperties
<1> QED  BY <1>6 DEF Spread, Strings, S, x, y

LEMMA EncodeCases ==
  ASSUME NEW u \in Nat
  PROVE  /\ u < 128 => Encode(u) = <<u>>
         /\ u > 127 /\ u < 2048 => Encode(u) = Spread(u, 192, 32, 1)
         /\ u > 2047 /\ u <= ThreeBytes => Encode(u) = Spread(u, 224, 16, 2)
         /\ u > ThreeBytes /\ u <= FourBytes => Encode(u) = Spread(u, 240, 8, 3)
         /\ u > FourBytes => Encode(u) = Spread(u, 248, 4, 4)
<1> DEFINE F == FourBytes
           M == ThreeBytes
           e == Encode(u)
           e1 == <<u>>
           e2 == Spread(u, 192, 32, 1)
           e3 == Spread(u, 224, 16, 2)
           e4 == Spread(u, 240, 8, 3)
           e5 == Spread(u, 248, 4, 4)
           c1 == u \in 0 .. 127
           c2 == u \in 128 .. 2047
           c3 == u \in 2048 .. M
           c4 == u \in M + 1 .. F
           c5 == u > F
<1>1. M \in Nat /\ F \in Nat /\ F > M /\ M > 2047
  BY LastOfThree
<1>2. e = CASE c1 -> e1 [] c2 -> e2 [] c3 -> e3 [] c4 -> e4 [] c5 -> e5
  BY DEF Encode
<1> HIDE DEF e, e1, e2, e3, e4, e5, F, M
<1>3. /\ u < 128 => c1 /\ ~c2 /\ ~c3 /\ ~c4 /\ ~c5
      /\ u > 127 /\ u < 2048 => ~c1 /\ c2 /\ ~c3 /\ ~c4 /\ ~c5
      /\ u > 2047 /\ u <= M => ~c1 /\ ~c2 /\ c3 /\ ~c4 /\ ~c5
      /\ u > M /\ u <= F => ~c1 /\ ~c2 /\ ~c3 /\ c4 /\ ~c5
      /\ u > F => ~c1 /\ ~c2 /\ ~c3 /\ ~c4 /\ c5
  <2>1. ASSUME u < 128
        PROVE  c1 /\ ~c2 /\ ~c3 /\ ~c4 /\ ~c5
    BY <1>1, <2>1
  <2>2. ASSUME u > 127 /\ u < 2048
        PROVE  ~c1 /\ c2 /\ ~c3 /\ ~c4 /\ ~c5
    BY <1>1, <2>2
  <2>3. ASSUME u > 2047 /\ u <= M
        PROVE  ~c1 /\ ~c2 /\ c3 /\ ~c4 /\ ~c5
    BY <1>1, <2>3
  <2>4. ASSUME u > M /\ u <= F
        PROVE  ~c1 /\ ~c2 /\ ~c3 /\ c4 /\ ~c5
    BY <1>1, <2>4
  <2>5. ASSUME u > F
        PROVE  ~c1 /\ ~c2 /\ ~c3 /\ ~c4 /\ c5
    BY <1>1, <2>5
  <2> HIDE DEF c1, c2, c3, c4, c5
  <2> QED  BY <2>1, <2>2, <2>3, <2>4, <2>5
<1> HIDE DEF c1, c2, c3, c4, c5
<1>4. /\ c1 /\ ~c2 /\ ~c3 /\ ~c4 /\ ~c5 => e = e1
      /\ ~c1 /\ c2 /\ ~c3 /\ ~c4 /\ ~c5 => e = e2
      /\ ~c1 /\ ~c2 /\ c3 /\ ~c4 /\ ~c5 => e = e3
      /\ ~c1 /\ ~c2 /\ ~c3 /\ c4 /\ ~c5 => e = e4
      /\ ~c1 /\ ~c2 /\ ~c3 /\ ~c4 /\ c5 => e = e5
  BY <1>2, Zenon
<1>5. /\ u < 128 => e = e1
      /\ u > 127 /\ u < 2048 => e = e2
      /\ u > 2047 /\ u <= M => e = e3
      /\ u > M /\ u <= F => e = e4
      /\ u > F => e = e5
  BY <1>3, <1>4
<1> QED  BY <1>5 DEF e, e1, e2, e3, e4, e5, F, M

LEMMA EncodeTypes ==
  ASSUME NEW u \in Nat
  PROVE  Encode(u) \in Strings
<1>1. CASE u < 128
  <2>1. u \in Byte
    BY <1>1 DEF Byte
  <2>2. <<u>> \in Strings
    BY <2>1 DEF Strings
  <2> QED  BY <1>1, <2>2, EncodeCases
<1>2. CASE u > 127 /\ u < 2048
  <2>1. Spread(u, 192, 32, 1) \in Strings
    BY SpreadTypes
  <2> QED  BY <1>2, <2>1, EncodeCases
<1>3. CASE u > 2047 /\ u <= ThreeBytes
  <2>1. Spread(u, 224, 16, 2) \in Strings
    BY SpreadTypes
  <2> QED  BY <1>3, <2>1, EncodeCases
<1>4. CASE u > ThreeBytes /\ u <= FourBytes
  <2>1. Spread(u, 240, 8, 3) \in Strings
    BY SpreadTypes
  <2> QED  BY <1>4, <2>1, EncodeCases
<1>5. CASE u > FourBytes
  <2>1. Spread(u, 248, 4, 4) \in Strings
    BY SpreadTypes
  <2> QED  BY <1>5, <2>1, EncodeCases
<1>6. \/ u < 128
      \/ u > 127 /\ u < 2048
      \/ u > 2047 /\ u <= ThreeBytes
      \/ u > ThreeBytes /\ u <= FourBytes
      \/ u > FourBytes
  BY LastOfThree
<1> QED  BY <1>1, <1>2, <1>3, <1>4, <1>5, <1>6

LEMMA NcrTypes ==
  ASSUME NEW u \in Code
  PROVE  Ncr(u) \in Strings
<1> DEFINE S == Shifted(u, 10)
           n == Digits(u)
           x == <<Amp, Hash>>
           y == [i \in 1 .. n |-> 48 + (S[n - i] % 10)]
           z == <<Semicolon>>
<1>1. u \in Nat
  BY CodeBound
<1>2. S \in [Nat -> Nat] /\ n \in 1 .. 10
  BY <1>1, ShiftedUnfolds, DigitsEnd
<1> HIDE DEF S, n
<1>3. \A i \in 1 .. n : 48 + (S[n - i] % 10) \in Byte
  <2> TAKE i \in 1 .. n
  <2>1. n - i \in Nat
    BY <1>2
  <2>2. S[n - i] \in Nat
    BY <1>2, <2>1
  <2> QED  BY <2>2 DEF Byte
<1>4. x \in Seq(Byte) /\ z \in Seq(Byte)
  BY DEF Byte, Amp, Hash, Semicolon
<1>5. y \in Seq(Byte)
  BY <1>2, <1>3
<1>6. Ncr(u) = x \o y \o z
  BY DEF Ncr, Decimal, S, n
<1> HIDE DEF x, y, z
<1>7. x \o y \o z \in Seq(Byte)
  BY <1>4, <1>5, ConcatProperties
<1> QED  BY <1>6, <1>7 DEF Strings

(***************************************************************************)
(* Numeric character references.                                           *)
(***************************************************************************)
LEMMA FurtherType ==
  ASSUME NEW v \in Code \cup {-1}, NEW b \in Byte
  PROVE  Further(v, b) \in Code \cup {-1}
<1> DEFINE m == INT_MAX
           d == b - 48
<1>1. m \in Nat
  BY LastOfThree
<1>2. v \in (0 .. m) \cup {-1}
  BY DEF Code
<1> HIDE DEF m
<1>3. CASE b \in 48 .. 57 /\ v \in 0 .. ((m - d) \div 10)
  <2>1. d \in 0 .. 9 /\ b - 48 = d
    BY <1>3
  <2> HIDE DEF d
  <2>2. v \in Nat /\ v * 10 + d <= m
    BY <1>1, <1>3, <2>1
  <2>3. v * 10 + (b - 48) \in 0 .. m
    BY <1>1, <2>1, <2>2
  <2> QED  BY <1>3, <2>1, <2>3 DEF Further, m, Code
<1>4. CASE ~(b \in 48 .. 57 /\ v \in 0 .. ((m - d) \div 10))
  <2>1. Further(v, b) = -1
    BY <1>4 DEF Further, m
  <2> QED  BY <2>1
<1> QED  BY <1>3, <1>4

LEMMA AfterNcrIs ==
  ASSUME NEW s \in Strings, NEW i \in Nat
  PROVE  \/ AfterNcr(s, i) = -1
         \/ /\ AfterNcr(s, i) \in i + 1 .. Len(s)
            /\ At(s, AfterNcr(s, i) - 1) = Semicolon
            /\ \A j \in i .. AfterNcr(s, i) - 2 : At(s, j) # Semicolon
<1> DEFINE T == {j \in i .. (Len(s) - 1) : At(s, j) = Semicolon}
<1>1. AfterNcr(s, i) = IF T = {} THEN -1 ELSE Min(T) + 1
  BY DEF AfterNcr
<1>2. Len(s) \in Nat
  BY LenProperties DEF Strings
<1>3. CASE T = {}
  BY <1>1, <1>3
<1>4. CASE T # {}
  <2>1. T \subseteq Nat
    BY <1>2
  <2>2. Min(T) \in T /\ \A j \in T : Min(T) <= j
    <3> HIDE DEF T
    <3> QED  BY <1>4, <2>1, LeastIs
  <2>3. PICK m \in T : m = Min(T) /\ \A j \in T : m <= j
    BY <2>2
  <2>4. AfterNcr(s, i) = m + 1
    <3> HIDE DEF T
    <3> QED  BY <1>1, <1>4, <2>3
  <2>5. m \in Nat /\ m + 1 \in i + 1 .. Len(s) /\ At(s, m) = Semicolon
    BY <1>2, <2>3
  <2>6. \A j \in i .. m - 1 : At(s, j) # Semicolon
    BY <1>2, <2>3, <2>5
  <2>7. m + 1 - 1 = m /\ m + 1 - 2 = m - 1
    BY <2>5
  <2> QED  BY <2>4, <2>5, <2>6, <2>7
<1> QED  BY <1>3, <1>4

LEMMA NcrValueUnfolds ==
  ASSUME NEW s \in Strings, NEW i \in Nat, AfterNcr(s, i) # -1,
         At(s, i) = Amp, At(s, i + 1) = Hash
  PROVE  \E f \in [Nat -> Code \cup {-1}] :
           /\ f[0] = 0
           /\ \A k \in Nat : k # 0 => f[k] = Further(f[k - 1], At(s, i + 1 + k))
           /\ AfterNcr(s, i) - i - 3 \in Nat
           /\ NcrValue(s, i) = f[AfterNcr(s, i) - i - 3]
<1> DEFINE X == Code \cup {-1}
           step == [p \in Nat \X X |-> Further(p[2], At(s, i + 1 + p[1]))]
           Is(f) == f = [k \in Nat |-> IF k = 0 THEN 0
                           ELSE Further(f[k - 1], At(s, i + 1 + k))]
<1>1. 0 \in X
  BY LastOfThree DEF Code
<1>2. ASSUME NEW k \in Nat, NEW v \in X
      PROVE  Further(v, At(s, i + 1 + k)) \in X
  <2>1. i + 1 + k \in Nat
    OBVIOUS
  <2>2. At(s, i + 1 + k) \in Byte
    BY <2>1, AtIsByte
  <2> QED  BY <2>2, FurtherType
<1> HIDE DEF X
<1>3. step \in [Nat \X X -> X]
  BY <1>2
<1>4. PICK f \in [Nat -> X] : CountedRepetition(f, 0, step)
  <2> HIDE DEF step
  <2> QED  BY <1>1, <1>3, CountedRepetitionExists, Zenon
<1>5. f[0] = 0 /\ \A k \in Nat : k # 0 => f[k] = Further(f[k - 1], At(s, i + 1 + k))
  <2>1. ASSUME NEW k \in Nat, k # 0
        PROVE  f[k] = Further(f[k - 1], At(s, i + 1 + k))
    <3>1. f[k - 1] \in X
      BY <1>4, <2>1
    <3>2. <<k, f[k - 1]>> \in Nat \X X
      BY <3>1
    <3>3. f[k] = step[<<k, f[k - 1]>>]
      BY <1>4, <2>1 DEF CountedRepetition
    <3> QED  BY <3>2, <3>3
  <2> QED  BY <1>4, <2>1 DEF CountedRepetition
<1>6. Is(f)
  <2>1. f = [k \in Nat |-> f[k]]
    BY <1>4
  <2> QED  BY <1>5, <2>1
<1> DEFINE G == CHOOSE g : Is(g)
<1>7. Is(G)
  <2> HIDE DEF Is
  <2> QED  BY <1>6
<1>8. NcrValue(s, i) = G[AfterNcr(s, i) - i - 3]
  BY DEF NcrValue
<1> HIDE DEF G
<1>9. G[0] = 0 /\ \A k \in Nat : k # 0 => G[k] = Further(G[k - 1], At(s, i + 1 + k))
  BY <1>7
<1>10. G \in [Nat -> X]
  <2> DEFINE Fails == {k \in Nat : G[k] \notin X}
  <2>1. Fails = {}
    <3> SUFFICES ASSUME Fails # {} PROVE FALSE
      OBVIOUS
    <3>1. PICK m \in Fails : \A k \in Fails : m <= k
      <4>1. Fails \subseteq Nat
        OBVIOUS
      <4> HIDE DEF Fails
      <4> QED  BY <4>1, NatLeast
    <3>2. m # 0
      BY <1>1, <1>9, <3>1
    <3>3. m - 1 \in Nat /\ G[m - 1] \in X
      BY <3>1, <3>2
    <3>4. G[m] = Further(G[m - 1], At(s, i + 1 + m))
      BY <1>9, <3>1, <3>2
    <3>5. Further(G[m - 1], At(s, i + 1 + m)) \in X
      BY <1>2, <3>1, <3>3
    <3> QED  BY <3>1, <3>4, <3>5
  <2> QED  BY <1>7, <2>1
<1>11. AfterNcr(s, i) - i - 3 \in Nat
  <2> DEFINE e == AfterNcr(s, i)
  <2>1. e \in i + 1 .. Len(s) /\ At(s, e - 1) = Semicolon
    BY AfterNcrIs
  <2>2. Len(s) \in Nat
    BY LenProperties DEF Strings
  <2> HIDE DEF e
  <2>3. e - 1 # i /\ e - 1 # i + 1
    BY <2>1 DEF Semicolon, Amp, Hash
  <2>4. e - i - 3 \in Nat
    BY <2>1, <2>2, <2>3
  <2> QED  BY <2>4 DEF e
<1> QED  BY <1>8, <1>9, <1>10, <1>11 DEF X

LEMMA NcrValueType ==
  ASSUME NEW s \in Strings, NEW i \in Nat
  PROVE  NcrValue(s, i) \in Code \cup {-1}
<1>1. CASE At(s, i) = Amp /\ At(s, i + 1) = Hash /\ AfterNcr(s, i) # -1
  BY <1>1, NcrValueUnfolds
<1>2. CASE ~(At(s, i) = Amp /\ At(s, i + 1) = Hash /\ AfterNcr(s, i) # -1)
  BY <1>2 DEF NcrValue
<1> QED  BY <1>1, <1>2

-----------------------------------------------------------------------------
(* What a step of a conversion writes and where it goes on.                *)

LEMMA FromHexType ==
  ASSUME NEW b \in Byte
  PROVE  FromHex(b) \in Byte
<1> DEFINE c1 == b \in 97 .. 102
           c2 == b \in 65 .. 70
           e1 == b - 87
           e2 == b - 55
           e3 == (b - 48) % 256
           e == FromHex(b)
<1>1. e = CASE c1 -> e1 [] c2 -> e2 [] OTHER -> e3
  BY DEF FromHex
<1>2. ~(c1 /\ c2)
  OBVIOUS
<1>3. c1 => e1 \in Byte
  BY DEF Byte
<1>4. c2 => e2 \in Byte
  BY DEF Byte
<1>5. e3 \in Byte
  BY DEF Byte
<1> HIDE DEF c1, c2, e1, e2, e3, e
<1>6. e \in Byte
  <2>1. CASE c1
    BY <1>1, <1>2, <1>3, <2>1, Zenon
  <2>2. CASE c2
    BY <1>1, <1>2, <1>4, <2>2, Zenon
  <2>3. CASE ~c1 /\ ~c2
    BY <1>1, <1>5, <2>3, Zenon
  <2> QED  BY <2>1, <2>2, <2>3, Zenon
<1> QED  BY <1>6 DEF e

LEMMA OrType ==
  ASSUME NEW a \in Byte, NEW b \in Byte
  PROVE  Or(a, b) \in Byte
<1> DEFINE Bit(k) == IF (a \div k) % 2 = 1 \/ (b \div k) % 2 = 1 THEN k ELSE 0
<1>1. Or(a, b) = 256 * (a \div 256) + Bit(128) + Bit(64) + Bit(32) + Bit(16)
                   + Bit(8) + Bit(4) + Bit(2) + Bit(1)
  BY DEF Or
<1>2. a \div 256 = 0
  BY DEF Byte
<1>3. \A k \in Nat : Bit(k) \in 0 .. k
  OBVIOUS
<1> HIDE DEF Bit
<1>4. /\ Bit(128) \in 0 .. 128 /\ Bit(64) \in 0 .. 64 /\ Bit(32) \in 0 .. 32
      /\ Bit(16) \in 0 .. 16 /\ Bit(8) \in 0 .. 8 /\ Bit(4) \in 0 .. 4
      /\ Bit(2) \in 0 .. 2 /\ Bit(1) \in 0 .. 1
  BY <1>3
<1> DEFINE b8 == Bit(128)
           b7 == Bit(64)
           b6 == Bit(32)
           b5 == Bit(16)
           b4 == Bit(8)
           b3 == Bit(4)
           b2 == Bit(2)
           b1 == Bit(1)
           rest == 256 * (a \div 256)
<1>5. rest = 0
  BY <1>2
<1>6. Or(a, b) = rest + b8 + b7 + b6 + b5 + b4 + b3 + b2 + b1
  BY <1>1
<1>7. /\ b8 \in 0 .. 128 /\ b7 \in 0 .. 64 /\ b6 \in 0 .. 32 /\ b5 \in 0 .. 16
      /\ b4 \in 0 .. 8 /\ b3 \in 0 .. 4 /\ b2 \in 0 .. 2 /\ b1 \in 0 .. 1
  BY <1>4
<1> HIDE DEF b1, b2, b3, b4, b5, b6, b7, b8, rest
<1>8. rest + b8 + b7 + b6 + b5 + b4 + b3 + b2 + b1 \in 0 .. 255
  BY <1>5, <1>7
<1> QED  BY <1>6, <1>8 DEF Byte

LEMMA HexMergeType ==
  ASSUME NEW h \in Byte, NEW l \in Byte
  PROVE  HexMerge(h, l) \in Byte
<1>1. (h * 16) % 256 \in Byte
  BY DEF Byte
<1> QED  BY <1>1, OrType DEF HexMerge

LEMMA ToHexType ==
  ASSUME NEW d \in 0 .. 15
  PROVE  ToHex(d) \in Byte
BY DEF ToHex, Byte

LEMMA GbkWidthType ==
  ASSUME NEW s, NEW i
  PROVE  GbkWidth(s, i) \in Nat
<1> DEFINE c1 == At(s, i) < 128
           c2 == At(s, i) \in 129 .. 254 /\ At(s, i + 1) \in 64 .. 254
           g == GbkWidth(s, i)
<1>1. g = CASE c1 -> 1 [] c2 -> 2 [] OTHER -> 0
  BY DEF GbkWidth
<1>2. 0 \in Nat /\ 1 \in Nat /\ 2 \in Nat
  OBVIOUS
<1> HIDE DEF c1, c2, g
<1>3. g \in Nat
  BY <1>1, <1>2, Zenon
<1> QED  BY <1>3 DEF g

LEMMA MaxOfTwo ==
  ASSUME NEW a \in Int, NEW b \in Int
  PROVE  /\ Max({a, b}) \in {a, b} /\ Max({a, b}) >= a /\ Max({a, b}) >= b
BY DEF Max

LEMMA AfterNcrIsAhead ==
  ASSUME NEW s \in Strings, NEW i \in Nat, NcrValue(s, i) # -1
  PROVE  AfterNcr(s, i) \in Nat /\ AfterNcr(s, i) > i
<1>1. AfterNcr(s, i) # -1
  BY DEF NcrValue
<1>2. Len(s) \in Nat
  BY LenProperties DEF Strings
<1> QED  BY <1>1, <1>2, AfterNcrIs

LEMMA JoinedUnfolds ==
  ASSUME NEW S, S \subseteq Strings
  PROVE  \E f \in [Nat -> SUBSET Strings] :
           /\ f[0] = {<<>>}
           /\ \A n \in Nat :
                n # 0 => f[n] = f[n - 1] \cup {p[1] \o p[2] : p \in S \X f[n - 1]}
           /\ Joined(S) = f[Pieces]
<1> DEFINE X == SUBSET Strings
           More(B) == B \cup {p[1] \o p[2] : p \in S \X B}
           step == [B \in X |-> More(B)]
           Is(f) == f = [n \in Nat |-> IF n = 0 THEN {<<>>} ELSE More(f[n - 1])]
<1>1. {<<>>} \in X
  BY DEF Strings
<1>2. ASSUME NEW B \in X
      PROVE  More(B) \in X
  <2>1. ASSUME NEW a \in S, NEW b \in B
        PROVE  a \o b \in Strings
    <3>1. a \in Seq(Byte) /\ b \in Seq(Byte)
      BY DEF Strings
    <3> QED  BY <3>1, ConcatProperties DEF Strings
  <2>2. ASSUME NEW p \in S \X B
        PROVE  p[1] \o p[2] \in Strings
    BY <2>1
  <2>3. {p[1] \o p[2] : p \in S \X B} \subseteq Strings
    BY <2>2
  <2> QED  BY <2>3
<1> HIDE DEF More
<1>3. step \in [X -> X]
  BY <1>2
<1>4. PICK f \in [Nat -> X] : Repetition(f, {<<>>}, step)
  <2> HIDE DEF step, X
  <2> QED  BY <1>1, <1>3, RepetitionExists, Zenon
<1>5. f[0] = {<<>>} /\ \A n \in Nat : n # 0 => f[n] = More(f[n - 1])
  <2>1. ASSUME NEW n \in Nat, n # 0
        PROVE  f[n] = More(f[n - 1])
    <3>1. f[n - 1] \in X
      BY <1>4, <2>1
    <3>2. f[n] = step[f[n - 1]]
      BY <1>4, <2>1 DEF Repetition
    <3> HIDE DEF X
    <3> QED  BY <3>1, <3>2
  <2> QED  BY <1>4, <2>1 DEF Repetition
<1>6. Is(f)
  <2>1. f = [n \in Nat |-> f[n]]
    BY <1>4
  <2> QED  BY <1>5, <2>1
<1> DEFINE G == CHOOSE g : Is(g)
<1>7. Is(G)
  <2> HIDE DEF Is
  <2> QED  BY <1>6
<1>8. Joined(S) = G[Pieces]
  BY DEF Joined, More
<1> HIDE DEF G
<1>9. G[0] = {<<>>} /\ \A n \in Nat : n # 0 => G[n] = More(G[n - 1])
  BY <1>7
<1>10. G \in [Nat -> X]
  <2> DEFINE Fails == {n \in Nat : G[n] \notin X}
  <2>1. Fails = {}
    <3> SUFFICES ASSUME Fails # {} PROVE FALSE
      OBVIOUS
    <3>1. PICK m \in Fails : \A k \in Fails : m <= k
      <4>1. Fails \subseteq Nat
        OBVIOUS
      <4> HIDE DEF Fails
      <4> QED  BY <4>1, NatLeast
    <3> HIDE DEF X
    <3>2. m # 0
      BY <1>1, <1>9, <3>1
    <3>3. m - 1 \in Nat /\ G[m - 1] \in X
      BY <3>1, <3>2
    <3>4. G[m] = More(G[m - 1])
      BY <1>9, <3>1, <3>2
    <3>5. More(G[m - 1]) \in X
      BY <1>2, <3>3
    <3> QED  BY <3>1, <3>4, <3>5
  <2> QED  BY <1>7, <2>1
<1>11. \A n \in Nat :
         n # 0 => G[n] = G[n - 1] \cup {p[1] \o p[2] : p \in S \X G[n - 1]}
  BY <1>9, Zenon DEF More
<1> QED  BY <1>8, <1>9, <1>10, <1>11, Zenon

LEMMA SourceTypes ==
  ASSUME NEW f, NEW s \in Sources(f)
  PROVE  s \in Strings
<1> DEFINE S == Seq(1 .. 255)
<1>1. S \subseteq Strings
  <2>1. ASSUME NEW t \in Seq(1 .. 255)
        PROVE  t \in Seq(Byte)
    <3>1. \A i \in 1 .. Len(t) : t[i] \in 1 .. 255
      BY ElementOfSeq
    <3>2. \A i \in 1 .. Len(t) : t[i] \in Byte
      BY <3>1 DEF Byte
    <3> QED  BY <3>2, SeqDef
  <2> QED  BY <2>1 DEF Strings
<1> HIDE DEF S
<1>2. /\ Characters \cup Malformed \subseteq Strings
      /\ Ncrs \subseteq Strings /\ Urls \subseteq Strings
  BY <1>1, Utf8Assumption DEF S
<1>3. Texts \subseteq Strings
  <2>1. PICK g \in [Nat -> SUBSET Strings] : Texts = g[Pieces]
    BY <1>2, JoinedUnfolds, Zenon DEF Texts
  <2> QED  BY <2>1, Utf8Assumption
<1> DEFINE c1 == f \in DOMAIN Back
           c2 == f = "from_ncr"
           c3 == f = "from_url"
           c4 == f = "code_type"
           c5 == Texts \cup Ncrs
           Z == Sources(f)
<1>4. Z = CASE c1 -> Texts [] c2 -> Ncrs [] c3 -> Urls [] c4 -> c5 [] OTHER -> {}
  BY DEF Sources
<1>5. c5 \subseteq Strings /\ {} \subseteq Strings
  BY <1>2, <1>3
<1>6. (c1 => ~c2 /\ ~c3 /\ ~c4) /\ (c2 => ~c3 /\ ~c4) /\ (c3 => ~c4)
  BY DEF Back
<1> HIDE DEF c1, c2, c3, c4, c5, Z
<1>7. Z \subseteq Strings
  <2>1. CASE c1
    BY <1>3, <1>4, <1>6, <2>1, Zenon
  <2>2. CASE c2
    BY <1>2, <1>4, <1>6, <2>2, Zenon
  <2>3. CASE c3
    BY <1>2, <1>4, <1>6, <2>3, Zenon
  <2>4. CASE c4
    BY <1>4, <1>5, <1>6, <2>4, Zenon
  <2>5. CASE ~c1 /\ ~c2 /\ ~c3 /\ ~c4
    BY <1>4, <1>5, <2>5, Zenon
  <2> QED  BY <2>1, <2>2, <2>3, <2>4, <2>5, Zenon
<1> QED  BY <1>7 DEF Z

-----------------------------------------------------------------------------
(* A step of a conversion, whichever it is: it returns, moves its cursor or *)
(* writes bytes there is room for.                                          *)

Ends == \E r \in Int : r >= -3 /\ Return(r)

Moves == \E n \in Nat : Skip(n)

\* The bytes written, by operation: to_url, with its terminating zero, apart
Fitting(n, next) ==
  /\ op \in {"to_ncr", "from_ncr", "from_ucs"} => Len(out) + n <= len
  /\ op = "to_ucs" => n = 2 /\ Len(out) + 1 <= len
  /\ op = "from_url" => n = 1 /\ at < Len(src) /\ next > at
  /\ op \in Operations \ {"to_url", "code_type"}

Writes ==
  \E bytes \in Strings, next \in Nat : Fitting(Len(bytes), next) /\ Write(bytes, next)

WritesEscape ==
  /\ op = "to_url" /\ Len(out) + 3 <= len
  /\ \E bytes \in Strings :
       Len(bytes) = 3 /\ out' = out \o bytes /\ Touch(Len(out') + 1)
  /\ at' = at + 1 /\ UNCHANGED <<phase, ret>>

Asking == phase \in {"gbk", "ncr", "utf8"} /\ \E p \in {"ncr", "utf8", "write"} : Asks(op, p)

Same == UNCHANGED <<op, text, src, len>>

LEMMA Returning ==
  ASSUME NEW r \in Int, r >= -3, Return(r)
  PROVE  Ends
BY DEF Ends

LEMMA LengthType ==
  ASSUME NEW s \in Strings
  PROVE  Len(s) \in Nat
BY LenProperties DEF Strings

LEMMA ToNcrSteps ==
  ASSUME src \in Strings, out \in Strings, at \in Nat, len \in Nat, ToNcr
  PROVE  op = "to_ncr" /\ Same /\ (Ends \/ Writes)
<1> DEFINE c1 == AtEnd
           c2 == ~AtEnd /\ Width(src, at) = 0
           ncr == Ncr(Unicode(src, at))
           long == Len(out) + Len(ncr) >= len
           next == at + Width(src, at)
           w == Write(ncr, next)
           e3 == IF long THEN Return(-3) ELSE w
<1>1. Calls("to_ncr") /\ CASE c1 -> Return(Len(out)) [] c2 -> Return(-2) [] OTHER -> e3
  BY DEF ToNcr
<1>2. op = "to_ncr" /\ Same
  BY <1>1 DEF Calls, Same
<1>3. Return(Len(out)) => Ends
  <2>1. Len(out) \in Int /\ Len(out) >= -3
    BY LengthType
  <2> QED  BY <2>1, Returning
<1>4. (Return(-2) => Ends) /\ (Return(-3) => Ends)
  BY Returning
<1>5. c1 \/ c2 \/ Width(src, at) # 0
  OBVIOUS
<1>6. ASSUME Width(src, at) # 0, ~long, w
      PROVE  Writes
  <2>1. Unicode(src, at) \in Code
    BY <1>6, UnicodeIsCode
  <2>2. ncr \in Strings
    BY <2>1, NcrTypes
  <2>3. Width(src, at) \in Nat
    BY WidthRange
  <2>4. next \in Nat
    BY <2>3
  <2>5. Fitting(Len(ncr), next)
    BY <1>2, <1>6, <2>2, LengthType DEF Fitting, Operations, Back
  <2> HIDE DEF ncr, next
  <2> QED  BY <1>6, <2>2, <2>4, <2>5 DEF Writes
<1> HIDE DEF c1, c2, long, w, e3
<1>7. c1 => Return(Len(out)) \/ c2
  BY <1>1, Zenon
<1>8. c2 => Return(-2) \/ c1
  BY <1>1, Zenon
<1>9. ~c1 /\ ~c2 => e3
  BY <1>1, Zenon
<1>10. e3 => Return(-3) \/ (~long /\ w)
  BY Zenon DEF e3
<1>11. ~(c1 /\ c2)
  BY DEF c1, c2
<1>12. Ends \/ Writes
  BY <1>3, <1>4, <1>5, <1>6, <1>7, <1>8, <1>9, <1>10, <1>11, Zenon
<1> QED  BY <1>2, <1>12

LEMMA FromNcrSteps ==
  ASSUME src \in Strings, out \in Strings, at \in Nat, len \in Nat, FromNcr
  PROVE  op = "from_ncr" /\ Same /\ (Ends \/ Writes)
<1> DEFINE u == NcrValue(src, at)
           bytes == Encode(u)
           next == AfterNcr(src, at)
           long == Len(out) + Len(bytes) > len
           c1 == u = -1
           c2 == u # -1 /\ long
           w == Write(bytes, next)
           Step(v) == CASE v = -1 -> Return(-2)
                        [] v # -1 /\ Len(out) + Len(Encode(v)) > len -> Return(-3)
                        [] OTHER -> Write(Encode(v), AfterNcr(src, at))
<1>1. /\ Calls("from_ncr")
      /\ Return(Len(out)) \/ \E v \in {NcrValue(src, at)} : Step(v)
  BY Zenon DEF FromNcr
<1>2. op = "from_ncr" /\ Same
  BY <1>1 DEF Calls, Same
<1>3. Return(Len(out)) => Ends
  <2>1. Len(out) \in Int /\ Len(out) >= -3
    BY LengthType
  <2> QED  BY <2>1, Returning
<1>4. (Return(-2) => Ends) /\ (Return(-3) => Ends)
  BY Returning
<1>5. ASSUME u # -1, ~long, w
      PROVE  Writes
  <2>1. u \in Code
    BY <1>5, NcrValueType
  <2>2. bytes \in Strings
    BY <2>1, CodeBound, EncodeTypes
  <2>3. next \in Nat
    BY <1>5, AfterNcrIsAhead
  <2>4. Fitting(Len(bytes), next)
    BY <1>2, <1>5, <2>2, LengthType DEF Fitting, Operations, Back
  <2> HIDE DEF bytes, next
  <2> QED  BY <1>5, <2>2, <2>3, <2>4 DEF Writes
<1>6. (\E v \in {NcrValue(src, at)} : Step(v)) =>
        CASE c1 -> Return(-2) [] c2 -> Return(-3) [] OTHER -> w
  BY Zenon
<1>7. ~(c1 /\ c2) /\ (~c1 /\ ~c2 => u # -1 /\ ~long)
  BY Zenon
<1> HIDE DEF c1, c2, w, Step
<1>8. Ends \/ Writes
  BY <1>1, <1>3, <1>4, <1>5, <1>6, <1>7, Zenon
<1> QED  BY <1>2, <1>8

LEMMA ToUrlSteps ==
  ASSUME src \in Strings, out \in Strings, at \in Nat, len \in Nat, ToUrl
  PROVE  op = "to_url" /\ Same /\ (Ends \/ WritesEscape)
<1> DEFINE c1 == AtEnd
           room == Len(out) + 3 <= len
           c2 == ~AtEnd /\ Len(out) + 3 > len
           bytes == <<Percent, ToHex(At(src, at) \div 16), ToHex(At(src, at) % 16)>>
           w == /\ out' = out \o bytes
                /\ Touch(Len(out') + 1) /\ at' = at + 1
                /\ UNCHANGED <<phase, ret>>
<1>1. /\ Calls("to_url")
      /\ CASE c1 -> Return(Len(out)) [] c2 -> Return(-2) [] OTHER -> w
  BY Zenon DEF ToUrl
<1>2. op = "to_url" /\ Same
  BY <1>1 DEF Calls, Same
<1>3. Return(Len(out)) => Ends
  <2>1. Len(out) \in Int /\ Len(out) >= -3
    BY LengthType
  <2> QED  BY <2>1, Returning
<1>4. Return(-2) => Ends
  BY Returning
<1>5. ~(c1 /\ c2) /\ (~c1 /\ ~c2 => room)
  BY LengthType
<1>6. ASSUME room, w
      PROVE  WritesEscape
  <2>1. At(src, at) \in Byte
    BY AtIsByte
  <2>2. At(src, at) \div 16 \in 0 .. 15 /\ At(src, at) % 16 \in 0 .. 15
    BY <2>1 DEF Byte
  <2>3. ToHex(At(src, at) \div 16) \in Byte /\ ToHex(At(src, at) % 16) \in Byte
    BY <2>2, ToHexType
  <2>4. bytes \in Strings /\ Len(bytes) = 3
    BY <2>3 DEF Strings, Byte, Percent
  <2> HIDE DEF bytes
  <2> QED  BY <1>2, <1>6, <2>4 DEF WritesEscape
<1> HIDE DEF c1, c2, room, w
<1>7. Ends \/ WritesEscape
  BY <1>1, <1>3, <1>4, <1>5, <1>6, Zenon
<1> QED  BY <1>2, <1>7

LEMMA FromUrlSteps ==
  ASSUME src \in Strings, out \in Strings, at \in Nat, len \in Nat, FromUrl
  PROVE  op = "from_url" /\ Same /\ (Ends \/ Moves \/ Writes)
<1> DEFINE c1 == at >= Len(src)
           c2 == at < Len(src) /\ At(src, at) # Percent
           c3 == at < Len(src) /\ At(src, at) = Percent /\ Len(out) < len
           e2 == Write(<<At(src, at)>>, at + 1)
           lows == IF at + 2 <= Len(src) THEN {At(src, at + 2)} ELSE Behind
           e3 == \E low \in lows :
                   Write(<<HexMerge(FromHex(At(src, at + 1)), FromHex(low))>>, at + 3)
<1>1. /\ Calls("from_url")
      /\ CASE c1 -> Return(1) [] c2 -> e2 [] c3 -> e3 [] OTHER -> Skip(2)
  BY Zenon DEF FromUrl
<1>2. op = "from_url" /\ Same
  BY <1>1 DEF Calls, Same
<1>3. ASSUME NEW bytes \in Strings, NEW next \in Nat, Write(bytes, next),
             Len(bytes) = 1, at < Len(src), next > at
      PROVE  Writes
  <2>1. Fitting(Len(bytes), next)
    BY <1>2, <1>3 DEF Fitting, Operations, Back
  <2> QED  BY <1>3, <2>1 DEF Writes
<1>4. ASSUME NEW b \in Byte
      PROVE  <<b>> \in Strings /\ Len(<<b>>) = 1
  BY DEF Strings
<1>5. Return(1) => Ends
  BY Returning
<1>6. Skip(2) => Moves
  BY DEF Moves
<1>7. ASSUME c2, e2
      PROVE  Writes
  <2>1. At(src, at) \in Byte /\ at + 1 \in Nat /\ at + 1 > at
    BY AtIsByte
  <2> QED  BY <1>3, <1>4, <1>7, <2>1
<1>8. ASSUME c3, e3
      PROVE  Writes
  <2>1. PICK low \in lows :
          Write(<<HexMerge(FromHex(At(src, at + 1)), FromHex(low))>>, at + 3)
    BY <1>8
  <2>2. at + 1 \in Nat /\ at + 2 \in Nat /\ at + 3 \in Nat /\ at + 3 > at
    OBVIOUS
  <2>3. At(src, at + 1) \in Byte /\ At(src, at + 2) \in Byte
    BY <2>2, AtIsByte
  <2>4. 0 \in Byte /\ 52 \in Byte
    BY DEF Byte
  <2>5. low \in Byte
    BY <2>3, <2>4 DEF Behind
  <2>6. HexMerge(FromHex(At(src, at + 1)), FromHex(low)) \in Byte
    BY <2>3, <2>5, FromHexType, HexMergeType
  <2> QED  BY <1>3, <1>4, <1>8, <2>1, <2>2, <2>6
<1>9. (c1 => ~c2 /\ ~c3) /\ (c2 => ~c3)
  BY LengthType
<1> HIDE DEF c1, c2, c3, e2, e3
<1>10. Ends \/ Moves \/ Writes
  <2>1. CASE c1
    BY <1>1, <1>5, <1>9, <2>1, Zenon
  <2>2. CASE c2
    BY <1>1, <1>7, <1>9, <2>2, Zenon
  <2>3. CASE c3
    BY <1>1, <1>8, <1>9, <2>3, Zenon
  <2>4. CASE ~c1 /\ ~c2 /\ ~c3
    BY <1>1, <1>6, <2>4, Zenon
  <2> QED  BY <2>1, <2>2, <2>3, <2>4, Zenon
<1> QED  BY <1>2, <1>10

LEMMA ToUcsSteps ==
  ASSUME src \in Strings, out \in Strings, at \in Nat, len \in Nat, ToUcs
  PROVE  op = "to_ucs" /\ Same /\ (Ends \/ Writes)
<1> DEFINE wide == Width(src, at)
           c1 == AtEnd
           c2 == ~AtEnd /\ (wide = 0 \/ Len(out) + wide > len)
           u == Unicode(src, at)
           bytes == <<u % 256, (u \div 256) % 256>>
           next == at + wide
           w == Write(bytes, next)
<1>1. /\ Calls("to_ucs")
      /\ CASE c1 -> Return(Len(out)) [] c2 -> Return(-2) [] OTHER -> w
  BY Zenon DEF ToUcs
<1>2. op = "to_ucs" /\ Same
  BY <1>1 DEF Calls, Same
<1>3. Return(Len(out)) => Ends
  <2>1. Len(out) \in Int /\ Len(out) >= -3
    BY LengthType
  <2> QED  BY <2>1, Returning
<1>4. Return(-2) => Ends
  BY Returning
<1>5. wide \in Nat
  BY WidthRange
<1>6. ~(c1 /\ c2) /\ (~c1 /\ ~c2 => wide # 0 /\ ~(Len(out) + wide > len))
  OBVIOUS
<1>7. ASSUME wide # 0, ~(Len(out) + wide > len), w
      PROVE  Writes
  <2>1. u \in Nat
    BY <1>7, UnicodeIsCode, CodeBound
  <2> HIDE DEF u
  <2>2. u % 256 \in Byte /\ (u \div 256) % 256 \in Byte
    BY <2>1 DEF Byte
  <2>3. bytes \in Strings /\ Len(bytes) = 2
    BY <2>2 DEF Strings
  <2> HIDE DEF wide
  <2>4. next \in Nat /\ Len(out) + 1 <= len
    BY <1>5, <1>7, LengthType
  <2>5. Fitting(Len(bytes), next)
    BY <1>2, <2>3, <2>4 DEF Fitting, Operations, Back
  <2> HIDE DEF bytes, next
  <2> QED  BY <1>7, <2>3, <2>4, <2>5 DEF Writes
<1> HIDE DEF c1, c2, w, wide
<1>8. Ends \/ Writes
  BY <1>1, <1>3, <1>4, <1>6, <1>7, Zenon
<1> QED  BY <1>2, <1>8

LEMMA FromUcsSteps ==
  ASSUME src \in Strings, out \in Strings, at \in Nat, len \in Nat, FromUcs
  PROVE  op = "from_ucs" /\ Same /\ (Ends \/ Writes)
<1> DEFINE bytes == Encode(At(src, at) + 256 * At(src, at + 1))
           next == at + 2
<1>1. /\ Calls("from_ucs")
      /\ \/ Return(Len(out)) \/ Return(-3)
         \/ ~(Len(out) + Len(bytes) > len) /\ Write(bytes, next)
  BY Zenon DEF FromUcs
<1>2. op = "from_ucs" /\ Same
  BY <1>1 DEF Calls, Same
<1>3. Return(Len(out)) => Ends
  <2>1. Len(out) \in Int /\ Len(out) >= -3
    BY LengthType
  <2> QED  BY <2>1, Returning
<1>4. Return(-3) => Ends
  BY Returning
<1>5. bytes \in Strings
  <2>1. at + 1 \in Nat
    OBVIOUS
  <2>2. At(src, at) \in Byte /\ At(src, at + 1) \in Byte
    BY <2>1, AtIsByte
  <2>3. ASSUME NEW x \in Byte, NEW y \in Byte
        PROVE  x + 256 * y \in Nat
    BY DEF Byte
  <2>4. At(src, at) + 256 * At(src, at + 1) \in Nat
    BY <2>2, <2>3, Zenon
  <2> QED  BY <2>4, EncodeTypes
<1> HIDE DEF bytes
<1>6. ASSUME ~(Len(out) + Len(bytes) > len), Write(bytes, next)
      PROVE  Writes
  <2>1. Fitting(Len(bytes), next)
    BY <1>2, <1>5, <1>6, LengthType DEF Fitting, Operations, Back
  <2>2. next \in Nat
    OBVIOUS
  <2> HIDE DEF next
  <2> QED  BY <1>5, <1>6, <2>1, <2>2 DEF Writes
<1>7. Ends \/ Writes
  BY <1>1, <1>3, <1>4, <1>6, Zenon
<1> QED  BY <1>2, <1>7

LEMMA IsGbkSteps ==
  ASSUME IsGbk
  PROVE  Same /\ (Ends \/ Moves \/ Asking)
<1> DEFINE wide == GbkWidth(src, at)
<1>1. /\ InPhase("gbk")
      /\ Return(CODE_GBK) \/ Asks(op, "ncr") \/ Skip(wide)
  BY Zenon DEF IsGbk
<1>2. CODE_GBK \in Int /\ CODE_GBK >= -3
  BY DEF CODE_GBK
<1>3. Return(CODE_GBK) => Ends
  BY <1>2, Returning
<1>4. wide \in Nat
  BY GbkWidthType
<1> HIDE DEF wide
<1>5. Skip(wide) => Moves
  BY <1>4 DEF Moves
<1>6. Asks(op, "ncr") => Asking
  BY <1>1 DEF InPhase, Asking
<1> QED  BY <1>1, <1>3, <1>5, <1>6 DEF InPhase, Same

LEMMA IsNcrSteps ==
  ASSUME src \in Strings, at \in Nat, IsNcr
  PROVE  Same /\ (Ends \/ Moves \/ Asking)
<1> DEFINE n == AfterNcr(src, at) - at
           c1 == AtEnd
           c2 == ~AtEnd /\ NcrValue(src, at) = -1
           e == CASE c1 -> Return(CODE_NCR) [] c2 -> Asks(op, "utf8") [] OTHER -> Skip(n)
<1>1. InPhase("ncr") /\ e
  BY DEF IsNcr
<1>2. CODE_NCR \in Int /\ CODE_NCR >= -3
  BY DEF CODE_NCR
<1>3. Return(CODE_NCR) => Ends
  BY <1>2, Returning
<1>4. ASSUME NcrValue(src, at) # -1, Skip(n)
      PROVE  Moves
  <2>1. n \in Nat
    BY <1>4, AfterNcrIsAhead
  <2> HIDE DEF n
  <2> QED  BY <1>4, <2>1 DEF Moves
<1>5. Asks(op, "utf8") => Asking
  BY <1>1 DEF InPhase, Asking
<1>6. ~(c1 /\ c2) /\ (~c1 /\ ~c2 => NcrValue(src, at) # -1)
  OBVIOUS
<1>7. Same
  BY <1>1 DEF InPhase, Same
<1> HIDE DEF c1, c2, n
<1>8. Ends \/ Moves \/ Asking
  BY <1>1, <1>3, <1>4, <1>5, <1>6, Zenon
<1> QED  BY <1>7, <1>8

LEMMA IsUtf8Steps ==
  ASSUME src \in Strings, at \in Nat, IsUtf8
  PROVE  Same /\ (Ends \/ Moves \/ Asking)
<1> DEFINE n == Width(src, at)
           r == IF op = "to_url" THEN -1 ELSE CODE_UNKWON
<1>1. /\ InPhase("utf8")
      /\ Return(CODE_UTF8) \/ Asks(op, "write") \/ Return(r) \/ Skip(n)
  BY Zenon DEF IsUtf8
<1>2. CODE_UTF8 \in Int /\ CODE_UTF8 >= -3 /\ r \in Int /\ r >= -3
  BY DEF CODE_UTF8, CODE_UNKWON
<1> HIDE DEF r
<1>3. (Return(CODE_UTF8) => Ends) /\ (Return(r) => Ends)
  BY <1>2, Returning
<1>4. n \in Nat
  BY WidthRange
<1> HIDE DEF n
<1>5. Skip(n) => Moves
  BY <1>4 DEF Moves
<1>6. Asks(op, "write") => Asking
  BY <1>1 DEF InPhase, Asking
<1> QED  BY <1>1, <1>3, <1>5, <1>6 DEF InPhase, Same

-----------------------------------------------------------------------------
(* The invariant: the types, and how much of its buffer a call used.       *)

UtfTypes ==
  /\ op \in Operations /\ text \in Strings /\ src \in Strings /\ out \in Strings
  /\ at \in Nat /\ high \in Nat /\ len \in Nat /\ len \in Lengths \cup {0}
  /\ phase \in {"gbk", "ncr", "utf8", "write", "done"}
  /\ ret \in Int /\ ret >= -3

Spare == IF op = "to_url" THEN 1 ELSE IF op = "to_ucs" THEN len % 2 ELSE 0

BufferUse ==
  /\ op # "from_url" => high <= len + Spare
  /\ op = "from_url" => /\ phase \in {"write", "done"}
                        /\ Len(out) <= at /\ Len(out) <= Len(src) /\ high <= Len(src)
  /\ op \in Operations \ {"from_url", "to_ucs"} => Len(out) <= len
  /\ op = "to_ucs" => Len(out) <= len + (len % 2) /\ Len(out) % 2 = 0

UtfInv == UtfTypes /\ BufferUse

LEMMA ConversionStarts == UtfInit => UtfInv
<1> SUFFICES ASSUME UtfInit PROVE UtfInv
  OBVIOUS
<1>1. text \in Strings
  BY SourceTypes DEF UtfInit
<1>2. len \in Nat /\ len \in Lengths \cup {0}
  <2> DEFINE L == IF op = "code_type" THEN {0} ELSE Lengths
  <2>1. L \subseteq Lengths \cup {0} /\ Lengths \subseteq Nat
    BY Utf8Assumption
  <2>2. len \in L
    BY DEF UtfInit
  <2> HIDE DEF L
  <2> QED  BY <2>1, <2>2
<1>3. <<>> \in Strings /\ Len(<<>>) = 0
  BY DEF Strings
<1>4. phase \in {"gbk", "utf8", "write"}
  <2>1. FirstPhase(op) \in {"gbk", "utf8", "write"}
    <3> DEFINE c1 == op = "code_type"
               c2 == op = "to_url"
               p == FirstPhase(op)
    <3>1. p = CASE c1 -> "gbk" [] c2 -> "utf8" [] OTHER -> "write"
      BY DEF FirstPhase
    <3>2. ~(c1 /\ c2)
      OBVIOUS
    <3> HIDE DEF c1, c2, p
    <3>3. p = "gbk" \/ p = "utf8" \/ p = "write"
      <4>1. CASE c1
        BY <3>1, <3>2, <4>1, Zenon
      <4>2. CASE c2
        BY <3>1, <3>2, <4>2, Zenon
      <4>3. CASE ~c1 /\ ~c2
        BY <3>1, <4>3, Zenon
      <4> QED  BY <4>1, <4>2, <4>3
    <3> QED  BY <3>3 DEF p
  <2> QED  BY <2>1 DEF UtfInit
<1>5. UtfTypes
  BY <1>1, <1>2, <1>3, <1>4 DEF UtfTypes, UtfInit
<1>6. Spare \in Nat
  BY <1>2 DEF Spare
<1>7. op = "from_url" => phase = "write" /\ Len(src) \in Nat
  BY <1>1, LengthType DEF UtfInit, FirstPhase
<1>8. BufferUse
  BY <1>2, <1>3, <1>6, <1>7 DEF BufferUse, UtfInit
<1> QED  BY <1>5, <1>8 DEF UtfInv

LEMMA OperationNames ==
  Operations = {"code_type", "to_ncr", "to_url", "to_ucs",
                "from_ncr", "from_url", "from_ucs"}
<1>1. DOMAIN Back = {"to_ncr", "to_url", "to_ucs"}
  BY DEF Back
<1>2. {Back[f] : f \in DOMAIN Back} = {"from_ncr", "from_url", "from_ucs"}
  BY <1>1 DEF Back
<1> QED  BY <1>1, <1>2 DEF Operations

LEMMA SpareType ==
  ASSUME UtfTypes
  PROVE  Spare \in 0 .. 1
BY DEF UtfTypes, Spare

LEMMA EndsKeep ==
  ASSUME UtfInv, Same, Ends \/ Moves \/ Asking
  PROVE  UtfInv'
<1>1. UNCHANGED <<op, text, src, len, out, high>>
  BY DEF Same, Ends, Moves, Asking, Return, Skip, Asks
<1>2. BufferUse'
  <2>1. op = "from_url" => /\ phase' \in {"write", "done"} /\ at' \in Nat /\ at' >= at
                           /\ at \in Nat /\ Len(out) \in Nat
    BY LengthType DEF UtfInv, UtfTypes, BufferUse, Ends, Moves, Asking, Return, Skip
  <2> QED  BY <1>1, <2>1 DEF UtfInv, BufferUse, Spare
<1>3. at' \in Nat
  BY DEF UtfInv, UtfTypes, Ends, Moves, Asking, Return, Skip, Asks
<1>4. /\ phase' \in {"gbk", "ncr", "utf8", "write", "done"}
      /\ ret' \in Int /\ ret' >= -3
  BY DEF UtfInv, UtfTypes, Ends, Moves, Asking, Return, Skip, Asks
<1>5. UtfTypes'
  BY <1>1, <1>3, <1>4 DEF UtfInv, UtfTypes
<1> QED  BY <1>2, <1>5 DEF UtfInv

LEMMA TouchType ==
  ASSUME NEW n \in Nat, high \in Nat, Touch(n)
  PROVE  high' \in Nat /\ (high' = high \/ high' = n)
<1>1. high' = Max({high, n})
  BY DEF Touch
<1>2. Max({high, n}) \in {high, n}
  BY MaxOfTwo
<1> QED  BY <1>1, <1>2

LEMMA WritesKeep ==
  ASSUME UtfInv, Same, Writes
  PROVE  UtfInv'
<1>1. PICK bytes \in Strings, next \in Nat :
        Fitting(Len(bytes), next) /\ Write(bytes, next)
  BY DEF Writes
<1>2. out \in Strings /\ high \in Nat /\ len \in Nat /\ op \in Operations
  BY DEF UtfInv, UtfTypes
<1>3. out' = out \o bytes /\ Touch(Len(out')) /\ at' = next /\ UNCHANGED <<phase, ret>>
  BY <1>1 DEF Write
<1>4. out' \in Strings /\ Len(out') = Len(out) + Len(bytes)
  BY <1>2, <1>3, ConcatProperties DEF Strings
<1> DEFINE m == Len(out)
           n == Len(bytes)
           m2 == Len(out')
<1>5. m \in Nat /\ n \in Nat /\ m2 \in Nat /\ m2 = m + n
  BY <1>2, <1>4, LengthType
<1>6. high' \in Nat /\ (high' = high \/ high' = m2)
  BY <1>2, <1>3, <1>5, TouchType
<1>7. UtfTypes'
  BY <1>3, <1>4, <1>6 DEF UtfInv, UtfTypes, Same
<1>8. UNCHANGED <<op, len>> /\ Spare' = Spare /\ Spare \in 0 .. 1
  BY SpareType DEF Same, Spare, UtfInv
<1>9. /\ op \in {"to_ncr", "from_ncr", "from_ucs"} => m + n <= len
      /\ op = "to_ucs" => n = 2 /\ m + 1 <= len
      /\ op = "from_url" => n = 1 /\ at < Len(src) /\ next > at
      /\ op \in Operations \ {"to_url", "code_type"}
  BY <1>1 DEF Fitting
<1>10. /\ op # "from_url" => high <= len + Spare
       /\ op = "from_url" => /\ phase \in {"write", "done"}
                             /\ m <= at /\ m <= Len(src) /\ high <= Len(src)
       /\ op \in Operations \ {"from_url", "to_ucs"} => m <= len
       /\ op = "to_ucs" => m <= len + (len % 2) /\ m % 2 = 0
  BY DEF UtfInv, BufferUse
<1> HIDE DEF m, n, m2
<1>11. CASE op = "from_url"
  <2>1. at \in Nat /\ Len(src) \in Nat
    BY LengthType DEF UtfInv, UtfTypes
  <2>2. m2 <= next /\ m2 <= Len(src) /\ high' <= Len(src)
    BY <1>5, <1>6, <1>9, <1>10, <1>11, <2>1
  <2>3. src' = src /\ phase' = phase /\ at' = next
    BY <1>3 DEF Same
  <2>4. BufferUse'
    BY <1>8, <1>10, <1>11, <2>2, <2>3 DEF BufferUse, m2
  <2> QED  BY <1>7, <2>4 DEF UtfInv
<1>12. CASE op = "to_ucs"
  <2>1. Spare = len % 2
    BY <1>12 DEF Spare
  <2>2. m2 <= len + (len % 2) /\ m2 % 2 = 0
    BY <1>2, <1>5, <1>9, <1>10, <1>12
  <2>3. high' <= len + Spare
    BY <1>2, <1>6, <1>10, <1>12, <2>1, <2>2
  <2>4. BufferUse'
    BY <1>8, <1>12, <2>2, <2>3 DEF BufferUse, m2
  <2> QED  BY <1>7, <2>4 DEF UtfInv
<1>13. CASE op \in {"to_ncr", "from_ncr", "from_ucs"}
  <2>1. m2 <= len
    BY <1>5, <1>9, <1>13
  <2>2. high' <= len + Spare
    BY <1>2, <1>5, <1>6, <1>8, <1>10, <1>13, <2>1
  <2>3. BufferUse'
    BY <1>8, <1>13, <2>1, <2>2 DEF BufferUse, m2
  <2> QED  BY <1>7, <2>3 DEF UtfInv
<1>14. op \in {"to_ncr", "from_ncr", "from_ucs", "to_ucs", "from_url"} \cup {"code_type"}
  BY <1>2, <1>9, OperationNames
<1>15. CASE op = "code_type"
  BY <1>9, <1>15
<1> QED  BY <1>11, <1>12, <1>13, <1>14, <1>15

LEMMA EscapesKeep ==
  ASSUME UtfInv, Same, WritesEscape
  PROVE  UtfInv'
<1>1. PICK bytes \in Strings :
        Len(bytes) = 3 /\ out' = out \o bytes /\ Touch(Len(out') + 1)
  BY DEF WritesEscape
<1>2. /\ op = "to_url" /\ Len(out) + 3 <= len
      /\ at' = at + 1 /\ UNCHANGED <<phase, ret>>
  BY DEF WritesEscape
<1>3. out \in Strings /\ high \in Nat /\ len \in Nat /\ at \in Nat
  BY DEF UtfInv, UtfTypes
<1>4. out' \in Strings /\ Len(out') = Len(out) + Len(bytes)
  BY <1>1, <1>3, ConcatProperties DEF Strings
<1> DEFINE m == Len(out)
           m2 == Len(out')
<1>5. m \in Nat /\ m2 \in Nat /\ m2 = m + 3
  BY <1>1, <1>3, <1>4, LengthType
<1>6. high' \in Nat /\ (high' = high \/ high' = m2 + 1)
  <2>1. m2 + 1 \in Nat
    BY <1>5
  <2> QED  BY <1>1, <1>3, <2>1, TouchType
<1>7. UtfTypes'
  BY <1>2, <1>3, <1>4, <1>6 DEF UtfInv, UtfTypes, Same
<1>8. UNCHANGED <<op, len>> /\ Spare' = 1 /\ Spare = 1
  BY <1>2 DEF Same, Spare
<1>9. high <= len + 1
  BY <1>2, <1>8 DEF UtfInv, BufferUse
<1>10. m2 <= len /\ high' <= len + 1
  BY <1>2, <1>3, <1>5, <1>6, <1>9
<1>11. BufferUse'
  BY <1>2, <1>8, <1>10 DEF BufferUse
<1> QED  BY <1>7, <1>11 DEF UtfInv

LEMMA ConvertBackKeeps ==
  ASSUME UtfInv, ConvertBack
  PROVE  UtfInv'
<1>1. op' \in {"from_ncr", "from_url", "from_ucs"}
  BY DEF ConvertBack, Back
<1>2. len' \in Nat /\ len' \in Lengths
  BY Utf8Assumption DEF ConvertBack
<1>3. <<>> \in Strings /\ Len(<<>>) = 0
  BY DEF Strings
<1>4. /\ src' = out /\ at' = 0 /\ out' = <<>> /\ high' = 0
      /\ phase' = "write" /\ ret' = 0 /\ text' = text
  BY DEF ConvertBack
<1>5. op' \in Operations
  BY <1>1, OperationNames
<1>6. UtfTypes'
  BY <1>2, <1>3, <1>4, <1>5 DEF UtfInv, UtfTypes
<1>7. Spare' = 0
  BY <1>1 DEF Spare
<1>8. BufferUse'
  <2>1. Len(out') = 0
    BY <1>3, <1>4
  <2>2. ASSUME NEW n, NEW h, NEW l \in Nat, NEW d, n = 0, h = 0, d = 0
        PROVE  n <= l /\ h <= l + d
    BY <2>2
  <2>3. Len(out') <= len' /\ high' <= len' + Spare'
    BY <1>2, <1>4, <1>7, <2>1, <2>2, Zenon
  <2>4. op' # "to_ucs"
    BY <1>1
  <2>5. Len(src') \in Nat
    BY <1>4, LengthType DEF UtfInv, UtfTypes
  <2>6. /\ phase' = "write" /\ Len(out') <= at'
        /\ Len(out') <= Len(src') /\ high' <= Len(src')
    BY <1>4, <2>1, <2>5
  <2> QED  BY <2>3, <2>4, <2>6 DEF BufferUse
<1> QED  BY <1>6, <1>8 DEF UtfInv

LEMMA ConversionKeeps == UtfInv /\ [UtfNext]_utfVars => UtfInv'
<1> SUFFICES ASSUME UtfInv, [UtfNext]_utfVars PROVE UtfInv'
  OBVIOUS
<1> USE EndsKeep, WritesKeep
<1>0. src \in Strings /\ out \in Strings /\ at \in Nat /\ len \in Nat
  BY DEF UtfInv, UtfTypes
<1>1. CASE ToNcr
  BY <1>0, <1>1, ToNcrSteps
<1>2. CASE FromNcr
  BY <1>0, <1>2, FromNcrSteps
<1>3. CASE ToUrl
  BY <1>0, <1>3, ToUrlSteps, EscapesKeep
<1>4. CASE FromUrl
  BY <1>0, <1>4, FromUrlSteps
<1>5. CASE ToUcs
  BY <1>0, <1>5, ToUcsSteps
<1>6. CASE FromUcs
  BY <1>0, <1>6, FromUcsSteps
<1>7. CASE IsGbk
  BY <1>7, IsGbkSteps
<1>8. CASE IsNcr
  BY <1>0, <1>8, IsNcrSteps
<1>9. CASE IsUtf8
  BY <1>0, <1>9, IsUtf8Steps
<1>10. CASE ConvertBack
  BY <1>10, ConvertBackKeeps
<1>11. CASE UNCHANGED utfVars
  BY <1>11 DEF utfVars, UtfInv, UtfTypes, BufferUse, Spare
<1> QED  BY <1>1, <1>2, <1>3, <1>4, <1>5, <1>6, <1>7, <1>8, <1>9, <1>10, <1>11
         DEF UtfNext

LEMMA ConversionHolds == UtfSpec => []UtfInv
BY ConversionStarts, ConversionKeeps, PTL DEF UtfSpec

\* The types of the conversions, for every set of texts: bytes stay bytes.
LEMMA ConversionTypes == UtfSpec => []UtfTypeOK
<1>1. UtfInv => UtfTypeOK
  <2> SUFFICES ASSUME UtfInv PROVE UtfTypeOK
    OBVIOUS
  <2>1. ASSUME NEW s \in {text, src, out}, NEW i \in DOMAIN s
        PROVE  s[i] \in 0 .. 255
    <3>1. s \in Seq(Byte)
      BY DEF UtfInv, UtfTypes, Strings
    <3>2. i \in 1 .. Len(s)
      BY <3>1, LenProperties
    <3> QED  BY <3>1, <3>2, ElementOfSeq DEF Byte
  <2> QED  BY <2>1 DEF UtfInv, UtfTypes, UtfTypeOK
<1> QED  BY <1>1, ConversionHolds, PTL

(* How much of its buffer each conversion uses, whatever the texts and the  *)
(* lengths are.  url_component_to_utf8 is the one that does not keep to the *)
(* length it was given (it copies what is no escape without a test): it     *)
(* writes at most as many bytes as its source has.  The others keep to the  *)
(* length, but for the zero of utf8_to_url_component and for the second     *)
(* byte that utf8_to_unicode puts behind an odd length.                     *)
THEOREM BuffersAreKept == UtfSpec => []BufferKept
<1>1. UtfInv => BufferKept
  <2>0. UtfInv /\ op = "from_url" => high <= Len(src)
    BY DEF UtfInv, BufferUse
  <2> SUFFICES ASSUME UtfInv, op # "from_url"
               PROVE  high <= len + (CASE op = "to_url" -> 1
                                       [] op = "to_ucs" -> len % 2
                                       [] OTHER -> 0)
    BY <2>0 DEF BufferKept
  <2> DEFINE c1 == op = "to_url"
             c2 == op = "to_ucs"
             e2 == len % 2
             e == CASE c1 -> 1 [] c2 -> e2 [] OTHER -> 0
  <2>1. ~(c1 /\ c2)
    OBVIOUS
  <2>2. Spare = IF c1 THEN 1 ELSE IF c2 THEN e2 ELSE 0
    BY DEF Spare
  <2>3. high <= len + Spare
    BY DEF UtfInv, BufferUse
  <2> HIDE DEF c1, c2, e2
  <2>4. e = Spare
    <3>1. CASE c1
      BY <2>1, <2>2, <3>1, Zenon
    <3>2. CASE c2
      BY <2>1, <2>2, <3>2, Zenon
    <3>3. CASE ~c1 /\ ~c2
      BY <2>2, <3>3, Zenon
    <3> QED  BY <3>1, <3>2, <3>3, Zenon
  <2> HIDE DEF e
  <2>5. high <= len + e
    BY <2>3, <2>4
  <2> QED  BY <2>5 DEF e, c1, c2, e2
<1> QED  BY <1>1, ConversionHolds, PTL

-----------------------------------------------------------------------------
(***************************************************************************)
(* The three programs together.                                            *)
(***************************************************************************)
Unread == Word \cup {"EOF"}

Stacked == {w \in Unread : TypeOf(w) # "IDENTIFIER"}

DeclTypes == DeclTypeOK /\ decl.toks \in Words /\ stack \in Seq(Stacked)

LEMMA DeclToks ==
  ASSUME NEW D \in Declarations \cup Truncated
  PROVE  D.toks \in Words
<1>1. ASSUME D \in Declarations
      PROVE  D.toks \in Words
  BY <1>1, DeclarationsFit
<1>2. ASSUME D \in Truncated
      PROVE  D.toks \in Words
  <2>1. PICK E \in Declarations : D.toks \in Prefixes(E.toks)
    BY <1>2 DEF Truncated
  <2>2. E.toks \in Words
    BY DeclarationsFit
  <2>3. PICK n \in 0 .. Len(E.toks) : D.toks = SubSeq(E.toks, 1, n)
    BY <2>1 DEF Prefixes
  <2> QED  BY <2>2, <2>3, SubSeqProperties DEF Words
<1> QED  BY <1>1, <1>2

LEMMA ReadTypes ==
  ASSUME DeclTypes, NEW n \in Nat, n > 0, Read(n), UNCHANGED decl
  PROVE  read' \in 0 .. Len(decl'.toks) /\ this' \in Unread
<1>1. decl.toks \in Seq(Word) /\ Len(decl.toks) \in Nat /\ read \in 0 .. Len(decl.toks)
  BY LenProperties DEF DeclTypes, DeclTypeOK, Words
<1>2. read' \in 0 .. Len(decl.toks)
  BY <1>1 DEF Read
<1>3. ASSUME NEW k \in Nat
      PROVE  Token(k) \in Unread
  <2>1. CASE k < Len(decl.toks)
    <3>1. k + 1 \in 1 .. Len(decl.toks)
      BY <1>1, <2>1
    <3> QED  BY <1>1, <2>1, <3>1, ElementOfSeq DEF Token, Unread
  <2>2. CASE ~ (k < Len(decl.toks))
    BY <2>2 DEF Token, Unread
  <2> QED  BY <2>1, <2>2
<1>4. read + n - 1 \in Nat
  BY <1>1
<1> QED  BY <1>2, <1>3, <1>4 DEF Read

LEMMA PopTypes ==
  ASSUME NEW S, stack \in Seq(S), stack # <<>>, Pop
  PROVE  /\ stack' \in Seq(S) /\ Len(stack') = Len(stack) - 1
         /\ \A i \in 1 .. Len(stack) - 1 : stack'[i] = stack[i]
         /\ Last(stack) = stack[Len(stack)] /\ Len(stack) \in Nat \ {0}
<1>1. Len(stack) \in Nat \ {0}
  BY LenProperties, EmptySeq
<1>2. stack' = SubSeq(stack, 1, Len(stack) - 1)
  BY DEF Pop, Front
<1>3. \A i \in 1 .. Len(stack) - 1 : stack[i] \in S
  BY <1>1, ElementOfSeq
<1> DEFINE m == Len(stack) - 1
<1>4. /\ SubSeq(stack, 1, m) \in Seq(S)
      /\ Len(SubSeq(stack, 1, m)) = IF 1 <= m THEN m - 1 + 1 ELSE 0
      /\ \A i \in 1 .. m - 1 + 1 : SubSeq(stack, 1, m)[i] = stack[1 + i - 1]
  BY <1>1, <1>3, SubSeqProperties
<1>5. Len(stack') = m
  <2>1. m \in Nat /\ stack' = SubSeq(stack, 1, m)
    BY <1>1, <1>2
  <2> HIDE DEF m
  <2>2. CASE m = 0
    BY <1>4, <2>1, <2>2
  <2>3. CASE m > 0
    <3>1. 1 <= m /\ m - 1 + 1 = m
      BY <2>1, <2>3
    <3>2. Len(SubSeq(stack, 1, m)) = m
      BY <1>4, <3>1
    <3> QED  BY <2>1, <3>2
  <2> QED  BY <2>1, <2>2, <2>3
<1>6. \A i \in 1 .. m : stack'[i] = stack[i]
  BY <1>1, <1>2, <1>4
<1> QED  BY <1>1, <1>2, <1>4, <1>5, <1>6 DEF Last

LEMMA ReaderHolds == DeclSpec => []DeclTypes
<1>1. ASSUME DeclInit
      PROVE  DeclTypes
  <2>1. decl \in Declarations \cup Truncated
    BY <1>1 DEF DeclInit
  <2>2. decl.toks \in Words
    BY <2>1, DeclToks
  <2>3. Len(decl.toks) \in Nat
    BY <2>2, LenProperties DEF Words
  <2>4. <<>> \in Seq(Stacked) /\ DOMAIN <<>> = {}
    OBVIOUS
  <2> QED  BY <1>1, <2>1, <2>2, <2>3, <2>4
           DEF DeclInit, DeclTypes, DeclTypeOK
<1>2. ASSUME DeclTypes, [DeclNext]_declVars
      PROVE  DeclTypes'
  <2>1. UNCHANGED decl
    BY <1>2 DEF DeclNext, declVars, Initialize, GetArray, GetParms, GetLparen,
                GetPtrPart, GetType
  <2>2. /\ decl \in Declarations \cup Truncated /\ decl.toks \in Words
        /\ read \in 0 .. Len(decl.toks)
        /\ stack \in Seq(Stacked)
    BY <1>2 DEF DeclTypes, DeclTypeOK
  <2> DEFINE States == {"initialize", "get_array", "more", "get_parms", "list",
                        "get_lparen", "get_ptr_part", "get_type", "NULL",
                        "undefined"}
             Kept == /\ read' \in 0 .. Len(decl'.toks)
                     /\ stack' \in Seq(Stacked)
                     /\ nextstate' \in States
  <2> SUFFICES Kept
    <3>1. Kept => \A i \in DOMAIN stack' : TypeOf(stack'[i]) # "IDENTIFIER"
      BY LenProperties, ElementOfSeq DEF Stacked
    <3> QED  BY <2>1, <2>2, <3>1 DEF DeclTypes, DeclTypeOK
  <2>3. ASSUME NEW n \in {1, 2, 3}, Read(n)
        PROVE  read' \in 0 .. Len(decl'.toks) /\ this' \in Unread
    BY <1>2, <2>1, <2>3, ReadTypes
  <2>4. ASSUME UNCHANGED read
        PROVE  read' \in 0 .. Len(decl'.toks)
    BY <2>1, <2>2, <2>4
  <2>5. CASE Initialize
    <3>1. CASE TypeOf(Token(read)) = "IDENTIFIER"
      <4>1. Read(2) /\ nextstate' = "get_array" /\ UNCHANGED stack
        BY <2>5, <3>1 DEF Initialize, Goto
      <4> QED  BY <2>2, <2>3, <4>1
    <3>2. CASE TypeOf(Token(read)) # "IDENTIFIER"
      <4>1. /\ Read(1) /\ stack' = Append(stack, this')
            /\ nextstate' \in {"initialize", "undefined"}
        BY <2>5, <3>2 DEF Initialize, Goto
      <4>2. read' \in 0 .. Len(decl'.toks) /\ this' \in Unread
        BY <2>3, <4>1
      <4>3. this' = Token(read)
        <5>1. read + 1 - 1 = read
          BY <2>2
        <5> QED  BY <4>1, <5>1 DEF Read
      <4>4. stack' \in Seq(Stacked)
        BY <2>2, <3>2, <4>1, <4>2, <4>3, AppendProperties DEF Stacked
      <4> QED  BY <4>1, <4>2, <4>4
    <3> QED  BY <3>1, <3>2
  <2>6. CASE GetArray
    <3>1. UNCHANGED stack
      BY <2>6 DEF GetArray
    <3>2. nextstate' \in {"more", "get_lparen", "get_parms"}
      BY <2>6 DEF GetArray, Goto
    <3>3. Read(3) \/ Read(2) \/ UNCHANGED read
      BY <2>6 DEF GetArray
    <3> QED  BY <2>2, <2>3, <2>4, <3>1, <3>2, <3>3
  <2>7. CASE GetParms
    <3>1. UNCHANGED stack
      BY <2>7 DEF GetParms
    <3>2. \/ Goto("get_lparen") /\ UNCHANGED read
          \/ Goto("get_lparen") /\ Read(1)
          \/ Goto("list") /\ Read(1)
      BY <2>7, Zenon DEF GetParms
    <3>3. nextstate' \in {"list", "get_lparen"}
      BY <3>2 DEF Goto
    <3>4. Read(1) \/ UNCHANGED read
      BY <3>2
    <3> QED  BY <2>2, <2>3, <2>4, <3>1, <3>3, <3>4
  <2>8. CASE GetLparen
    <3>1. CASE stack # <<>> /\ Last(stack) = "("
      <4>1. Pop /\ Read(1) /\ nextstate' = "get_array"
        BY <2>8, <3>1 DEF GetLparen, Goto
      <4>2. stack' \in Seq(Stacked)
        BY <2>2, <3>1, <4>1, PopTypes
      <4> QED  BY <2>3, <4>1, <4>2
    <3>2. CASE ~ (stack # <<>> /\ Last(stack) = "(")
      <4>1. nextstate' = "get_ptr_part" /\ UNCHANGED <<read, stack>>
        BY <2>8, <3>2 DEF GetLparen, Goto
      <4> QED  BY <2>2, <2>4, <4>1
    <3> QED  BY <3>1, <3>2
  <2>9. CASE GetPtrPart
    <3>1. UNCHANGED read
      BY <2>9 DEF GetPtrPart
    <3>2. nextstate' \in {"undefined", "get_lparen", "get_type"}
      BY <2>9 DEF GetPtrPart, Goto
    <3>3. (stack # <<>> /\ Pop) \/ UNCHANGED stack
      BY <2>9 DEF GetPtrPart
    <3>4. stack' \in Seq(Stacked)
      BY <2>2, <3>3, PopTypes
    <3> QED  BY <2>4, <3>1, <3>2, <3>4
  <2>10. CASE GetType
    <3>1. stack' = <<>> /\ nextstate' = "NULL" /\ UNCHANGED read
      BY <2>10 DEF GetType, Goto
    <3>2. <<>> \in Seq(Stacked)
      OBVIOUS
    <3> QED  BY <2>4, <3>1, <3>2
  <2>11. CASE UNCHANGED declVars
    BY <1>2, <2>2, <2>11 DEF declVars, DeclTypes, DeclTypeOK
  <2> QED  BY <1>2, <2>5, <2>6, <2>7, <2>8, <2>9, <2>10, <2>11 DEF DeclNext
<1> QED  BY <1>1, <1>2, PTL DEF DeclSpec

LEMMA ReaderTypes == DeclSpec => []DeclTypeOK
<1>1. DeclTypes => DeclTypeOK
  BY DEF DeclTypes
<1> QED  BY <1>1, ReaderHolds, PTL

(* In a declaration with a type a type stands before the identifier.       *)
LEMMA TypeStandsBefore ==
  ASSUME NEW D \in Declarations, D.kind = "typed"
  PROVE  \E i \in 1 .. Len(D.toks) :
           /\ D.toks[i] \in Types
           /\ \A k \in 1 .. i : TypeOf(D.toks[k]) # "IDENTIFIER"
<1>1. PICK s \in Specifiers, d \in Declarators[Depth] :
        D.toks = s \o d.toks /\ D.kind = IF Typed(s) THEN "typed" ELSE "untyped"
  BY DEF Declarations
<1>2. s \in Seq(Qualifiers \cup Types)
  BY SpecifierAssumption
<1>3. d.toks \in Words
  <2>1. d \in Declarator
    BY DepthAssumption, DeclaratorsUnfold
  <2> QED  BY <2>1 DEF Declarator
<1>4. Len(s) \in Nat /\ DOMAIN s = 1 .. Len(s) /\ Len(d.toks) \in Nat
  BY <1>2, <1>3, LenProperties DEF Words
<1>5. PICK i \in 1 .. Len(s) : s[i] \in Types
  <2>1. Typed(s)
    BY <1>1
  <2> QED  BY <1>4, <2>1 DEF Typed
<1>6. /\ Len(D.toks) = Len(s) + Len(d.toks)
      /\ \A k \in 1 .. Len(s) : D.toks[k] = s[k]
  <2>1. s \in Seq(Word) /\ d.toks \in Seq(Word)
    <3>1. Qualifiers \cup Types \subseteq Word
      BY DEF Qualifiers, Types, Word
    <3> QED  BY <1>2, <1>3, <3>1, SeqMonotonic DEF Words
  <2>2. /\ Len(s \o d.toks) = Len(s) + Len(d.toks)
        /\ \A k \in 1 .. Len(s) + Len(d.toks) :
             (s \o d.toks)[k] = IF k <= Len(s) THEN s[k] ELSE d.toks[k - Len(s)]
    BY <2>1, ConcatProperties
  <2> QED  BY <1>1, <1>4, <2>2
<1>7. \A k \in 1 .. Len(s) : TypeOf(s[k]) # "IDENTIFIER"
  <2>1. \A k \in 1 .. Len(s) : s[k] \in Qualifiers \cup Types
    BY <1>2, ElementOfSeq
  <2> QED  BY <2>1 DEF Qualifiers, Types, TypeOf
<1>8. i \in 1 .. Len(D.toks) /\ \A k \in 1 .. i : k \in 1 .. Len(s)
  BY <1>4, <1>6
<1>9. D.toks[i] \in Types
  BY <1>5, <1>6, Zenon
<1>10. \A k \in 1 .. i : TypeOf(D.toks[k]) # "IDENTIFIER"
  <2>1. \A k \in 1 .. Len(s) : TypeOf(D.toks[k]) # "IDENTIFIER"
    BY <1>6, <1>7, Zenon
  <2> QED  BY <1>8, <2>1, Zenon
<1> QED  BY <1>8, <1>9, <1>10, Zenon

(* Until the identifier is found the stack holds what was read; then a     *)
(* type lies on it, or below what is popped, until get_type takes all.     *)
HoldsType == \E i \in 1 .. Len(stack) : stack[i] \in Types

StackInv ==
  decl.kind = "typed" /\ FitsStack(decl.toks) =>
    /\ nextstate = "initialize" =>
         /\ read = Len(stack)
         /\ \A k \in 1 .. read : stack[k] = decl.toks[k] /\ TypeOf(decl.toks[k]) # "IDENTIFIER"
    /\ nextstate \notin {"initialize", "NULL"} => HoldsType
    /\ nextstate # "undefined"

LEMMA InitializeKeepsStack ==
  ASSUME DeclTypes, StackInv, Initialize, decl.kind = "typed", FitsStack(decl.toks)
  PROVE  /\ nextstate' = "initialize" =>
              /\ read' = Len(stack')
              /\ \A k \in 1 .. read' : /\ stack'[k] = decl.toks[k]
                                       /\ TypeOf(decl.toks[k]) # "IDENTIFIER"
         /\ nextstate' \notin {"initialize", "NULL"} => HoldsType'
         /\ nextstate' # "undefined"
<1> DEFINE N == Len(decl.toks)
<1>1. /\ nextstate = "initialize" /\ read = Len(stack)
      /\ \A k \in 1 .. read : stack[k] = decl.toks[k] /\ TypeOf(decl.toks[k]) # "IDENTIFIER"
  BY DEF StackInv, Initialize
<1>2. N \in Nat /\ read \in 0 .. N /\ stack \in Seq(Stacked) /\ decl \in Declarations
  <2>1. \A x \in Truncated : x.kind = "cut"
    BY DEF Truncated
  <2> QED  BY <2>1, LenProperties DEF DeclTypes, DeclTypeOK, Words
<1>3. PICK n \in 0 .. MAXTOKENS : n < N /\ TypeOf(decl.toks[n + 1]) = "IDENTIFIER"
  BY DEF FitsStack
<1>4. read <= n
  <2>1. n + 1 \notin 1 .. read
    BY <1>1, <1>3
  <2> QED  BY <1>2, <2>1, StackAssumption
<1>5. Token(read) = decl.toks[read + 1] /\ read + 1 \in 1 .. N /\ read \in Nat
  BY <1>2, <1>3, <1>4, StackAssumption DEF Token
<1> HIDE DEF N
<1>6. CASE TypeOf(Token(read)) = "IDENTIFIER"
  <2>1. PICK i \in 1 .. N : /\ decl.toks[i] \in Types
                            /\ \A k \in 1 .. i : TypeOf(decl.toks[k]) # "IDENTIFIER"
    BY <1>2, TypeStandsBefore DEF N
  <2>2. i \in 1 .. read
    <3>1. read + 1 \notin 1 .. i
      BY <1>5, <1>6, <2>1
    <3> QED  BY <1>2, <1>5, <2>1, <3>1
  <2>3. stack[i] \in Types /\ i \in 1 .. Len(stack)
    BY <1>1, <2>1, <2>2
  <2>4. UNCHANGED stack /\ nextstate' = "get_array"
    BY <1>6 DEF Initialize, Goto
  <2> QED  BY <2>3, <2>4 DEF HoldsType
<1>7. CASE TypeOf(Token(read)) # "IDENTIFIER"
  <2>1. read # n
    BY <1>3, <1>5, <1>7
  <2>2. Len(stack) # MAXTOKENS
    BY <1>1, <1>3, <1>4, <1>5, <2>1, StackAssumption
  <2>3. Read(1) /\ stack' = Append(stack, this') /\ nextstate' = "initialize"
    BY <1>1, <1>7, <2>2 DEF Initialize
  <2>4. read' = read + 1 /\ this' = Token(read)
    <3>1. read + 1 - 1 = read /\ ~(read + 1 > N)
      BY <1>2, <1>5
    <3> QED  BY <2>3, <3>1 DEF Read, N
  <2>5. this' \in Stacked
    <3>1. this' \in Unread
      BY <2>3, ReadTypes DEF Initialize
    <3> QED  BY <1>7, <2>4, <3>1 DEF Stacked
  <2>6. /\ Len(stack') = Len(stack) + 1 /\ stack'[Len(stack) + 1] = this'
        /\ \A k \in 1 .. Len(stack) : stack'[k] = stack[k]
    BY <1>2, <2>3, <2>5, AppendProperties
  <2>7. \A k \in 1 .. read' : /\ stack'[k] = decl.toks[k]
                              /\ TypeOf(decl.toks[k]) # "IDENTIFIER"
    <3> TAKE k \in 1 .. read'
    <3>1. k \in 1 .. read \/ k = read + 1
      BY <1>5, <2>4
    <3> QED  BY <1>1, <1>5, <1>7, <2>4, <2>6, <3>1
  <2> QED  BY <1>1, <2>3, <2>4, <2>6, <2>7
<1> QED  BY <1>6, <1>7

(* A declaration with a type whose words before the identifier fit the     *)
(* stack is read without a write behind the stack, which initialize does   *)
(* not test for, and without a read or a pop below it in get_ptr_part: for *)
(* all specifiers, operators and lengths of the stack.  Of other inputs it *)
(* says nothing: they leave the array.                                     *)
THEOREM StackIsKept == DeclSpec => []StackKept
<1>1. DeclInit => StackInv
  BY DEF DeclInit, StackInv
<1>2. DeclTypes /\ StackInv /\ [DeclNext]_declVars => StackInv'
  <2> SUFFICES ASSUME DeclTypes, StackInv, [DeclNext]_declVars,
                      decl'.kind = "typed", FitsStack(decl.toks)'
               PROVE  /\ nextstate' = "initialize" =>
                           /\ read' = Len(stack')
                           /\ \A k \in 1 .. read' : /\ stack'[k] = decl'.toks[k]
                                                    /\ TypeOf(decl'.toks[k]) # "IDENTIFIER"
                      /\ nextstate' \notin {"initialize", "NULL"} => HoldsType'
                      /\ nextstate' # "undefined"
    BY DEF StackInv
  <2>1. UNCHANGED decl
    BY DEF DeclNext, declVars, Initialize, GetArray, GetParms, GetLparen,
           GetPtrPart, GetType
  <2>2. decl.kind = "typed" /\ FitsStack(decl.toks)
    BY <2>1 DEF FitsStack
  <2>3. CASE Initialize
    BY <2>1, <2>2, <2>3, InitializeKeepsStack
  <2>4. CASE GetArray \/ GetParms
    <3>1. /\ nextstate \in {"get_array", "more", "get_parms", "list"} /\ UNCHANGED stack
          /\ nextstate' \in {"more", "get_lparen", "get_parms", "list"}
      BY <2>4 DEF GetArray, GetParms, Goto
    <3> QED  BY <2>2, <3>1 DEF StackInv, HoldsType
  <2>5. ASSUME Pop, Last(stack) \notin Types, stack # <<>>, HoldsType
        PROVE  HoldsType'
    <3>1. stack \in Seq(Stacked)
      BY DEF DeclTypes
    <3>2. PICK i \in 1 .. Len(stack) : stack[i] \in Types
      BY <2>5 DEF HoldsType
    <3>3. /\ Len(stack') = Len(stack) - 1 /\ Len(stack) \in Nat
          /\ \A k \in 1 .. Len(stack) - 1 : stack'[k] = stack[k]
          /\ Last(stack) = stack[Len(stack)]
      BY <2>5, <3>1, PopTypes
    <3>4. i \in 1 .. Len(stack) - 1
      BY <2>5, <3>2, <3>3
    <3> QED  BY <3>2, <3>3, <3>4 DEF HoldsType
  <2>6. CASE GetLparen \/ GetPtrPart
    <3>1. nextstate \in {"get_lparen", "get_ptr_part"} /\ HoldsType
      BY <2>2, <2>6 DEF StackInv, GetLparen, GetPtrPart
    <3>2. stack # <<>>
      BY <3>1 DEF HoldsType
    <3>3. /\ nextstate' \in {"get_array", "get_ptr_part", "get_lparen", "get_type"}
          /\ \/ UNCHANGED stack
             \/ Pop /\ \/ Last(stack) \in {"(", "*"}
                       \/ TypeOf(Last(stack)) = "QUALIFIER"
      BY <2>6, <3>2 DEF GetLparen, GetPtrPart, Goto
    <3>4. \A x \in Types : x \notin {"(", "*"} /\ TypeOf(x) # "QUALIFIER"
      BY DEF Types, TypeOf
    <3>5. HoldsType'
      BY <2>5, <3>1, <3>2, <3>3, <3>4 DEF HoldsType
    <3> QED  BY <3>3, <3>5
  <2>7. CASE GetType
    BY <2>7 DEF GetType, Goto
  <2>8. CASE UNCHANGED declVars
    BY <2>1, <2>2, <2>8 DEF declVars, StackInv, HoldsType
  <2> QED  BY <2>3, <2>4, <2>6, <2>7, <2>8 DEF DeclNext
<1>3. StackInv => StackKept
  BY DEF StackInv, StackKept
<1> QED  BY <1>1, <1>2, <1>3, ReaderHolds, PTL DEF DeclSpec


\* A behaviour of the run is one of each program: of one, and of two that
\* stutter.
LEMMA ProgramsRun == Spec => DeclSpec /\ UtfSpec /\ MacSpec
<1>1. Init => DeclInit /\ UtfInit /\ MacInit
  BY DEF Init, DeclIdle, UtfIdle, MacIdle
<1>2. [Next]_vars => [DeclNext]_declVars
  BY DEF Next, vars, ReaderSteps, ConversionSteps, ServiceSteps
<1>3. [Next]_vars => [UtfNext]_utfVars
  BY DEF Next, vars, ReaderSteps, ConversionSteps, ServiceSteps
<1>4. [Next]_vars => [MacNext]_macVars
  BY DEF Next, vars, ReaderSteps, ConversionSteps, ServiceSteps
<1> QED  BY <1>1, <1>2, <1>3, <1>4, PTL DEF Spec, DeclSpec, UtfSpec, MacSpec

(* The types of the three programs, for every declaration, text and frame: *)
(* no identifier is on the reader's stack, bytes stay bytes, descriptors   *)
(* and addresses are what the service may have.                            *)
THEOREM InputsAreTyped == Spec => []InputsTypeOK
BY ProgramsRun, ReaderTypes, ConversionTypes, ServiceTypes, PTL DEF InputsTypeOK

-----------------------------------------------------------------------------
(***************************************************************************)
(* There and back.  What a conversion makes of a text, piece by piece:     *)
(* Spelt(P) is the least set of pairs that holds the empty ones and, with a *)
(* pair, the pair with a piece of P in front.                              *)
(***************************************************************************)
Pairs2 == Strings \X Strings

Prepending(P, R) ==
  /\ <<<<>>, <<>>>> \in R
  /\ \A q \in P, r \in R : <<q[1] \o r[1], q[2] \o r[2]>> \in R

Spelt(P) == {r \in Pairs2 : \A R \in SUBSET Pairs2 : Prepending(P, R) => r \in R}

LEMMA StringConcat ==
  ASSUME NEW s \in Strings, NEW t \in Strings
  PROVE  s \o t \in Strings /\ Len(s \o t) = Len(s) + Len(t)
         /\ Len(s) \in Nat /\ Len(t) \in Nat
BY ConcatProperties, LenProperties DEF Strings

LEMMA SpeltBuilds ==
  ASSUME NEW P, P \subseteq Pairs2
  PROVE  Spelt(P) \subseteq Pairs2 /\ Prepending(P, Spelt(P))
<1>1. <<<<>>, <<>>>> \in Pairs2
  <2>1. <<>> \in Strings
    BY DEF Strings
  <2> QED  BY <2>1 DEF Pairs2
<1>2. <<<<>>, <<>>>> \in Spelt(P)
  BY <1>1 DEF Spelt, Prepending
<1>3. ASSUME NEW q \in P, NEW r \in Spelt(P)
      PROVE  <<q[1] \o r[1], q[2] \o r[2]>> \in Spelt(P)
  <2>1. q \in Pairs2 /\ r \in Pairs2
    BY DEF Spelt
  <2>2. q[1] \in Strings /\ q[2] \in Strings /\ r[1] \in Strings /\ r[2] \in Strings
    BY <2>1 DEF Pairs2
  <2>3. <<q[1] \o r[1], q[2] \o r[2]>> \in Pairs2
    BY <2>2, StringConcat DEF Pairs2
  <2>4. ASSUME NEW R \in SUBSET Pairs2, Prepending(P, R)
        PROVE  <<q[1] \o r[1], q[2] \o r[2]>> \in R
    <3>1. r \in R
      BY <2>4 DEF Spelt
    <3> QED  BY <2>4, <3>1 DEF Prepending
  <2> QED  BY <2>3, <2>4 DEF Spelt
<1> QED  BY <1>2, <1>3 DEF Spelt, Prepending

LEMMA SpeltInverts ==
  ASSUME NEW P, P \subseteq Pairs2, NEW s \in Spelt(P)
  PROVE  \/ s = <<<<>>, <<>>>>
         \/ \E q \in P, r \in Spelt(P) : s = <<q[1] \o r[1], q[2] \o r[2]>>
<1> DEFINE Good(x) == \/ x = <<<<>>, <<>>>>
                      \/ \E q \in P, r \in Spelt(P) :
                           x = <<q[1] \o r[1], q[2] \o r[2]>>
           R == {x \in Spelt(P) : Good(x)}
<1>1. R \in SUBSET Pairs2
  BY SpeltBuilds
<1>2. <<<<>>, <<>>>> \in R
  BY SpeltBuilds DEF Prepending
<1>3. ASSUME NEW q \in P, NEW r \in R
      PROVE  <<q[1] \o r[1], q[2] \o r[2]>> \in R
  <2>1. r \in Spelt(P)
    OBVIOUS
  <2>2. <<q[1] \o r[1], q[2] \o r[2]>> \in Spelt(P)
    BY <2>1, SpeltBuilds DEF Prepending
  <2>3. Good(<<q[1] \o r[1], q[2] \o r[2]>>)
    BY <2>1
  <2> QED  BY <2>2, <2>3
<1>4. Prepending(P, R)
  BY <1>2, <1>3, Zenon DEF Prepending
<1> HIDE DEF Good
<1>5. s \in R
  BY <1>1, <1>4 DEF Spelt
<1> QED  BY <1>5 DEF Good

LEMMA AtWithin ==
  ASSUME NEW s \in Strings, NEW p \in Strings, NEW y \in Strings,
         NEW k \in Nat, k < Len(p)
  PROVE  At(s \o (p \o y), Len(s) + k) = p[k + 1]
<1>1. p \o y \in Strings /\ Len(p \o y) = Len(p) + Len(y)
      /\ Len(s) \in Nat /\ Len(p) \in Nat /\ Len(y) \in Nat
  BY StringConcat
<1>2. Len(s \o (p \o y)) = Len(s) + (Len(p) + Len(y))
  BY <1>1, StringConcat
<1>3. Len(s) + k < Len(s \o (p \o y))
  BY <1>1, <1>2
<1>4. At(s \o (p \o y), Len(s) + k) = (s \o (p \o y))[(Len(s) + k) + 1]
  BY <1>3 DEF At
<1> DEFINE j == (Len(s) + k) + 1
<1>5. j \in 1 .. Len(s) + (Len(p) + Len(y)) /\ j > Len(s) /\ j - Len(s) = k + 1
      /\ k + 1 \in 1 .. Len(p) + Len(y) /\ k + 1 <= Len(p)
  BY <1>1
<1> HIDE DEF j
<1>6. (s \o (p \o y))[j] = (p \o y)[j - Len(s)]
  BY <1>1, <1>2, <1>5, ConcatProperties DEF Strings
<1>7. (p \o y)[k + 1] = p[k + 1]
  BY <1>1, <1>5, ConcatProperties DEF Strings
<1> QED  BY <1>4, <1>5, <1>6, <1>7 DEF j

-----------------------------------------------------------------------------
(* One character: its width, its code, and its code encoded.               *)

\* The code of a character, by its width
Lead(c) == c[1] % LeadCodes[Len(c)]
Low(b) == b % 64

Value(c) ==
  IF Len(c) = 1 THEN Lead(c)
  ELSE IF Len(c) = 2 THEN Lead(c) * 64 + Low(c[2])
  ELSE IF Len(c) = 3 THEN (Lead(c) * 64 + Low(c[2])) * 64 + Low(c[3])
  ELSE ((Lead(c) * 64 + Low(c[2])) * 64 + Low(c[3])) * 64 + Low(c[4])

Char == {c \in Strings : WellFormed(c)}

LEMMA CharBytes ==
  ASSUME NEW c \in Char
  PROVE  /\ Len(c) \in 1 .. 4
         /\ \A k \in 1 .. Len(c) : c[k] \in 1 .. 255
         /\ \A k \in 2 .. Len(c) : c[k] \in 128 .. 191
         /\ Len(c) = 1 => c[1] \in 1 .. 127
         /\ Len(c) = 2 => c[1] \in 194 .. 223
         /\ Len(c) = 3 => c[1] \in 224 .. 239 /\ (c[1] = 224 => c[2] > 159)
         /\ Len(c) = 4 => c[1] \in 240 .. 247 /\ (c[1] = 240 => c[2] > 143)
<1>1. WellFormed(c)
  BY DEF Char
<1>2. \A k \in 2 .. Len(c) : c[k] \in 128 .. 191
  BY <1>1 DEF WellFormed
<1>3. /\ Len(c) \in 1 .. 4
      /\ Len(c) = 1 => c[1] \in 1 .. 127
      /\ Len(c) = 2 => c[1] \in 194 .. 223
      /\ Len(c) = 3 => c[1] \in 224 .. 239 /\ (c[1] = 224 => c[2] > 159)
      /\ Len(c) = 4 => c[1] \in 240 .. 247 /\ (c[1] = 240 => c[2] > 143)
  <2> DEFINE n == Len(c)
             a == c[1]
             b == c[2]
  <2>1. \/ n = 1 /\ a \in 1 .. 127
        \/ n = 2 /\ a \in 194 .. 223
        \/ n = 3 /\ a \in 224 .. 239 /\ (a = 224 => b > 159)
        \/ n = 4 /\ a \in 240 .. 247 /\ (a = 240 => b > 143)
    BY <1>1 DEF WellFormed
  <2> HIDE DEF n, a, b
  <2>2. /\ n \in 1 .. 4
        /\ n = 1 => a \in 1 .. 127
        /\ n = 2 => a \in 194 .. 223
        /\ n = 3 => a \in 224 .. 239 /\ (a = 224 => b > 159)
        /\ n = 4 => a \in 240 .. 247 /\ (a = 240 => b > 143)
    BY <2>1
  <2> QED  BY <2>2 DEF n, a, b
<1>4. ASSUME NEW k \in 1 .. Len(c)
      PROVE  c[k] \in 1 .. 255
  <2>1. CASE k = 1
    BY <1>3, <2>1
  <2>2. CASE k # 1
    <3>1. k \in 2 .. Len(c)
      BY <1>3, <2>2
    <3> QED  BY <1>2, <3>1
  <2> QED  BY <2>1, <2>2
<1> QED  BY <1>2, <1>3, <1>4

LEMMA AnnouncedIs ==
  ASSUME NEW b \in Byte
  PROVE  /\ b \in 0 .. 127 => Announced(b) = 1
         /\ b \in 192 .. 223 => Announced(b) = 2
         /\ b \in 224 .. 239 => Announced(b) = 3
         /\ b \in 240 .. 247 => Announced(b) = 4
<1> DEFINE c1 == b \in 0 .. 127
           c2 == b \in 128 .. 191
           c3 == b \in 192 .. 223
           c4 == b \in 224 .. 239
           c5 == b \in 240 .. 247
           c6 == b \in 248 .. 251 \cup 254 .. 255
           c7 == b \in 252 .. 253
           e == Announced(b)
<1>1. e = CASE c1 -> 1 [] c2 -> 0 [] c3 -> 2 [] c4 -> 3 [] c5 -> 4 [] c6 -> 5 [] c7 -> 6
  BY DEF Announced
<1>2. /\ c1 => ~c2 /\ ~c3 /\ ~c4 /\ ~c5 /\ ~c6 /\ ~c7
      /\ c3 => ~c1 /\ ~c2 /\ ~c4 /\ ~c5 /\ ~c6 /\ ~c7
      /\ c4 => ~c1 /\ ~c2 /\ ~c3 /\ ~c5 /\ ~c6 /\ ~c7
      /\ c5 => ~c1 /\ ~c2 /\ ~c3 /\ ~c4 /\ ~c6 /\ ~c7
  OBVIOUS
<1> HIDE DEF c1, c2, c3, c4, c5, c6, c7, e
<1>3. c1 => e = 1
  BY <1>1, <1>2, Zenon
<1>4. c3 => e = 2
  BY <1>1, <1>2, Zenon
<1>5. c4 => e = 3
  BY <1>1, <1>2, Zenon
<1>6. c5 => e = 4
  BY <1>1, <1>2, Zenon
<1> QED  BY <1>3, <1>4, <1>5, <1>6 DEF c1, c3, c4, c5, e

\* A text at a character: what the code finds there
LEMMA WidthOfChar ==
  ASSUME NEW s \in Strings, NEW i \in Nat, NEW c \in Char,
         \A k \in 0 .. Len(c) - 1 : At(s, i + k) = c[k + 1]
  PROVE  Width(s, i) = Len(c)
<1> DEFINE n == Len(c)
           T == {n} \cup {k \in 1 .. (n - 1) : At(s, i + k) \notin 128 .. 191}
<1>1. n \in 1 .. 4
  BY CharBytes
<1>2. At(s, i) = c[1]
  <2>1. 0 \in 0 .. n - 1 /\ i + 0 = i /\ 0 + 1 = 1
    BY <1>1
  <2> QED  BY <2>1, Zenon
<1>3. c[1] \in Byte
  BY <1>1, CharBytes DEF Byte
<1>4. Announced(c[1]) = n
  <2>1. CASE n = 1
    BY <1>3, <2>1, CharBytes, AnnouncedIs
  <2>2. CASE n = 2
    BY <1>3, <2>2, CharBytes, AnnouncedIs
  <2>3. CASE n = 3
    BY <1>3, <2>3, CharBytes, AnnouncedIs
  <2>4. CASE n = 4
    BY <1>3, <2>4, CharBytes, AnnouncedIs
  <2> QED  BY <1>1, <2>1, <2>2, <2>3, <2>4
<1>5. Width(s, i) = Min(T)
  BY <1>1, <1>2, <1>4 DEF Width, Body
<1>6. ASSUME NEW k \in 1 .. (n - 1)
      PROVE  At(s, i + k) \in 128 .. 191
  <2>1. k \in 0 .. n - 1 /\ k + 1 \in 2 .. n
    BY <1>1
  <2>2. At(s, i + k) = c[k + 1]
    BY <2>1
  <2>3. c[k + 1] \in 128 .. 191
    BY <2>1, CharBytes
  <2> QED  BY <2>2, <2>3
<1>7. T = {n}
  BY <1>6
<1>8. Min({n}) = n
  BY <1>1 DEF Min
<1> QED  BY <1>5, <1>7, <1>8

LEMMA UnicodeOfChar ==
  ASSUME NEW s \in Strings, NEW i \in Nat, NEW c \in Char,
         \A k \in 0 .. Len(c) - 1 : At(s, i + k) = c[k + 1]
  PROVE  Unicode(s, i) = Value(c)
<1>1. Width(s, i) = Len(c) /\ Len(c) \in 1 .. 4
  BY WidthOfChar, CharBytes
<1>2. Width(s, i) # 0 /\ (Len(c) = 1 \/ Len(c) = 2 \/ Len(c) = 3 \/ Len(c) = 4)
  BY <1>1
<1>3. At(s, i) = c[1]
  <2>1. 0 \in 0 .. Len(c) - 1 /\ i + 0 = i /\ 0 + 1 = 1
    BY <1>1
  <2> QED  BY <2>1, Zenon
<1>4. PICK f \in [Nat -> Nat] :
        /\ f[0] = At(s, i) % LeadCodes[Width(s, i)]
        /\ \A k \in Nat : k # 0 => f[k] = f[k - 1] * 64 + (At(s, i + k) % 64)
        /\ Unicode(s, i) = f[Width(s, i) - 1]
  BY <1>2, UnicodeUnfolds
<1>5. f[0] = Lead(c)
  BY <1>1, <1>3, <1>4 DEF Lead
<1>6. ASSUME NEW k \in 1 .. Len(c) - 1
      PROVE  f[k] = f[k - 1] * 64 + Low(c[k + 1])
  <2>1. k \in Nat /\ k # 0 /\ k \in 0 .. Len(c) - 1
    BY <1>1
  <2>2. At(s, i + k) = c[k + 1]
    BY <2>1
  <2>3. f[k] = f[k - 1] * 64 + (At(s, i + k) % 64)
    BY <1>4, <2>1
  <2> QED  BY <2>2, <2>3 DEF Low
<1>7. Unicode(s, i) = f[Len(c) - 1]
  BY <1>1, <1>4
<1>8. CASE Len(c) = 1
  BY <1>5, <1>7, <1>8 DEF Value
<1>9. CASE Len(c) = 2
  <2>1. f[1] = f[0] * 64 + Low(c[2])
    BY <1>6, <1>9
  <2>2. Unicode(s, i) = f[1]
    BY <1>7, <1>9
  <2> QED  BY <1>5, <1>9, <2>1, <2>2 DEF Value
<1>10. CASE Len(c) = 3
  <2>1. f[1] = f[0] * 64 + Low(c[2]) /\ f[2] = f[1] * 64 + Low(c[3])
    BY <1>6, <1>10
  <2>2. Unicode(s, i) = f[2]
    BY <1>7, <1>10
  <2>3. Value(c) = (Lead(c) * 64 + Low(c[2])) * 64 + Low(c[3])
    BY <1>10 DEF Value
  <2> QED  BY <1>5, <2>1, <2>2, <2>3
<1>11. CASE Len(c) = 4
  <2>1. /\ f[1] = f[0] * 64 + Low(c[2]) /\ f[2] = f[1] * 64 + Low(c[3])
        /\ f[3] = f[2] * 64 + Low(c[4])
    BY <1>6, <1>11
  <2>2. Unicode(s, i) = f[3]
    BY <1>7, <1>11
  <2>3. Value(c) = ((Lead(c) * 64 + Low(c[2])) * 64 + Low(c[3])) * 64 + Low(c[4])
    BY <1>11 DEF Value
  <2> QED  BY <1>5, <2>1, <2>2, <2>3
<1> QED  BY <1>2, <1>8, <1>9, <1>10, <1>11

LEMMA LeadOf ==
  /\ \A a \in 194 .. 223 : a % 32 \in 2 .. 31 /\ a = 192 + (a % 32)
  /\ \A a \in 224 .. 239 : a % 16 \in 0 .. 15 /\ a = 224 + (a % 16)
  /\ \A a \in 240 .. 247 : a % 8 \in 0 .. 7 /\ a = 240 + (a % 8)
  /\ \A a \in 1 .. 127 : a % 128 = a
  /\ \A b \in 128 .. 191 : b % 64 \in 0 .. 63 /\ b = 128 + (b % 64)
<1>1. \A a \in 194 .. 223 : a % 32 \in 2 .. 31 /\ a = 192 + (a % 32)
  OBVIOUS
<1>2. \A a \in 224 .. 239 : a % 16 \in 0 .. 15 /\ a = 224 + (a % 16)
  OBVIOUS
<1>3. \A a \in 240 .. 247 : a % 8 \in 0 .. 7 /\ a = 240 + (a % 8)
  OBVIOUS
<1>4. \A a \in 1 .. 127 : a % 128 = a
  OBVIOUS
<1>5. \A b \in 128 .. 191 : b % 64 \in 0 .. 63 /\ b = 128 + (b % 64)
  OBVIOUS
<1> QED  BY <1>1, <1>2, <1>3, <1>4, <1>5

LEMMA CharLow ==
  ASSUME NEW c \in Char, NEW k \in 2 .. Len(c)
  PROVE  Low(c[k]) \in 0 .. 63 /\ c[k] = 128 + Low(c[k])
<1> DEFINE b == c[k]
<1>1. b \in 128 .. 191
  BY CharBytes
<1>2. \A x \in 128 .. 191 : x % 64 \in 0 .. 63 /\ x = 128 + (x % 64)
  BY LeadOf, Zenon
<1> HIDE DEF b
<1>3. b % 64 \in 0 .. 63 /\ b = 128 + (b % 64)
  BY <1>1, <1>2, Zenon
<1> QED  BY <1>3 DEF Low, b

LEMMA CharLead ==
  ASSUME NEW c \in Char
  PROVE  \/ /\ Len(c) = 1 /\ Lead(c) = c[1] /\ c[1] \in 1 .. 127
         \/ /\ Len(c) = 2 /\ Lead(c) \in 2 .. 31 /\ c[1] = 192 + Lead(c)
         \/ /\ Len(c) = 3 /\ Lead(c) \in 0 .. 15 /\ c[1] = 224 + Lead(c)
            /\ Lead(c) = 0 => Low(c[2]) > 31
         \/ /\ Len(c) = 4 /\ Lead(c) \in 0 .. 7 /\ c[1] = 240 + Lead(c)
            /\ Lead(c) = 0 => Low(c[2]) > 15
<1>1. /\ LeadCodes[1] = 128 /\ LeadCodes[2] = 32
      /\ LeadCodes[3] = 16 /\ LeadCodes[4] = 8
  BY DEF LeadCodes
<1>2. Len(c) \in 1 .. 4
  BY CharBytes
<1>3. CASE Len(c) = 1
  <2>1. c[1] \in 1 .. 127
    <3> DEFINE n == Len(c)
               a == c[1]
    <3>1. \/ n = 1 /\ a \in 1 .. 127
          \/ n = 2 \/ n = 3 \/ n = 4
      BY DEF Char, WellFormed
    <3>2. n = 1
      BY <1>3
    <3> HIDE DEF n, a
    <3>3. a \in 1 .. 127
      BY <3>1, <3>2
    <3> QED  BY <3>3 DEF a
  <2>2. Lead(c) = c[1] % 128
    BY <1>1, <1>3 DEF Lead
  <2>3. Lead(c) = c[1]
    BY <2>1, <2>2, LeadOf
  <2> QED  BY <1>3, <2>1, <2>3
<1>4. CASE Len(c) = 2
  <2>1. c[1] \in 194 .. 223
    <3>1. Len(c) = 2 => c[1] \in 194 .. 223
      BY CharBytes, SMTT(30)
    <3> QED  BY <1>4, <3>1, Zenon
  <2>2. Lead(c) = c[1] % 32
    BY <1>1, <1>4 DEF Lead
  <2> QED  BY <1>4, <2>1, <2>2, LeadOf
<1>5. CASE Len(c) = 3
  <2>1. c[1] \in 224 .. 239 /\ (c[1] = 224 => c[2] > 159)
    <3>1. Len(c) = 3 => c[1] \in 224 .. 239 /\ (c[1] = 224 => c[2] > 159)
      BY CharBytes, Zenon
    <3> QED  BY <1>5, <3>1, Zenon
  <2>2. Lead(c) = c[1] % 16
    BY <1>1, <1>5 DEF Lead
  <2>3. Lead(c) \in 0 .. 15 /\ c[1] = 224 + Lead(c)
    BY <2>1, <2>2, LeadOf
  <2>4. Low(c[2]) \in 0 .. 63 /\ c[2] = 128 + Low(c[2])
    <3>1. 2 \in 2 .. Len(c)
      BY <1>5
    <3> QED  BY <3>1, CharLow, Zenon
  <2>5. Lead(c) = 0 => Low(c[2]) > 31
    BY <2>1, <2>3, <2>4
  <2> QED  BY <1>5, <2>3, <2>5
<1>6. CASE Len(c) = 4
  <2>1. c[1] \in 240 .. 247 /\ (c[1] = 240 => c[2] > 143)
    <3>1. Len(c) = 4 => c[1] \in 240 .. 247 /\ (c[1] = 240 => c[2] > 143)
      BY CharBytes, Zenon
    <3> QED  BY <1>6, <3>1, Zenon
  <2>2. Lead(c) = c[1] % 8
    BY <1>1, <1>6 DEF Lead
  <2>3. Lead(c) \in 0 .. 7 /\ c[1] = 240 + Lead(c)
    BY <2>1, <2>2, LeadOf
  <2>4. Low(c[2]) \in 0 .. 63 /\ c[2] = 128 + Low(c[2])
    <3>1. 2 \in 2 .. Len(c)
      BY <1>6
    <3> QED  BY <3>1, CharLow, Zenon
  <2>5. Lead(c) = 0 => Low(c[2]) > 15
    BY <2>1, <2>3, <2>4
  <2> QED  BY <1>6, <2>3, <2>5
<1> QED  BY <1>2, <1>3, <1>4, <1>5, <1>6

LEMMA OneAhead ==
  ASSUME NEW T, NEW b \in T, NEW y \in Seq(T)
  PROVE  \A i \in 1 .. 1 + Len(y) : (<<b>> \o y)[i] = IF i <= 1 THEN b ELSE y[i - 1]
<1>1. <<b>> \in Seq(T) /\ Len(<<b>>) = 1 /\ <<b>>[1] = b
  OBVIOUS
<1> DEFINE x == <<b>>
<1>2. x \in Seq(T) /\ Len(x) = 1 /\ x[1] = b
  BY <1>1
<1> HIDE DEF x
<1>3. Len(y) \in Nat
  BY LenProperties
<1>4. ASSUME NEW i \in 1 .. 1 + Len(y)
      PROVE  (x \o y)[i] = IF i <= 1 THEN b ELSE y[i - 1]
  <2>1. i \in 1 .. Len(x) + Len(y)
    BY <1>2
  <2>2. (x \o y)[i] = IF i <= Len(x) THEN x[i] ELSE y[i - Len(x)]
    BY <1>2, <2>1, ConcatProperties
  <2>3. (x \o y)[i] = IF i <= 1 THEN x[i] ELSE y[i - 1]
    BY <1>2, <2>2
  <2>4. i <= 1 => i = 1
    BY <1>3
  <2> QED  BY <1>2, <2>3, <2>4, Zenon
<1> QED  BY <1>4 DEF x

LEMMA SpreadIs ==
  ASSUME NEW u \in Nat, NEW lead \in Nat, NEW codes \in {32, 16, 8, 4}, NEW k \in 1 .. 4,
         lead + codes <= 256, NEW c \in Strings, Len(c) = k + 1,
         c[1] = lead + (Shifted(u, 64)[k] % codes),
         \A j \in 1 .. k : c[j + 1] = 128 + (Shifted(u, 64)[k - j] % 64)
  PROVE  Spread(u, lead, codes, k) = c
<1> DEFINE S == Shifted(u, 64)
           b == lead + (S[k] % codes)
           x == <<b>>
           d(j) == 128 + (S[k - j] % 64)
           y == [j \in 1 .. k |-> d(j)]
           e == Spread(u, lead, codes, k)
<1>1. e \in Strings /\ Len(e) = k + 1
  BY SpreadTypes
<1>2. e = x \o y
  BY DEF Spread
<1>3. c[1] = b /\ \A j \in 1 .. k : c[j + 1] = d(j)
  OBVIOUS
<1> DEFINE T == {b} \cup {d(j) : j \in 1 .. k}
<1>10. b \in T /\ \A j \in 1 .. k : d(j) \in T
  OBVIOUS
<1> HIDE DEF b, d, e, T
<1>4. x \in Seq(T) /\ Len(x) = 1 /\ x[1] = b
  BY <1>10
<1>5. /\ y \in Seq(T) /\ Len(y) = k
      /\ \A j \in 1 .. k : y[j] = d(j)
  BY <1>10
<1> HIDE DEF x, y
<1>7. \A i \in 1 .. 1 + k : e[i] = IF i <= 1 THEN b ELSE y[i - 1]
  <2>1. \A i \in 1 .. 1 + Len(y) : (<<b>> \o y)[i] = IF i <= 1 THEN b ELSE y[i - 1]
    BY <1>10, <1>5, OneAhead
  <2> QED  BY <1>2, <1>5, <2>1, Zenon DEF x
<1>8. ASSUME NEW i \in 1 .. k + 1
      PROVE  e[i] = c[i]
  <2>1. CASE i = 1
    BY <1>3, <1>4, <1>7, <2>1
  <2>2. CASE i # 1
    <3>1. i - 1 \in 1 .. k /\ (i - 1) + 1 = i /\ i \in 1 .. 1 + k /\ ~ (i <= 1)
      BY <2>2
    <3>2. e[i] = y[i - 1]
      BY <1>7, <3>1
    <3>3. y[i - 1] = d(i - 1) /\ c[(i - 1) + 1] = d(i - 1)
      BY <1>3, <1>5, <3>1
    <3> QED  BY <3>1, <3>2, <3>3
  <2> QED  BY <2>1, <2>2
<1>9. e = c
  BY <1>1, <1>8, SeqEqual DEF Strings
<1> QED  BY <1>9 DEF e

LEMMA Unshift ==
  ASSUME NEW v \in Nat, NEW d \in 0 .. 63
  PROVE  /\ v * 64 + d \in Nat
         /\ (v * 64 + d) \div 64 = v /\ (v * 64 + d) % 64 = d
OBVIOUS

LEMMA FirstShifts ==
  ASSUME NEW u \in Nat
  PROVE  /\ Shifted(u, 64)[0] = u
         /\ Shifted(u, 64)[1] = u \div 64
         /\ Shifted(u, 64)[2] = (u \div 64) \div 64
         /\ Shifted(u, 64)[3] = ((u \div 64) \div 64) \div 64
<1> DEFINE S == Shifted(u, 64)
<1>1. S[0] = u /\ \A n \in Nat : n # 0 => S[n] = S[n - 1] \div 64
  BY ShiftedUnfolds
<1> HIDE DEF S
<1>2. S[1] = S[0] \div 64 /\ S[2] = S[1] \div 64 /\ S[3] = S[2] \div 64
  BY <1>1
<1> QED  BY <1>1, <1>2 DEF S

LEMMA Small ==
  /\ \A a \in 0 .. 31 : a % 32 = a
  /\ \A a \in 0 .. 15 : a % 16 = a
  /\ \A a \in 0 .. 7 : a % 8 = a
OBVIOUS

LEMMA EncodeOfChar ==
  ASSUME NEW c \in Char
  PROVE  /\ Value(c) \in Nat /\ Encode(Value(c)) = c
         /\ Len(c) < 4 => Value(c) <= ThreeBytes
<1> DEFINE u == Value(c)
           a == Lead(c)
           S == Shifted(u, 64)
           low(k) == Low(c[k])
<1>1. ASSUME NEW k \in 2 .. Len(c)
      PROVE  low(k) \in 0 .. 63 /\ c[k] = 128 + low(k)
  BY CharLow
<1>2. c \in Strings
  BY DEF Char
<1>3. CASE Len(c) = 1 /\ a = c[1] /\ c[1] \in 1 .. 127
  <2>1. u = c[1]
    BY <1>3 DEF Value
  <2>2. u \in Nat /\ u < 128
    BY <1>3, <2>1
  <2>3. Encode(u) = <<u>>
    BY <2>2, EncodeCases
  <2>4. c = <<c[1]>>
    <3>1. <<c[1]>> \in Strings /\ Len(<<c[1]>>) = 1
      BY <1>3 DEF Strings, Byte
    <3>2. \A i \in 1 .. Len(c) : c[i] = <<c[1]>>[i]
      BY <1>3
    <3> DEFINE e == <<c[1]>>
    <3> HIDE DEF e
    <3>3. c = e
      BY <1>2, <1>3, <3>1, <3>2, SeqEqual DEF Strings, e
    <3> QED  BY <3>3 DEF e
  <2>5. u <= ThreeBytes
    BY <2>2, LastOfThree
  <2> QED  BY <2>1, <2>2, <2>3, <2>4, <2>5
<1>4. CASE Len(c) = 2 /\ a \in 2 .. 31 /\ c[1] = 192 + a
  <2> DEFINE l == low(2)
  <2>1. l \in 0 .. 63 /\ c[2] = 128 + l
    BY <1>1, <1>4
  <2>2. u = a * 64 + l
    BY <1>4 DEF Value
  <2> HIDE DEF a, l, u
  <2>3. u \in Nat /\ u > 127 /\ u < 2048 /\ a \in Nat /\ a % 32 = a
    BY <1>4, <2>1, <2>2, Small
  <2>4. u \div 64 = a /\ u % 64 = l
    <3>1. (a * 64 + l) \div 64 = a /\ (a * 64 + l) % 64 = l
      BY <2>1, <2>3, Unshift, SMTT(30)
    <3> QED  BY <2>2, <3>1
  <2>5. S[0] = u /\ S[1] = a
    BY <2>3, <2>4, FirstShifts
  <2>6. c[1] = 192 + (S[1] % 32)
    BY <1>4, <2>3, <2>5
  <2>7. \A j \in 1 .. 1 : c[j + 1] = 128 + (S[1 - j] % 64)
    BY <2>1, <2>4, <2>5
  <2> HIDE DEF S
  <2>8. Spread(u, 192, 32, 1) = c
    BY <1>2, <1>4, <2>3, <2>6, <2>7, SpreadIs DEF S
  <2>9. Encode(u) = c
    BY <2>3, <2>8, EncodeCases
  <2>10. u <= ThreeBytes
    BY <2>3, LastOfThree
  <2> QED  BY <2>3, <2>9, <2>10 DEF u
<1>5. CASE /\ Len(c) = 3 /\ a \in 0 .. 15 /\ c[1] = 224 + a
           /\ a = 0 => low(2) > 31
  <2> DEFINE l == low(2)
             m == low(3)
             v == a * 64 + l
  <2>1. l \in 0 .. 63 /\ c[2] = 128 + l /\ m \in 0 .. 63 /\ c[3] = 128 + m
    BY <1>1, <1>5
  <2>2. u = v * 64 + m
    BY <1>5 DEF Value
  <2>3. a = 0 => l > 31
    BY <1>5
  <2> HIDE DEF a, l, m, u
  <2>4. v \in Nat /\ v > 31 /\ v < 1024 /\ a \in Nat /\ a % 16 = a
    BY <1>5, <2>1, <2>3, Small
  <2>5. v \div 64 = a /\ v % 64 = l
    BY <2>1, <2>4, Unshift
  <2> HIDE DEF v
  <2>6. u \in Nat /\ u > 2047
    BY <2>1, <2>2, <2>4
  <2>7. u <= ThreeBytes
    <3>1. 64 * 1023 + 63 = ThreeBytes
      BY DEF ThreeBytes
    <3>2. ThreeBytes \in Nat
      BY LastOfThree
    <3>3. u <= 64 * 1023 + 63
      BY <2>1, <2>2, <2>4
    <3> QED  BY <3>1, <3>3
  <2>8. u \div 64 = v /\ u % 64 = m
    BY <2>1, <2>2, <2>4, Unshift
  <2>9. S[0] = u /\ S[1] = v /\ S[2] = a
    BY <2>5, <2>6, <2>8, FirstShifts
  <2>10. c[1] = 224 + (S[2] % 16)
    BY <1>5, <2>4, <2>9
  <2>11. \A j \in 1 .. 2 : c[j + 1] = 128 + (S[2 - j] % 64)
    BY <2>1, <2>5, <2>8, <2>9
  <2> HIDE DEF S
  <2>12. Spread(u, 224, 16, 2) = c
    BY <1>2, <1>5, <2>6, <2>10, <2>11, SpreadIs DEF S
  <2>13. Encode(u) = c
    BY <2>6, <2>7, <2>12, EncodeCases
  <2> QED  BY <2>6, <2>7, <2>13 DEF u
<1>6. CASE /\ Len(c) = 4 /\ a \in 0 .. 7 /\ c[1] = 240 + a
           /\ a = 0 => low(2) > 15
  <2> DEFINE l == low(2)
             m == low(3)
             n == low(4)
             v == a * 64 + l
             w == v * 64 + m
  <2>1. /\ l \in 0 .. 63 /\ c[2] = 128 + l /\ m \in 0 .. 63 /\ c[3] = 128 + m
        /\ n \in 0 .. 63 /\ c[4] = 128 + n
    BY <1>1, <1>6
  <2>2. u = w * 64 + n
    BY <1>6 DEF Value
  <2>3. a = 0 => l > 15
    BY <1>6
  <2> HIDE DEF a, l, m, n, u
  <2>4. v \in Nat /\ v > 15 /\ v < 512 /\ a \in Nat /\ a % 8 = a
    BY <1>6, <2>1, <2>3, Small
  <2>5. v \div 64 = a /\ v % 64 = l
    BY <2>1, <2>4, Unshift
  <2> HIDE DEF v
  <2>6. w \in Nat /\ w > 1023 /\ w < 64 * 512
    BY <2>1, <2>4
  <2>7. w \div 64 = v /\ w % 64 = m
    BY <2>1, <2>4, Unshift
  <2> HIDE DEF w
  <2>8. u \in Nat
    BY <2>1, <2>2, <2>6
  <2>9. u > ThreeBytes /\ u <= FourBytes
    <3> DEFINE q == 1023
    <3>1. ThreeBytes = 64 * q + 63
      BY DEF ThreeBytes
    <3>2. w > q /\ q \in Nat
      BY <2>6
    <3> HIDE DEF q
    <3>3. u > ThreeBytes
      BY <2>1, <2>2, <2>6, <3>1, <3>2
    <3> DEFINE p == 1024
    <3>4. p \in Nat /\ w < 32 * p /\ ThreeBytes > p
      BY <2>6, LastOfThree
    <3> HIDE DEF p
    <3>5. u < 2048 * p
      BY <2>1, <2>2, <2>6, <3>4
    <3>6. u <= FourBytes
      BY <2>8, <3>4, <3>5, LastOfThree
    <3> QED  BY <3>3, <3>6
  <2>10. u \div 64 = w /\ u % 64 = n
    BY <2>1, <2>2, <2>6, Unshift
  <2>11. S[0] = u /\ S[1] = w /\ S[2] = v /\ S[3] = a
    BY <2>5, <2>7, <2>8, <2>10, FirstShifts
  <2>12. c[1] = 240 + (S[3] % 8)
    BY <1>6, <2>4, <2>11
  <2>13. \A j \in 1 .. 3 : c[j + 1] = 128 + (S[3 - j] % 64)
    BY <2>1, <2>5, <2>7, <2>10, <2>11
  <2> HIDE DEF S
  <2>14. Spread(u, 240, 8, 3) = c
    BY <1>2, <1>6, <2>8, <2>12, <2>13, SpreadIs DEF S
  <2>15. Encode(u) = c
    BY <2>8, <2>9, <2>14, EncodeCases
  <2> QED  BY <1>6, <2>8, <2>15 DEF u
<1> QED  BY <1>3, <1>4, <1>5, <1>6, CharLead

-----------------------------------------------------------------------------
(* A numeric character reference is read as the number it was printed for. *)

LEMMA ConcatAt ==
  ASSUME NEW s \in Strings, NEW t \in Strings
  PROVE  /\ s \o t \in Strings /\ Len(s \o t) = Len(s) + Len(t)
         /\ \A k \in 1 .. Len(s) : (s \o t)[k] = s[k]
         /\ \A k \in 1 .. Len(t) : (s \o t)[Len(s) + k] = t[k]
<1>1. Len(s) \in Nat /\ Len(t) \in Nat
  BY LengthType
<1>2. ASSUME NEW k \in 1 .. Len(s)
      PROVE  (s \o t)[k] = s[k]
  <2>1. k \in 1 .. Len(s) + Len(t) /\ k <= Len(s)
    BY <1>1
  <2> QED  BY <2>1, ConcatProperties DEF Strings
<1>3. ASSUME NEW k \in 1 .. Len(t)
      PROVE  (s \o t)[Len(s) + k] = t[k]
  <2> DEFINE i == Len(s) + k
  <2>1. i \in 1 .. Len(s) + Len(t) /\ ~ (i <= Len(s)) /\ i - Len(s) = k
    BY <1>1
  <2> HIDE DEF i
  <2>2. (s \o t)[i] = t[i - Len(s)]
    BY <2>1, ConcatProperties DEF Strings
  <2> QED  BY <2>1, <2>2 DEF i
<1>4. s \o t \in Strings /\ Len(s \o t) = Len(s) + Len(t)
  BY StringConcat
<1> QED  BY <1>2, <1>3, <1>4

LEMMA NcrIs ==
  ASSUME NEW u \in Code
  PROVE  LET d == Digits(u)
             S == Shifted(u, 10)
         IN  /\ Ncr(u) \in Strings /\ d \in 1 .. 10 /\ Len(Ncr(u)) = d + 3
             /\ Ncr(u)[1] = Amp /\ Ncr(u)[2] = Hash /\ Ncr(u)[d + 3] = Semicolon
             /\ \A j \in 1 .. d : Ncr(u)[j + 2] = 48 + (S[d - j] % 10)
<1> DEFINE S == Shifted(u, 10)
           d == Digits(u)
           x == <<Amp, Hash>>
           y == [i \in 1 .. d |-> 48 + (S[d - i] % 10)]
           z == <<Semicolon>>
           digit(j) == 48 + (S[d - j] % 10)
<1>1. S \in [Nat -> Nat] /\ d \in 1 .. 10
  <2>1. u \in Nat
    BY CodeBound
  <2> QED  BY <2>1, ShiftedUnfolds, DigitsEnd
<1>2. Ncr(u) = (x \o y) \o z
  BY DEF Ncr, Decimal
<1> HIDE DEF S, d
<1>3. \A j \in 1 .. d : digit(j) \in Byte
  <2> TAKE j \in 1 .. d
  <2>1. d - j \in Nat
    BY <1>1
  <2>2. S[d - j] \in Nat
    BY <1>1, <2>1
  <2>3. S[d - j] % 10 \in 0 .. 9
    BY <2>2
  <2> QED  BY <2>3 DEF Byte
<1>4. x \in Strings /\ Len(x) = 2 /\ x[1] = Amp /\ x[2] = Hash
  BY DEF Strings, Byte, Amp, Hash
<1>5. y \in Strings /\ Len(y) = d /\ \A j \in 1 .. d : y[j] = digit(j)
  BY <1>1, <1>3 DEF Strings
<1>6. z \in Strings /\ Len(z) = 1 /\ z[1] = Semicolon
  BY DEF Strings, Byte, Semicolon
<1> HIDE DEF x, y, z, digit
<1> DEFINE w == x \o y
<1>7. /\ w \in Strings /\ Len(w) = 2 + d
      /\ w[1] = x[1] /\ w[2] = x[2] /\ \A j \in 1 .. d : w[2 + j] = y[j]
  <2>3. /\ w \in Strings /\ Len(w) = Len(x) + Len(y)
        /\ \A k \in 1 .. Len(x) : w[k] = x[k]
        /\ \A k \in 1 .. Len(y) : w[Len(x) + k] = y[k]
    <3>1. x \in Strings /\ y \in Strings
      BY <1>4, <1>5
    <3> QED  BY <3>1, ConcatAt, Zenon
  <2> HIDE DEF w
  <2>1. /\ w \in Strings /\ Len(w) = 2 + d
        /\ \A k \in 1 .. 2 : w[k] = x[k]
        /\ \A k \in 1 .. d : w[2 + k] = y[k]
    BY <1>4, <1>5, <2>3
  <2>2. 1 \in 1 .. 2 /\ 2 \in 1 .. 2
    OBVIOUS
  <2>4. w[1] = x[1] /\ w[2] = x[2]
    BY <2>1, <2>2, Zenon
  <2> QED  BY <2>1, <2>4
<1> HIDE DEF w
<1> DEFINE n == w \o z
<1>8. /\ n \in Strings /\ Len(n) = (2 + d) + 1
      /\ (\A k \in 1 .. 2 + d : n[k] = w[k]) /\ n[(2 + d) + 1] = z[1]
  <2>3. /\ n \in Strings /\ Len(n) = Len(w) + Len(z)
        /\ \A k \in 1 .. Len(w) : n[k] = w[k]
        /\ \A k \in 1 .. Len(z) : n[Len(w) + k] = z[k]
    <3>1. w \in Strings /\ z \in Strings
      BY <1>6, <1>7
    <3> QED  BY <3>1, ConcatAt, Zenon
  <2> HIDE DEF n
  <2>1. /\ n \in Strings /\ Len(n) = (2 + d) + 1
        /\ \A k \in 1 .. 2 + d : n[k] = w[k]
        /\ \A k \in 1 .. 1 : n[(2 + d) + k] = z[k]
    BY <1>6, <1>7, <2>3
  <2>2. 1 \in 1 .. 1
    OBVIOUS
  <2>4. n[(2 + d) + 1] = z[1]
    BY <2>1, <2>2, Zenon
  <2> QED  BY <2>1, <2>4
<1>9. Ncr(u) = n
  BY <1>2 DEF w
<1> HIDE DEF n
<1>10. Len(n) = d + 3 /\ (2 + d) + 1 = d + 3
  BY <1>1, <1>8
<1>11. n[1] = Amp /\ n[2] = Hash /\ n[d + 3] = Semicolon
  <2>1. 1 \in 1 .. 2 + d /\ 2 \in 1 .. 2 + d
    BY <1>1
  <2> QED  BY <1>4, <1>6, <1>7, <1>8, <1>10, <2>1
<1>12. ASSUME NEW j \in 1 .. d
       PROVE  n[j + 2] = digit(j)
  <2>1. 2 + j \in 1 .. 2 + d /\ j + 2 = 2 + j
    BY <1>1
  <2> QED  BY <1>5, <1>7, <1>8, <2>1
<1>13. /\ Ncr(u) \in Strings /\ d \in 1 .. 10 /\ Len(Ncr(u)) = d + 3
       /\ Ncr(u)[1] = Amp /\ Ncr(u)[2] = Hash /\ Ncr(u)[d + 3] = Semicolon
       /\ \A j \in 1 .. d : Ncr(u)[j + 2] = digit(j)
  BY <1>1, <1>8, <1>9, <1>10, <1>11, <1>12, Zenon
<1> QED  BY <1>13, Zenon DEF digit, S, d

LEMMA TenthFits ==
  ASSUME NEW v \in Nat, NEW y \in Nat, v * 10 <= y
  PROVE  v <= y \div 10
OBVIOUS

LEMMA FurtherIs ==
  ASSUME NEW x \in Code
  PROVE  Further(x \div 10, 48 + (x % 10)) = x
<1> DEFINE v == x \div 10
           r == x % 10
           b == 48 + r
<1>1. x \in Nat /\ x <= INT_MAX /\ INT_MAX \in Nat
  BY CodeBound, LastOfThree
<1>2. v \in Nat /\ r \in 0 .. 9 /\ x = 10 * v + r
  BY <1>1, Quotients
<1> HIDE DEF v, r
<1>3. b \in 48 .. 57 /\ b - 48 = r
  BY <1>2
<1> HIDE DEF b
<1>4. INT_MAX - r \in Nat /\ v * 10 <= INT_MAX - r
  BY <1>1, <1>2
<1>5. v <= (INT_MAX - r) \div 10
  BY <1>2, <1>4, TenthFits
<1>6. (INT_MAX - r) \div 10 \in Nat
  BY <1>4
<1> DEFINE q == (INT_MAX - r) \div 10
<1>7. v \in 0 .. q
  BY <1>2, <1>5, <1>6
<1>8. v * 10 + r = x
  BY <1>2
<1> HIDE DEF q
<1>9. Further(v, b) = IF b \in 48 .. 57 /\ v \in 0 .. ((INT_MAX - (b - 48)) \div 10)
                      THEN v * 10 + (b - 48) ELSE -1
  BY Zenon DEF Further
<1>10. Further(v, b) = v * 10 + r
  <2>1. v \in 0 .. ((INT_MAX - (b - 48)) \div 10)
    BY <1>3, <1>7 DEF q
  <2>2. Further(v, b) = v * 10 + (b - 48)
    BY <1>3, <1>9, <2>1, Zenon
  <2> QED  BY <1>3, <2>2, Zenon
<1> QED  BY <1>8, <1>10, Zenon DEF v, r, b

LEMMA ShiftedFalls ==
  ASSUME NEW u \in Code, NEW n \in Nat
  PROVE  Shifted(u, 10)[n] \in Code
<1> DEFINE S == Shifted(u, 10)
           Fails == {k \in Nat : S[k] \notin Code}
<1>1. u \in Nat
  BY CodeBound
<1>2. S \in [Nat -> Nat] /\ S[0] = u /\ \A k \in Nat : k # 0 => S[k] = S[k - 1] \div 10
  BY <1>1, ShiftedUnfolds
<1> HIDE DEF S
<1>3. Fails = {}
  <2> SUFFICES ASSUME Fails # {} PROVE FALSE
    OBVIOUS
  <2>1. PICK m \in Fails : \A k \in Fails : m <= k
    <3>1. Fails \subseteq Nat
      OBVIOUS
    <3> HIDE DEF Fails
    <3> QED  BY <3>1, NatLeast
  <2>2. m # 0
    BY <1>2, <2>1
  <2>3. m - 1 \in Nat /\ S[m - 1] \in Code
    BY <2>1, <2>2
  <2>4. S[m] = S[m - 1] \div 10
    BY <1>2, <2>1, <2>2
  <2>5. ASSUME NEW x \in Nat, NEW M \in Nat, x <= M
        PROVE  x \div 10 \in 0 .. M
    BY <2>5
  <2>6. S[m - 1] \in Nat /\ S[m - 1] <= INT_MAX /\ INT_MAX \in Nat
    BY <2>3, CodeBound, LastOfThree
  <2>7. S[m] \in 0 .. INT_MAX
    BY <2>4, <2>5, <2>6
  <2> QED  BY <2>1, <2>7 DEF Code
<1> QED  BY <1>3 DEF S

LEMMA SemicolonIsFound ==
  ASSUME NEW s \in Strings, NEW i \in Nat, NEW j \in i .. Len(s) - 1, At(s, j) = Semicolon
  PROVE  AfterNcr(s, i) # -1
<1> DEFINE T == {m \in i .. (Len(s) - 1) : At(s, m) = Semicolon}
<1>1. AfterNcr(s, i) = IF T = {} THEN -1 ELSE Min(T) + 1
  BY DEF AfterNcr
<1>2. Len(s) \in Nat
  BY LengthType
<1>3. T \subseteq Nat
  BY <1>2
<1>4. T # {}
  BY DEF T
<1> HIDE DEF T
<1>5. Min(T) \in Nat
  BY <1>3, <1>4, LeastIs
<1> QED  BY <1>1, <1>4, <1>5

LEMMA NcrReads ==
  ASSUME NEW s \in Strings, NEW i \in Nat, NEW u \in Code,
         \A k \in 0 .. Len(Ncr(u)) - 1 : At(s, i + k) = Ncr(u)[k + 1]
  PROVE  AfterNcr(s, i) = i + Len(Ncr(u)) /\ NcrValue(s, i) = u
<1> DEFINE n == Ncr(u)
           d == Digits(u)
           S == Shifted(u, 10)
           e == AfterNcr(s, i)
<1>1. /\ n \in Strings /\ d \in 1 .. 10 /\ Len(n) = d + 3
      /\ n[1] = Amp /\ n[2] = Hash /\ n[d + 3] = Semicolon
      /\ \A j \in 1 .. d : n[j + 2] = 48 + (S[d - j] % 10)
  BY NcrIs
<1>2. /\ S \in [Nat -> Nat] /\ S[0] = u /\ S[d] = 0
      /\ \A m \in Nat : m # 0 => S[m] = S[m - 1] \div 10
      /\ \A m \in Nat : S[m] \in Code
  <2>1. u \in Nat
    BY CodeBound
  <2> QED  BY <2>1, ShiftedUnfolds, DigitsEnd, ShiftedFalls
<1>3. \A k \in 0 .. Len(n) - 1 : At(s, i + k) = n[k + 1]
  OBVIOUS
<1> HIDE DEF n, d, S
<1>4. \A k \in 0 .. d + 2 : At(s, i + k) = n[k + 1]
  BY <1>1, <1>3
<1>5. At(s, i) = Amp /\ At(s, i + 1) = Hash /\ At(s, i + (d + 2)) = Semicolon
  <2>1. /\ 0 \in 0 .. d + 2 /\ 1 \in 0 .. d + 2 /\ d + 2 \in 0 .. d + 2
        /\ i + 0 = i /\ 0 + 1 = 1 /\ 1 + 1 = 2 /\ (d + 2) + 1 = d + 3
    BY <1>1
  <2>2. At(s, i + 0) = n[0 + 1] /\ At(s, i + 1) = n[1 + 1]
        /\ At(s, i + (d + 2)) = n[(d + 2) + 1]
    BY <1>4, <2>1
  <2> QED  BY <1>1, <2>1, <2>2
<1>6. ASSUME NEW j \in 1 .. d
      PROVE  At(s, i + 1 + j) = 48 + (S[d - j] % 10)
  <2>1. j + 1 \in 0 .. d + 2 /\ i + 1 + j = i + (j + 1) /\ (j + 1) + 1 = j + 2
    BY <1>1
  <2>2. At(s, i + (j + 1)) = n[(j + 1) + 1]
    BY <1>4, <2>1
  <2> QED  BY <1>1, <2>1, <2>2
<1>7. ASSUME NEW j \in i .. i + (d + 1)
      PROVE  At(s, j) # Semicolon
  <2>1. CASE j = i
    BY <1>5, <2>1 DEF Amp, Semicolon
  <2>2. CASE j = i + 1
    BY <1>5, <2>2 DEF Hash, Semicolon
  <2>3. CASE j > i + 1
    <3> DEFINE k == j - (i + 1)
    <3>1. k \in 1 .. d /\ i + 1 + k = j /\ d - k \in Nat
      BY <1>1, <2>3
    <3> HIDE DEF k
    <3>2. At(s, j) = 48 + (S[d - k] % 10)
      BY <1>6, <3>1
    <3>3. S[d - k] \in Nat
      BY <1>2, <3>1
    <3> DEFINE x == S[d - k]
    <3>4. x \in Nat /\ At(s, j) = 48 + (x % 10)
      BY <3>2, <3>3
    <3> HIDE DEF x
    <3>5. x % 10 \in 0 .. 9
      BY <3>4
    <3> QED  BY <3>4, <3>5 DEF Semicolon
  <2> QED  BY <2>1, <2>2, <2>3
<1>8. i + (d + 2) \in i .. Len(s) - 1
  <2>1. i + (d + 2) < Len(s)
    BY <1>5 DEF At, Semicolon
  <2>2. Len(s) \in Nat
    BY LengthType
  <2> QED  BY <1>1, <2>1, <2>2
<1>9. e # -1
  BY <1>5, <1>8, SemicolonIsFound
<1>10. /\ e \in i + 1 .. Len(s) /\ At(s, e - 1) = Semicolon
       /\ \A j \in i .. e - 2 : At(s, j) # Semicolon
  BY <1>9, AfterNcrIs
<1>11. Len(s) \in Nat
  BY LengthType
<1> HIDE DEF e
<1>12. e = i + (d + 3)
  <2>1. ~ (e - 1 \in i .. i + (d + 1))
    BY <1>7, <1>10
  <2>2. ~ (i + (d + 2) \in i .. e - 2)
    BY <1>5, <1>10
  <2>3. e \in Nat /\ e >= i + 1
    BY <1>10, <1>11
  <2> QED  BY <1>1, <2>1, <2>2, <2>3
<1>13. PICK f \in [Nat -> Code \cup {-1}] :
         /\ f[0] = 0
         /\ \A k \in Nat : k # 0 => f[k] = Further(f[k - 1], At(s, i + 1 + k))
         /\ e - i - 3 \in Nat
         /\ NcrValue(s, i) = f[e - i - 3]
  BY <1>5, <1>9, NcrValueUnfolds DEF e
<1>14. \A k \in 0 .. d : f[k] = S[d - k]
  <2> DEFINE Fails == {k \in 0 .. d : f[k] # S[d - k]}
  <2> SUFFICES ASSUME Fails # {} PROVE FALSE
    OBVIOUS
  <2>1. PICK m \in Fails : \A k \in Fails : m <= k
    <3>1. Fails \subseteq Nat
      BY <1>1
    <3> HIDE DEF Fails
    <3> QED  BY <3>1, NatLeast
  <2>2. m # 0
    <3>1. d - 0 = d
      BY <1>1
    <3>2. f[0] = S[d - 0]
      BY <1>2, <1>13, <3>1
    <3> QED  BY <2>1, <3>2
  <2>3. /\ m \in Nat /\ m \in 1 .. d /\ m - 1 \in 0 .. d /\ m - 1 < m
        /\ d - (m - 1) \in Nat /\ d - (m - 1) # 0 /\ (d - (m - 1)) - 1 = d - m
        /\ d - m \in Nat
    BY <1>1, <2>1, <2>2
  <2>4. f[m - 1] = S[d - (m - 1)]
    BY <2>1, <2>3
  <2>5. S[d - (m - 1)] = S[d - m] \div 10
    BY <1>2, <2>3
  <2>6. f[m] = Further(f[m - 1], At(s, i + 1 + m))
    BY <1>13, <2>2, <2>3, Zenon
  <2>7. At(s, i + 1 + m) = 48 + (S[d - m] % 10)
    BY <1>6, <2>3
  <2> DEFINE x == S[d - m]
  <2>8. x \in Code
    BY <1>2, <2>3
  <2>9. f[m] = Further(x \div 10, 48 + (x % 10))
    BY <2>4, <2>5, <2>6, <2>7
  <2> HIDE DEF x
  <2>10. f[m] = x
    BY <2>8, <2>9, FurtherIs
  <2> QED  BY <2>1, <2>10 DEF x
<1>15. NcrValue(s, i) = u
  <2>1. e - i - 3 = d /\ d \in 0 .. d /\ d - d = 0
    BY <1>1, <1>12
  <2>2. NcrValue(s, i) = f[d]
    BY <1>13, <2>1
  <2>3. f[d] = S[d - d]
    BY <1>14, <2>1
  <2> QED  BY <1>2, <2>1, <2>2, <2>3
<1> QED  BY <1>1, <1>12, <1>15 DEF e, n

-----------------------------------------------------------------------------
(* An escape is read as the byte it was written for.                       *)

LEMMA HexDigit ==
  ASSUME NEW d \in 0 .. 15
  PROVE  FromHex(ToHex(d)) = d
<1> DEFINE b == ToHex(d)
           low == b \in 97 .. 102
           high0 == b \in 65 .. 70
           r == FromHex(b)
<1>1. \/ d <= 9 /\ b = d + 48
      \/ d > 9 /\ b = d + 55
  BY DEF ToHex
<1>2. r = CASE low -> b - 87 [] high0 -> b - 55 [] OTHER -> (b - 48) % 256
  BY DEF FromHex
<1>3. ~ low /\ (high0 <=> d > 9)
  BY <1>1
<1> HIDE DEF low, high0, r, b
<1>4. CASE d > 9
  <2>1. r = b - 55
    BY <1>2, <1>3, <1>4, Zenon
  <2>2. r = d
    BY <1>1, <1>4, <2>1
  <2> QED  BY <2>2 DEF r, b
<1>5. CASE ~ (d > 9)
  <2>1. r = (b - 48) % 256
    BY <1>2, <1>3, <1>5, Zenon
  <2>2. r = d
    BY <1>1, <1>5, <2>1
  <2> QED  BY <2>2 DEF r, b
<1> QED  BY <1>4, <1>5

Half(x) == IF x % 2 = 1 THEN 1 ELSE 0

LEMMA HalfByte ==
  ASSUME NEW h \in 0 .. 15
  PROVE  h = 8 * Half(h \div 8) + 4 * Half(h \div 4) + 2 * Half(h \div 2) + Half(h)
BY DEF Half

LEMMA HighBits ==
  ASSUME NEW h \in 0 .. 15
  PROVE  /\ (16 * h) \div 128 = h \div 8 /\ (16 * h) \div 64 = h \div 4
         /\ (16 * h) \div 32 = h \div 2 /\ (16 * h) \div 16 = h
         /\ ((16 * h) \div 8) % 2 = 0 /\ ((16 * h) \div 4) % 2 = 0
         /\ ((16 * h) \div 2) % 2 = 0 /\ ((16 * h) \div 1) % 2 = 0
         /\ (16 * h) \div 256 = 0 /\ (h * 16) % 256 = 16 * h
OBVIOUS

LEMMA LowBits ==
  ASSUME NEW l \in 0 .. 15
  PROVE  /\ (l \div 128) % 2 = 0 /\ (l \div 64) % 2 = 0
         /\ (l \div 32) % 2 = 0 /\ (l \div 16) % 2 = 0 /\ l \div 1 = l
OBVIOUS

LEMMA HalvesMerge ==
  ASSUME NEW h \in 0 .. 15, NEW l \in 0 .. 15
  PROVE  HexMerge(h, l) = 16 * h + l
<1> DEFINE a == 16 * h
           Bit(k) == IF (a \div k) % 2 = 1 \/ (l \div k) % 2 = 1 THEN k ELSE 0
<1>1. HexMerge(h, l) = Or(a, l)
  BY HighBits DEF HexMerge
<1>2. Or(a, l) = 256 * (a \div 256) + Bit(128) + Bit(64) + Bit(32) + Bit(16)
                   + Bit(8) + Bit(4) + Bit(2) + Bit(1)
  BY DEF Or
<1>3. /\ a \div 128 = h \div 8 /\ a \div 64 = h \div 4 /\ a \div 32 = h \div 2
      /\ a \div 16 = h /\ (a \div 8) % 2 = 0 /\ (a \div 4) % 2 = 0
      /\ (a \div 2) % 2 = 0 /\ (a \div 1) % 2 = 0 /\ a \div 256 = 0
  BY HighBits
<1> HIDE DEF a
<1>4. Bit(128) = 128 * Half(h \div 8)
  BY <1>3, LowBits DEF Half
<1>5. Bit(64) = 64 * Half(h \div 4)
  BY <1>3, LowBits DEF Half
<1>6. Bit(32) = 32 * Half(h \div 2)
  BY <1>3, LowBits DEF Half
<1>7. Bit(16) = 16 * Half(h)
  BY <1>3, LowBits DEF Half
<1>8. Bit(8) = 8 * Half(l \div 8)
  BY <1>3, LowBits DEF Half
<1>9. Bit(4) = 4 * Half(l \div 4)
  BY <1>3, LowBits DEF Half
<1>10. Bit(2) = 2 * Half(l \div 2)
  BY <1>3, LowBits DEF Half
<1>11. Bit(1) = Half(l)
  BY <1>3, LowBits DEF Half
<1>12. /\ Half(h \div 8) \in 0 .. 1 /\ Half(h \div 4) \in 0 .. 1
       /\ Half(h \div 2) \in 0 .. 1 /\ Half(h) \in 0 .. 1
       /\ Half(l \div 8) \in 0 .. 1 /\ Half(l \div 4) \in 0 .. 1
       /\ Half(l \div 2) \in 0 .. 1 /\ Half(l) \in 0 .. 1
  BY DEF Half
<1>13. /\ h = 8 * Half(h \div 8) + 4 * Half(h \div 4) + 2 * Half(h \div 2) + Half(h)
       /\ l = 8 * Half(l \div 8) + 4 * Half(l \div 4) + 2 * Half(l \div 2) + Half(l)
  BY HalfByte
<1> HIDE DEF Bit
<1>14. Or(a, l) = 256 * 0 + 128 * Half(h \div 8) + 64 * Half(h \div 4)
           + 32 * Half(h \div 2) + 16 * Half(h)
           + 8 * Half(l \div 8) + 4 * Half(l \div 4) + 2 * Half(l \div 2) + Half(l)
  BY <1>2, <1>3, <1>4, <1>5, <1>6, <1>7, <1>8, <1>9, <1>10, <1>11
<1> DEFINE h8 == Half(h \div 8)
           h4 == Half(h \div 4)
           h2 == Half(h \div 2)
           h1 == Half(h)
           l8 == Half(l \div 8)
           l4 == Half(l \div 4)
           l2 == Half(l \div 2)
           l1 == Half(l)
<1>15. /\ h8 \in 0 .. 1 /\ h4 \in 0 .. 1 /\ h2 \in 0 .. 1 /\ h1 \in 0 .. 1
       /\ l8 \in 0 .. 1 /\ l4 \in 0 .. 1 /\ l2 \in 0 .. 1 /\ l1 \in 0 .. 1
       /\ h = 8 * h8 + 4 * h4 + 2 * h2 + h1
       /\ l = 8 * l8 + 4 * l4 + 2 * l2 + l1
       /\ Or(a, l) = 256 * 0 + 128 * h8 + 64 * h4 + 32 * h2 + 16 * h1
                       + 8 * l8 + 4 * l4 + 2 * l2 + l1
  BY <1>12, <1>13, <1>14
<1> HIDE DEF h8, h4, h2, h1, l8, l4, l2, l1
<1>16. Or(a, l) = 16 * h + l
  BY <1>15
<1> QED  BY <1>1, <1>16

Escape(b) == <<Percent, ToHex(b \div 16), ToHex(b % 16)>>

LEMMA EscapeReads ==
  ASSUME NEW b \in Byte
  PROVE  /\ HexMerge(FromHex(ToHex(b \div 16)), FromHex(ToHex(b % 16))) = b
         /\ Escape(b) \in Strings /\ Len(Escape(b)) = 3
         /\ Escape(b)[1] = Percent /\ Escape(b)[2] = ToHex(b \div 16)
         /\ Escape(b)[3] = ToHex(b % 16)
<1> DEFINE h == b \div 16
           l == b % 16
<1>1. h \in 0 .. 15 /\ l \in 0 .. 15 /\ 16 * h + l = b
  BY DEF Byte
<1> HIDE DEF h, l
<1>2. HexMerge(FromHex(ToHex(h)), FromHex(ToHex(l))) = b
  BY <1>1, HexDigit, HalvesMerge
<1>3. ToHex(h) \in Byte /\ ToHex(l) \in Byte /\ Percent \in Byte
  BY <1>1, ToHexType DEF Byte, Percent
<1> DEFINE e == <<Percent, ToHex(h), ToHex(l)>>
<1>4. /\ e \in Strings /\ Len(e) = 3
      /\ e[1] = Percent /\ e[2] = ToHex(h) /\ e[3] = ToHex(l)
  BY <1>3 DEF Strings
<1> QED  BY <1>2, <1>4 DEF Escape, h, l

-----------------------------------------------------------------------------
(* A 16 bit code is read as the code it was written for.                   *)
Halves(u) == <<u % 256, (u \div 256) % 256>>

LEMMA HalvesRead ==
  ASSUME NEW u \in Nat, u <= ThreeBytes
  PROVE  /\ Halves(u) \in Strings /\ Len(Halves(u)) = 2
         /\ Halves(u)[1] + 256 * Halves(u)[2] = u
<1> DEFINE a == u % 256
           b == u \div 256
<1>1. ThreeBytes = 256 * 255 + 255
  BY DEF ThreeBytes
<1>2. a \in 0 .. 255 /\ b \in Nat /\ u = a + 256 * b
  OBVIOUS
<1> HIDE DEF a, b
<1>3. b \in 0 .. 255
  BY <1>1, <1>2
<1>4. b % 256 = b
  BY <1>3
<1> DEFINE e == <<a, b % 256>>
<1>5. e \in Strings /\ Len(e) = 2 /\ e[1] = a /\ e[2] = b
  BY <1>2, <1>3, <1>4 DEF Strings, Byte
<1> HIDE DEF e
<1>6. e[1] + 256 * e[2] = u
  BY <1>2, <1>3, <1>5
<1> QED  BY <1>5, <1>6 DEF Halves, e, a, b

-----------------------------------------------------------------------------
(* What is spelled, and how a loop goes through it.                        *)
NcrPieces == {<<c, Ncr(Value(c))>> : c \in Characters}
UrlPieces == {<<<<b>>, Escape(b)>> : b \in 1 .. 255}
UcsPieces == {<<c, Halves(Value(c))>> : c \in {x \in Characters : Len(x) < 4}}

LEMMA CharactersAre ==
  /\ Characters \subseteq Char
  /\ \A c \in Characters : Value(c) \in Code
<1>1. ASSUME NEW c \in Characters
      PROVE  c \in Strings
  <2>1. c \in Seq(1 .. 255) /\ 1 .. 255 \subseteq Byte
    BY Utf8Assumption DEF Byte
  <2>2. Seq(1 .. 255) \subseteq Seq(Byte)
    <3>1. ASSUME NEW t \in Seq(1 .. 255)
          PROVE  t \in Seq(Byte)
      <4>1. \A i \in 1 .. Len(t) : t[i] \in 1 .. 255
        BY ElementOfSeq
      <4>2. \A i \in 1 .. Len(t) : t[i] \in Byte
        BY <4>1 DEF Byte
      <4> QED  BY <4>2, SeqDef
    <3> QED  BY <3>1
  <2> QED  BY <2>1, <2>2 DEF Strings
<1>2. Characters \subseteq Char
  BY <1>1, Utf8Assumption DEF Char
<1>3. ASSUME NEW c \in Characters
      PROVE  Value(c) \in Code
  <2> DEFINE v == Value(c)
  <2>1. c \in Char
    BY <1>2
  <2>2. v \in Nat
    BY <2>1, EncodeOfChar
  <2>3. v < 512 * (64 * 64)
    <3> DEFINE n == Len(c)
               a == Lead(c)
               x == Low(c[2])
               y == Low(c[3])
               z == Low(c[4])
    <3>1. n \in 1 .. 4
      BY <2>1, CharBytes
    <3>2. n >= 2 => x \in 0 .. 63
      <4>1. n >= 2 => 2 \in 2 .. Len(c)
        BY <3>1
      <4>2. 2 \in 2 .. Len(c) => x \in 0 .. 63
        BY <2>1, CharLow, Zenon
      <4> QED  BY <4>1, <4>2
    <3>3. n >= 3 => y \in 0 .. 63
      <4>1. n >= 3 => 3 \in 2 .. Len(c)
        BY <3>1
      <4>2. 3 \in 2 .. Len(c) => y \in 0 .. 63
        BY <2>1, CharLow, Zenon
      <4> QED  BY <4>1, <4>2
    <3>4. n >= 4 => z \in 0 .. 63
      <4>1. n >= 4 => 4 \in 2 .. Len(c)
        BY <3>1
      <4>2. 4 \in 2 .. Len(c) => z \in 0 .. 63
        BY <2>1, CharLow, Zenon
      <4> QED  BY <4>1, <4>2
    <3>5. \/ n = 1 /\ a \in 1 .. 127
          \/ n = 2 /\ a \in 2 .. 31
          \/ n = 3 /\ a \in 0 .. 15
          \/ n = 4 /\ a \in 0 .. 7
      BY <2>1, CharLead
    <3>6. v = IF n = 1 THEN a
              ELSE IF n = 2 THEN a * 64 + x
              ELSE IF n = 3 THEN (a * 64 + x) * 64 + y
              ELSE ((a * 64 + x) * 64 + y) * 64 + z
      BY DEF Value
    <3> HIDE DEF v, n, a, x, y, z
    <3>7. CASE n = 1
      BY <3>5, <3>6, <3>7
    <3>8. CASE n = 2
      <4>1. a \in 2 .. 31 /\ x \in 0 .. 63 /\ v = a * 64 + x
        BY <3>2, <3>5, <3>6, <3>8
      <4> QED  BY <4>1
    <3>9. CASE n = 3
      <4>1. /\ a \in 0 .. 15 /\ x \in 0 .. 63 /\ y \in 0 .. 63
            /\ v = (a * 64 + x) * 64 + y
        BY <3>2, <3>3, <3>5, <3>6, <3>9
      <4> QED  BY <4>1
    <3>10. CASE n = 4
      <4> DEFINE i == a * 64 + x
                 j == i * 64 + y
      <4>1. /\ a \in 0 .. 7 /\ x \in 0 .. 63 /\ y \in 0 .. 63 /\ z \in 0 .. 63
            /\ v = j * 64 + z
        BY <3>2, <3>3, <3>4, <3>5, <3>6, <3>10
      <4>2. i \in Nat /\ i < 512
        BY <4>1
      <4> HIDE DEF i
      <4>3. j \in Nat /\ j < 512 * 64
        BY <4>1, <4>2
      <4> HIDE DEF j
      <4> QED  BY <4>1, <4>3
    <3> QED  BY <3>1, <3>7, <3>8, <3>9, <3>10
  <2> HIDE DEF v
  <2>4. v \in 0 .. INT_MAX
    <3> DEFINE p == 64 * 64
    <3>1. p \in Nat /\ p = 64 * 64
      OBVIOUS
    <3>2. ThreeBytes > 2047 /\ ThreeBytes \in Nat
      BY LastOfThree
    <3>3. p < 2 * ThreeBytes + 2
      BY <3>2
    <3>4. v < 512 * p
      BY <2>3
    <3> HIDE DEF p
    <3>5. v < 1024 * ThreeBytes + 1024
      BY <2>2, <3>1, <3>3, <3>4, LastOfThree
    <3> QED  BY <2>2, <3>5, LastOfThree
  <2> QED  BY <2>4 DEF Code, v
<1> QED  BY <1>2, <1>3

LEMMA PiecesAre ==
  NcrPieces \subseteq Pairs2 /\ UrlPieces \subseteq Pairs2 /\ UcsPieces \subseteq Pairs2
<1>1. ASSUME NEW c \in Characters
      PROVE  <<c, Ncr(Value(c))>> \in Pairs2
  <2>1. c \in Strings /\ Value(c) \in Code
    BY CharactersAre DEF Char
  <2>2. Ncr(Value(c)) \in Strings
    BY <2>1, NcrIs
  <2> QED  BY <2>1, <2>2 DEF Pairs2
<1>2. ASSUME NEW b \in 1 .. 255
      PROVE  <<<<b>>, Escape(b)>> \in Pairs2
  <2>1. b \in Byte
    BY DEF Byte
  <2>2. <<b>> \in Strings
    BY <2>1 DEF Strings
  <2>3. Escape(b) \in Strings
    BY <2>1, EscapeReads
  <2> QED  BY <2>2, <2>3 DEF Pairs2
<1>3. ASSUME NEW c \in {x \in Characters : Len(x) < 4}
      PROVE  <<c, Halves(Value(c))>> \in Pairs2
  <2>1. c \in Char /\ Len(c) < 4
    BY CharactersAre
  <2>2. Value(c) \in Nat /\ Value(c) <= ThreeBytes
    BY <2>1, EncodeOfChar
  <2>3. Halves(Value(c)) \in Strings
    BY <2>2, HalvesRead
  <2> QED  BY <2>1, <2>3 DEF Pairs2, Char
<1> QED  BY <1>1, <1>2, <1>3 DEF NcrPieces, UrlPieces, UcsPieces

LEMMA ConcatRegroup ==
  ASSUME NEW s \in Strings, NEW t \in Strings, NEW u \in Strings
  PROVE  (s \o t) \o u = s \o (t \o u)
BY ConcatAssociative DEF Strings

LEMMA ConcatEmpty ==
  ASSUME NEW s \in Strings
  PROVE  s \o <<>> = s /\ <<>> \o s = s
BY DEF Strings

LEMMA AtEndOf ==
  ASSUME NEW s \in Strings
  PROVE  At(s, Len(s)) = 0
BY LengthType DEF At

\* The loop of a conversion, a bytes into the text t: o and the spelling of
\* what is left of t make a spelling of t.
Forth(P, t, a, o) ==
  \E r \in Spelt(P), p \in Strings :
    t = p \o r[1] /\ a = Len(p) /\ <<t, o \o r[2]>> \in Spelt(P)

\* The loop of the conversion back, a bytes into the spelling s: o and the
\* text of what is left of s make t.
Homeward(P, t, s, a, o) ==
  \E r \in Spelt(P), p \in Strings :
    s = p \o r[2] /\ a = Len(p) /\ t = o \o r[1]

LEMMA ForthSteps ==
  ASSUME NEW P, P \subseteq Pairs2, NEW t \in Strings, NEW a \in Nat, NEW o \in Strings,
         Forth(P, t, a, o)
  PROVE  \/ a = Len(t) /\ <<t, o>> \in Spelt(P)
         \/ \E q \in P :
              /\ \A k \in 0 .. Len(q[1]) - 1 : At(t, a + k) = q[1][k + 1]
              /\ Forth(P, t, a + Len(q[1]), o \o q[2])
<1>1. PICK r \in Spelt(P), p \in Strings :
        t = p \o r[1] /\ a = Len(p) /\ <<t, o \o r[2]>> \in Spelt(P)
  BY DEF Forth
<1>2. CASE r = <<<<>>, <<>>>>
  <2>1. r[1] = <<>> /\ r[2] = <<>>
    BY <1>2
  <2>2. t = p /\ o \o r[2] = o
    BY <1>1, <2>1, ConcatEmpty
  <2> QED  BY <1>1, <2>2
<1>3. ASSUME NEW q \in P, NEW z \in Spelt(P), r = <<q[1] \o z[1], q[2] \o z[2]>>
      PROVE  \E x \in P :
              /\ \A k \in 0 .. Len(x[1]) - 1 : At(t, a + k) = x[1][k + 1]
              /\ Forth(P, t, a + Len(x[1]), o \o x[2])
  <2>1. q[1] \in Strings /\ q[2] \in Strings
    BY DEF Pairs2
  <2>2. z[1] \in Strings /\ z[2] \in Strings
    BY SpeltBuilds DEF Pairs2
  <2>3. r[1] = q[1] \o z[1] /\ r[2] = q[2] \o z[2]
    BY <1>3
  <2>4. ASSUME NEW k \in 0 .. Len(q[1]) - 1
        PROVE  At(t, a + k) = q[1][k + 1]
    <3>1. k \in Nat /\ k < Len(q[1])
      BY <2>1, LengthType
    <3> QED  BY <1>1, <2>1, <2>2, <2>3, <3>1, AtWithin
  <2>5. Forth(P, t, a + Len(q[1]), o \o q[2])
    <3>1. t = (p \o q[1]) \o z[1]
      <4>1. (p \o q[1]) \o z[1] = p \o (q[1] \o z[1])
        <5> DEFINE y == q[1]
                   x == z[1]
        <5>1. y \in Strings /\ x \in Strings
          BY <2>1, <2>2
        <5> HIDE DEF x, y
        <5>2. (p \o y) \o x = p \o (y \o x)
          BY <5>1, ConcatRegroup
        <5> QED  BY <5>2 DEF x, y
      <4> QED  BY <1>1, <2>3, <4>1, Zenon
    <3>2. p \o q[1] \in Strings /\ Len(p \o q[1]) = a + Len(q[1])
      BY <1>1, <2>1, StringConcat
    <3>3. (o \o q[2]) \o z[2] = o \o r[2]
      <4>1. (o \o q[2]) \o z[2] = o \o (q[2] \o z[2])
        <5> DEFINE y == q[2]
                   x == z[2]
        <5>1. y \in Strings /\ x \in Strings
          BY <2>1, <2>2
        <5> HIDE DEF x, y
        <5>2. (o \o y) \o x = o \o (y \o x)
          BY <5>1, ConcatRegroup
        <5> QED  BY <5>2 DEF x, y
      <4> QED  BY <1>1, <2>3, <4>1, Zenon
    <3>4. <<t, (o \o q[2]) \o z[2]>> \in Spelt(P)
      BY <1>1, <3>3
    <3> QED  BY <3>1, <3>2, <3>4 DEF Forth
  <2> QED  BY <2>4, <2>5
<1> QED  BY <1>2, <1>3, SpeltInverts

LEMMA HomewardSteps ==
  ASSUME NEW P, P \subseteq Pairs2, NEW t \in Strings, NEW s \in Strings,
         NEW a \in Nat, NEW o \in Strings, Homeward(P, t, s, a, o)
  PROVE  \/ a = Len(s) /\ o = t
         \/ \E q \in P :
              /\ \A k \in 0 .. Len(q[2]) - 1 : At(s, a + k) = q[2][k + 1]
              /\ a + Len(q[2]) <= Len(s) /\ Len(o) + Len(q[1]) <= Len(t)
              /\ Homeward(P, t, s, a + Len(q[2]), o \o q[1])
<1>1. PICK r \in Spelt(P), p \in Strings :
        s = p \o r[2] /\ a = Len(p) /\ t = o \o r[1]
  BY DEF Homeward
<1>2. CASE r = <<<<>>, <<>>>>
  <2>1. r[1] = <<>> /\ r[2] = <<>>
    BY <1>2
  <2>2. s = p /\ o = t
    BY <1>1, <2>1, ConcatEmpty
  <2> QED  BY <1>1, <2>2
<1>3. ASSUME NEW q \in P, NEW z \in Spelt(P), r = <<q[1] \o z[1], q[2] \o z[2]>>
      PROVE  \E x \in P :
              /\ \A k \in 0 .. Len(x[2]) - 1 : At(s, a + k) = x[2][k + 1]
              /\ a + Len(x[2]) <= Len(s) /\ Len(o) + Len(x[1]) <= Len(t)
              /\ Homeward(P, t, s, a + Len(x[2]), o \o x[1])
  <2>1. q[1] \in Strings /\ q[2] \in Strings
    BY DEF Pairs2
  <2>2. z[1] \in Strings /\ z[2] \in Strings
    BY SpeltBuilds DEF Pairs2
  <2>3. r[1] = q[1] \o z[1] /\ r[2] = q[2] \o z[2]
    BY <1>3
  <2>4. ASSUME NEW k \in 0 .. Len(q[2]) - 1
        PROVE  At(s, a + k) = q[2][k + 1]
    <3>1. k \in Nat /\ k < Len(q[2])
      BY <2>1, LengthType
    <3> QED  BY <1>1, <2>1, <2>2, <2>3, <3>1, AtWithin
  <2>5. Homeward(P, t, s, a + Len(q[2]), o \o q[1])
    <3>1. s = (p \o q[2]) \o z[2]
      <4>1. (p \o q[2]) \o z[2] = p \o (q[2] \o z[2])
        <5> DEFINE y == q[2]
                   x == z[2]
        <5>1. y \in Strings /\ x \in Strings
          BY <2>1, <2>2
        <5> HIDE DEF x, y
        <5>2. (p \o y) \o x = p \o (y \o x)
          BY <5>1, ConcatRegroup
        <5> QED  BY <5>2 DEF x, y
      <4> QED  BY <1>1, <2>3, <4>1, Zenon
    <3>2. p \o q[2] \in Strings /\ Len(p \o q[2]) = a + Len(q[2])
      BY <1>1, <2>1, StringConcat
    <3>3. (o \o q[1]) \o z[1] = t
      <4>1. (o \o q[1]) \o z[1] = o \o (q[1] \o z[1])
        <5> DEFINE y == q[1]
                   x == z[1]
        <5>1. y \in Strings /\ x \in Strings
          BY <2>1, <2>2
        <5> HIDE DEF x, y
        <5>2. (o \o y) \o x = o \o (y \o x)
          BY <5>1, ConcatRegroup
        <5> QED  BY <5>2 DEF x, y
      <4> QED  BY <1>1, <2>3, <4>1, Zenon
    <3> QED  BY <3>1, <3>2, <3>3 DEF Homeward
  <2>6. a + Len(q[2]) <= Len(s)
    <3> DEFINE x == Len(q[2])
               y == Len(z[2])
    <3>1. Len(s) = a + Len(r[2]) /\ Len(r[2]) = x + y
      BY <1>1, <2>1, <2>2, <2>3, StringConcat
    <3>2. x \in Nat /\ y \in Nat
      BY <2>1, <2>2, LengthType
    <3> HIDE DEF x, y
    <3>3. a + x <= Len(s)
      BY <3>1, <3>2
    <3> QED  BY <3>3 DEF x
  <2>7. Len(o) + Len(q[1]) <= Len(t)
    <3> DEFINE x == Len(q[1])
               y == Len(z[1])
               n == Len(o)
    <3>1. Len(t) = n + Len(r[1]) /\ Len(r[1]) = x + y
      BY <1>1, <2>1, <2>2, <2>3, StringConcat
    <3>2. x \in Nat /\ y \in Nat /\ n \in Nat
      BY <2>1, <2>2, LengthType
    <3> HIDE DEF x, y, n
    <3>3. n + x <= Len(t)
      BY <3>1, <3>2
    <3> QED  BY <3>3 DEF x, n
  <2> QED  BY <2>4, <2>5, <2>6, <2>7
<1> QED  BY <1>2, <1>3, SpeltInverts

LEMMA ForthStarts ==
  ASSUME NEW P, P \subseteq Pairs2, NEW t \in Strings, NEW w, <<t, w>> \in Spelt(P)
  PROVE  Forth(P, t, 0, <<>>)
<1> DEFINE r == <<t, w>>
<1>1. r \in Pairs2
  BY SpeltBuilds
<1>2. w \in Strings
  BY <1>1 DEF Pairs2
<1>3. <<>> \in Strings /\ Len(<<>>) = 0
  BY DEF Strings
<1>4. t = <<>> \o r[1] /\ 0 = Len(<<>>) /\ <<t, <<>> \o r[2]>> \in Spelt(P)
  BY <1>2, <1>3, ConcatEmpty
<1> QED  BY <1>3, <1>4 DEF Forth

LEMMA HomewardStarts ==
  ASSUME NEW P, P \subseteq Pairs2, NEW t \in Strings, NEW w, <<t, w>> \in Spelt(P)
  PROVE  Homeward(P, t, w, 0, <<>>)
<1> DEFINE r == <<t, w>>
<1>1. r \in Pairs2
  BY SpeltBuilds
<1>2. w \in Strings
  BY <1>1 DEF Pairs2
<1>3. <<>> \in Strings /\ Len(<<>>) = 0
  BY DEF Strings
<1>4. w = <<>> \o r[2] /\ 0 = Len(<<>>) /\ t = <<>> \o r[1]
  BY <1>2, <1>3, ConcatEmpty
<1> QED  BY <1>3, <1>4 DEF Homeward

Spellable(P, t) == \E w \in Strings : <<t, w>> \in Spelt(P)

LEMMA PrependPiece ==
  ASSUME NEW P, P \subseteq Pairs2, NEW q \in P, NEW t \in Strings, Spellable(P, t)
  PROVE  Spellable(P, q[1] \o t)
<1>1. PICK w \in Strings : <<t, w>> \in Spelt(P)
  BY DEF Spellable
<1> DEFINE r == <<t, w>>
<1>2. <<q[1] \o r[1], q[2] \o r[2]>> \in Spelt(P)
  BY <1>1, SpeltBuilds DEF Prepending
<1>3. q[2] \in Strings
  BY DEF Pairs2
<1>4. q[2] \o w \in Strings
  BY <1>3, StringConcat
<1> QED  BY <1>2, <1>4 DEF Spellable

LEMMA JoinedSpell ==
  ASSUME NEW P, P \subseteq Pairs2, NEW S, S \subseteq Strings,
         \A c \in S, t \in Strings : Spellable(P, t) => Spellable(P, c \o t)
  PROVE  \A t \in Joined(S) : t \in Strings /\ Spellable(P, t)
<1>1. PICK f \in [Nat -> SUBSET Strings] :
        /\ f[0] = {<<>>}
        /\ \A n \in Nat : n # 0 => f[n] = f[n - 1] \cup {p[1] \o p[2] : p \in S \X f[n - 1]}
        /\ Joined(S) = f[Pieces]
  BY JoinedUnfolds, Zenon
<1> DEFINE Fails == {n \in Nat : \E t \in f[n] : ~ Spellable(P, t)}
<1>2. Fails = {}
  <2> SUFFICES ASSUME Fails # {} PROVE FALSE
    OBVIOUS
  <2>1. PICK m \in Fails : \A k \in Fails : m <= k
    <3>1. Fails \subseteq Nat
      OBVIOUS
    <3> HIDE DEF Fails
    <3> QED  BY <3>1, NatLeast
  <2>2. PICK t \in f[m] : ~ Spellable(P, t)
    BY <2>1
  <2>3. Spellable(P, <<>>)
    <3>1. <<<<>>, <<>>>> \in Spelt(P)
      BY SpeltBuilds DEF Prepending
    <3>2. <<>> \in Strings
      BY DEF Strings
    <3> QED  BY <3>1, <3>2 DEF Spellable
  <2>4. m # 0
    BY <1>1, <2>2, <2>3
  <2>5. m \in Nat /\ m - 1 \in Nat /\ m - 1 \notin Fails
    BY <2>1, <2>4
  <2>6. \A x \in f[m - 1] : x \in Strings /\ Spellable(P, x)
    BY <1>1, <2>5
  <2>7. t \in f[m - 1] \cup {p[1] \o p[2] : p \in S \X f[m - 1]}
    BY <1>1, <2>2, <2>4, <2>5, Zenon
  <2>8. t \notin f[m - 1]
    BY <2>2, <2>6
  <2>9. PICK p \in S \X f[m - 1] : t = p[1] \o p[2]
    BY <2>7, <2>8
  <2>10. p[1] \in S /\ p[2] \in f[m - 1]
    BY <2>9
  <2>11. Spellable(P, p[1] \o p[2])
    BY <2>6, <2>10
  <2> QED  BY <2>2, <2>9, <2>11
<1>3. Pieces \in Nat
  BY Utf8Assumption
<1>4. ASSUME NEW t \in Joined(S)
      PROVE  t \in Strings /\ Spellable(P, t)
  <2>1. t \in f[Pieces] /\ f[Pieces] \subseteq Strings
    BY <1>1, <1>3
  <2> QED  BY <1>2, <1>3, <2>1
<1> QED  BY <1>4

LEMMA BytesSpell ==
  ASSUME NEW c \in Seq(1 .. 255), NEW t \in Strings, Spellable(UrlPieces, t)
  PROVE  Spellable(UrlPieces, c \o t)
<1> DEFINE T == Seq(1 .. 255)
           Bad(x) == ~ Spellable(UrlPieces, x \o t)
           Fails == {n \in Nat : \E x \in T : Len(x) = n /\ Bad(x)}
<1>1. T \subseteq Strings
  <2>1. ASSUME NEW x \in Seq(1 .. 255)
        PROVE  x \in Seq(Byte)
    <3>1. \A i \in 1 .. Len(x) : x[i] \in 1 .. 255
      BY ElementOfSeq
    <3>2. \A i \in 1 .. Len(x) : x[i] \in Byte
      BY <3>1 DEF Byte
    <3> QED  BY <3>2, SeqDef
  <2> QED  BY <2>1 DEF Strings
<1>2. Fails = {}
  <2> SUFFICES ASSUME Fails # {} PROVE FALSE
    OBVIOUS
  <2>1. PICK m \in Fails : \A k \in Fails : m <= k
    <3>1. Fails \subseteq Nat
      OBVIOUS
    <3> HIDE DEF Fails
    <3> QED  BY <3>1, NatLeast
  <2>2. PICK x \in T : Len(x) = m /\ Bad(x)
    BY <2>1
  <2>3. x # <<>>
    <3>1. <<>> \o t = t
      BY ConcatEmpty
    <3> QED  BY <2>2, <3>1
  <2>4. /\ Head(x) \in 1 .. 255 /\ Tail(x) \in T /\ Len(Tail(x)) = m - 1
        /\ x = <<Head(x)>> \o Tail(x) /\ m - 1 \in Nat /\ m - 1 < m
    <3>1. x \in Seq(1 .. 255)
      OBVIOUS
    <3>2. /\ Head(x) \in 1 .. 255 /\ Tail(x) \in T /\ Len(Tail(x)) = Len(x) - 1
          /\ x = <<Head(x)>> \o Tail(x)
      BY <2>3, <3>1, HeadTailProperties
    <3>3. Len(Tail(x)) \in Nat /\ Len(x) \in Nat
      BY <3>1, <3>2, LenProperties
    <3> QED  BY <2>2, <3>2, <3>3
  <2> DEFINE b == Head(x)
             y == Tail(x)
             q == <<<<b>>, Escape(b)>>
  <2>5. ~ Bad(y)
    <3>1. m - 1 \notin Fails
      BY <2>1, <2>4
    <3> QED  BY <2>4, <3>1
  <2>6. q \in UrlPieces /\ q[1] = <<b>>
    BY <2>4 DEF UrlPieces
  <2>7. y \in Strings /\ y \o t \in Strings
    <3>1. y \in Strings
      BY <1>1, <2>4
    <3> QED  BY <3>1, StringConcat
  <2>8. Spellable(UrlPieces, <<b>> \o (y \o t))
    <3> HIDE DEF b, y, q
    <3> QED  BY <2>5, <2>6, <2>7, PiecesAre, PrependPiece, Zenon
  <2>9. <<b>> \o (y \o t) = x \o t
    <3>1. <<b>> \in Strings
      BY <2>4 DEF Strings, Byte
    <3>2. x = <<b>> \o y
      BY <2>4
    <3> HIDE DEF b, y
    <3>3. (<<b>> \o y) \o t = <<b>> \o (y \o t)
      BY <2>7, <3>1, ConcatRegroup
    <3> QED  BY <3>2, <3>3
  <2> QED  BY <2>2, <2>8, <2>9
<1>3. Len(c) \in Nat
  BY LenProperties
<1> QED  BY <1>2, <1>3

LEMMA TextsSpell ==
  /\ \A t \in Utf8Texts :
       t \in Strings /\ Spellable(NcrPieces, t) /\ Spellable(UrlPieces, t)
  /\ \A t \in ShortTexts : t \in Strings /\ Spellable(UcsPieces, t)
<1> DEFINE Short == {x \in Characters : Len(x) < 4}
<1>1. Characters \subseteq Strings /\ Short \subseteq Strings
  BY CharactersAre DEF Char
<1>2. ASSUME NEW t \in Utf8Texts
      PROVE  t \in Strings /\ Spellable(NcrPieces, t)
  <2>1. ASSUME NEW c \in Characters, NEW x \in Strings, Spellable(NcrPieces, x)
        PROVE  Spellable(NcrPieces, c \o x)
    <3> DEFINE q == <<c, Ncr(Value(c))>>
    <3>1. q \in NcrPieces /\ q[1] = c
      BY DEF NcrPieces
    <3> HIDE DEF q
    <3> QED  BY <2>1, <3>1, PiecesAre, PrependPiece, Zenon
  <2> QED  BY <1>1, <2>1, PiecesAre, JoinedSpell DEF Utf8Texts
<1>3. ASSUME NEW t \in Utf8Texts
      PROVE  Spellable(UrlPieces, t)
  <2>1. ASSUME NEW c \in Characters, NEW x \in Strings, Spellable(UrlPieces, x)
        PROVE  Spellable(UrlPieces, c \o x)
    <3>1. c \in Seq(1 .. 255)
      BY Utf8Assumption
    <3> QED  BY <2>1, <3>1, BytesSpell
  <2> QED  BY <1>1, <2>1, PiecesAre, JoinedSpell DEF Utf8Texts
<1>4. ASSUME NEW t \in ShortTexts
      PROVE  t \in Strings /\ Spellable(UcsPieces, t)
  <2>1. ASSUME NEW c \in Short, NEW x \in Strings, Spellable(UcsPieces, x)
        PROVE  Spellable(UcsPieces, c \o x)
    <3> DEFINE q == <<c, Halves(Value(c))>>
    <3>1. q \in UcsPieces /\ q[1] = c
      BY DEF UcsPieces
    <3> HIDE DEF q
    <3> QED  BY <2>1, <3>1, PiecesAre, PrependPiece, Zenon
  <2>2. t \in Joined(Short)
    BY DEF ShortTexts
  <2> HIDE DEF Short
  <2> QED  BY <1>1, <2>1, <2>2, PiecesAre, JoinedSpell
<1> QED  BY <1>2, <1>3, <1>4

-----------------------------------------------------------------------------
(* The invariant: a conversion has spelled what it went through of its     *)
(* text, and the conversion of the answer has read what it went through.   *)
Alphabet ==
  IF op \in {"to_ncr", "from_ncr"} THEN NcrPieces
  ELSE IF op \in {"to_url", "from_url"} THEN UrlPieces
  ELSE UcsPieces

Covered ==
  IF op \in {"to_ucs", "from_ucs"} THEN text \in ShortTexts ELSE text \in Utf8Texts

Outward == op \in {"to_ncr", "to_url", "to_ucs"}
Inward ==
  op \in {"from_ncr", "from_url", "from_ucs"} /\ src # text /\ len >= Len(text)

PhaseFits ==
  /\ phase \in {"gbk", "ncr"} => op = "code_type"
  /\ phase = "utf8" => op \in {"code_type", "to_url"}
  /\ Outward => src = text /\ (phase = "utf8" => out = <<>>)

OutwardSpells ==
  Outward /\ Covered =>
    /\ phase = "write" => Forth(Alphabet, text, at, out)
    /\ phase = "done" /\ ret >= 0 => <<text, out>> \in Spelt(Alphabet)

InwardReads ==
  Inward /\ Covered =>
    /\ phase = "write" => Homeward(Alphabet, text, src, at, out)
    /\ phase = "done" /\ ret >= 0 => out = text

RoundInv == PhaseFits /\ OutwardSpells /\ InwardReads

LEMMA AlphabetIs == Alphabet \subseteq Pairs2
BY PiecesAre DEF Alphabet

LEMMA CoveredSpells ==
  ASSUME Covered, op # "code_type", op \in Operations
  PROVE  text \in Strings /\ Spellable(Alphabet, text)
<1>1. op \in {"to_ncr", "to_url", "to_ucs", "from_ncr", "from_url", "from_ucs"}
  BY OperationNames
<1> QED  BY <1>1, TextsSpell DEF Covered, Alphabet

LEMMA RoundStarts == UtfInit /\ UtfInv => RoundInv
<1> SUFFICES ASSUME UtfInit, UtfInv PROVE RoundInv
  OBVIOUS
<1>1. /\ op \in Operations /\ src = text /\ at = 0 /\ out = <<>> /\ ret = 0
      /\ phase = FirstPhase(op)
  BY DEF UtfInit
<1>2. /\ op = "code_type" => phase = "gbk"
      /\ op = "to_url" => phase = "utf8"
      /\ op \notin {"code_type", "to_url"} => phase = "write"
  <2> DEFINE c1 == op = "code_type"
             c2 == op = "to_url"
             p == FirstPhase(op)
  <2>1. p = CASE c1 -> "gbk" [] c2 -> "utf8" [] OTHER -> "write"
    BY DEF FirstPhase
  <2>2. ~(c1 /\ c2)
    OBVIOUS
  <2> HIDE DEF c1, c2, p
  <2>3. (c1 => p = "gbk") /\ (c2 => p = "utf8") /\ (~c1 /\ ~c2 => p = "write")
    BY <2>1, <2>2, Zenon
  <2> QED  BY <1>1, <2>3 DEF c1, c2, p
<1>3. PhaseFits
  BY <1>1, <1>2 DEF PhaseFits
<1>4. InwardReads
  BY <1>1 DEF InwardReads, Inward
<1>5. OutwardSpells
  <2> SUFFICES ASSUME Outward, Covered
               PROVE  /\ phase = "write" => Forth(Alphabet, text, at, out)
                      /\ ~ (phase = "done")
    BY DEF OutwardSpells
  <2>1. op # "code_type"
    BY DEF Outward
  <2>2. text \in Strings /\ Spellable(Alphabet, text)
    BY <1>1, <2>1, CoveredSpells
  <2>3. Forth(Alphabet, text, 0, <<>>)
    <3>1. PICK w : <<text, w>> \in Spelt(Alphabet)
      BY <2>2 DEF Spellable
    <3> QED  BY <2>2, <3>1, AlphabetIs, ForthStarts, Zenon
  <2>4. phase # "done"
    BY <1>1, <1>2
  <2> QED  BY <1>1, <2>3, <2>4
<1> QED  BY <1>3, <1>4, <1>5 DEF RoundInv

\* A step that leaves everything but the cursor and the answer
LEMMA SameCall ==
  ASSUME UNCHANGED <<op, text, src, len>>
  PROVE  /\ Alphabet' = Alphabet /\ Covered' = Covered
         /\ Outward' = Outward /\ Inward' = Inward
BY DEF Alphabet, Covered, Outward, Inward

LEMMA ConvertBackReads ==
  ASSUME UtfInv, RoundInv, ConvertBack
  PROVE  RoundInv'
<1>1. /\ phase = "done" /\ op \in {"to_ncr", "to_url", "to_ucs"} /\ ret >= 0
      /\ op' = Back[op] /\ src' = out /\ at' = 0 /\ out' = <<>>
      /\ phase' = "write" /\ ret' = 0 /\ text' = text
  BY DEF ConvertBack, Back
<1>2. \/ op = "to_ncr" /\ op' = "from_ncr"
      \/ op = "to_url" /\ op' = "from_url"
      \/ op = "to_ucs" /\ op' = "from_ucs"
  BY <1>1 DEF Back
<1>3. Alphabet' = Alphabet /\ Covered' = Covered
  BY <1>1, <1>2 DEF Alphabet, Covered
<1>4. PhaseFits' /\ OutwardSpells'
  BY <1>1, <1>2 DEF PhaseFits, OutwardSpells, Outward
<1>5. Covered => Homeward(Alphabet, text, out, 0, <<>>)
  <2> SUFFICES ASSUME Covered PROVE Homeward(Alphabet, text, out, 0, <<>>)
    OBVIOUS
  <2>1. <<text, out>> \in Spelt(Alphabet)
    BY <1>1 DEF RoundInv, OutwardSpells, Outward
  <2>2. text \in Strings
    BY DEF UtfInv, UtfTypes
  <2> QED  BY <2>1, <2>2, AlphabetIs, HomewardStarts, Zenon
<1>6. InwardReads'
  BY <1>1, <1>3, <1>5 DEF InwardReads
<1> QED  BY <1>4, <1>6 DEF RoundInv

LEMMA ClassifyingReads ==
  ASSUME RoundInv, IsGbk \/ IsNcr
  PROVE  RoundInv'
<1>1. op = "code_type" /\ op' = op
  <2>1. phase \in {"gbk", "ncr"} /\ op' = op
    BY Zenon DEF IsGbk, IsNcr, InPhase
  <2> QED  BY <2>1 DEF RoundInv, PhaseFits
<1> QED  BY <1>1 DEF RoundInv, PhaseFits, OutwardSpells, InwardReads, Outward, Inward

LEMMA IsUtf8Reads ==
  ASSUME UtfInv, RoundInv, IsUtf8
  PROVE  RoundInv'
<1>1. phase = "utf8" /\ UNCHANGED <<op, text, src, len>>
  BY DEF IsUtf8, InPhase
<1>2. op \in {"code_type", "to_url"}
  BY <1>1 DEF RoundInv, PhaseFits
<1>3. CASE op = "code_type"
  BY <1>1, <1>3 DEF RoundInv, PhaseFits, OutwardSpells, InwardReads, Outward, Inward
<1>4. CASE op = "to_url"
  <2>1. src = text /\ out = <<>>
    BY <1>1, <1>4 DEF RoundInv, PhaseFits, Outward
  <2>2. \/ Asks(op, "write")
        \/ Return(-1)
        \/ Skip(Width(src, at))
    <3> DEFINE c1 == AtEnd /\ op = "code_type"
               c2 == AtEnd /\ op = "to_url"
               c3 == ~AtEnd /\ ~IsCharacter(src, at)
               r == IF op = "to_url" THEN -1 ELSE CODE_UNKWON
    <3>1. /\ InPhase("utf8")
          /\ CASE c1 -> Return(CODE_UTF8) [] c2 -> Asks(op, "write")
               [] c3 -> Return(r) [] OTHER -> Skip(Width(src, at))
      BY DEF IsUtf8
    <3>2. ~ c1 /\ ~(c2 /\ c3)
      BY <1>4
    <3>3. r = -1
      BY <1>4
    <3> HIDE DEF c1, c2, c3, r
    <3> QED  BY <3>1, <3>2, <3>3, Zenon
  <2>3. CASE Asks(op, "write")
    <3>1. phase' = "write" /\ at' = 0 /\ out' = <<>> /\ ret' = ret
      BY <2>1, <2>3 DEF Asks
    <3>2. PhaseFits' /\ InwardReads'
      BY <1>1, <1>4, <2>1, <3>1 DEF PhaseFits, InwardReads, Outward, Inward
    <3>3. Covered => Forth(Alphabet, text, 0, <<>>)
      <4> SUFFICES ASSUME Covered PROVE Forth(Alphabet, text, 0, <<>>)
        OBVIOUS
      <4>1. op # "code_type" /\ op \in Operations
        BY <1>4 DEF UtfInv, UtfTypes
      <4>2. text \in Strings /\ Spellable(Alphabet, text)
        BY <4>1, CoveredSpells
      <4>3. PICK w : <<text, w>> \in Spelt(Alphabet)
        BY <4>2 DEF Spellable
      <4> QED  BY <4>2, <4>3, AlphabetIs, ForthStarts, Zenon
    <3>4. OutwardSpells'
      BY <1>1, <3>1, <3>3, SameCall DEF OutwardSpells
    <3> QED  BY <3>2, <3>4 DEF RoundInv
  <2>4. CASE Return(-1)
    BY <1>1, <1>4, <2>1, <2>4
       DEF Return, RoundInv, PhaseFits, OutwardSpells, InwardReads, Outward, Inward
  <2>5. CASE Skip(Width(src, at))
    BY <1>1, <1>4, <2>1, <2>5
       DEF Skip, RoundInv, PhaseFits, OutwardSpells, InwardReads, Outward, Inward
  <2> QED  BY <2>2, <2>3, <2>4, <2>5
<1> QED  BY <1>2, <1>3, <1>4

LEMMA OutwardKeeps ==
  ASSUME RoundInv, Outward, Same, phase' \in {"write", "done"},
         Covered /\ phase' = "write" => Forth(Alphabet, text, at', out'),
         Covered /\ phase' = "done" /\ ret' >= 0 => <<text, out'>> \in Spelt(Alphabet)
  PROVE  RoundInv'
<1>1. UNCHANGED <<op, text, src, len>>
  BY DEF Same
<1>2. PhaseFits'
  BY <1>1 DEF RoundInv, PhaseFits, Outward
<1>3. OutwardSpells'
  BY <1>1, SameCall DEF OutwardSpells
<1>4. InwardReads'
  BY <1>1 DEF InwardReads, Inward, Outward
<1> QED  BY <1>2, <1>3, <1>4 DEF RoundInv

LEMMA InwardKeeps ==
  ASSUME op \in {"from_ncr", "from_url", "from_ucs"}, Same, phase' \in {"write", "done"},
         Inward /\ Covered /\ phase' = "write" => Homeward(Alphabet, text, src, at', out'),
         Inward /\ Covered /\ phase' = "done" /\ ret' >= 0 => out' = text
  PROVE  RoundInv'
<1>1. UNCHANGED <<op, text, src, len>>
  BY DEF Same
<1>2. PhaseFits'
  BY <1>1 DEF PhaseFits, Outward
<1>3. OutwardSpells'
  BY <1>1 DEF OutwardSpells, Outward
<1>4. InwardReads'
  BY <1>1, SameCall DEF InwardReads
<1> QED  BY <1>2, <1>3, <1>4 DEF RoundInv

\* A character where the cursor is
LEMMA CharAhead ==
  ASSUME NEW s \in Strings, NEW a \in Nat, NEW c \in Char,
         \A k \in 0 .. Len(c) - 1 : At(s, a + k) = c[k + 1]
  PROVE  /\ At(s, a) # 0 /\ Len(c) # 0
         /\ Width(s, a) = Len(c) /\ Unicode(s, a) = Value(c)
<1>1. Len(c) \in 1 .. 4 /\ \A k \in 1 .. Len(c) : c[k] \in 1 .. 255
  BY CharBytes
<1>2. 0 \in 0 .. Len(c) - 1 /\ 1 \in 1 .. Len(c) /\ a + 0 = a /\ 0 + 1 = 1 /\ Len(c) # 0
  BY <1>1
<1>3. At(s, a) = c[1]
  BY <1>2, Zenon
<1> DEFINE b == c[1]
<1>4. b \in 1 .. 255 /\ At(s, a) = b
  BY <1>1, <1>2, <1>3
<1> HIDE DEF b
<1>5. At(s, a) # 0
  BY <1>4
<1> QED  BY <1>2, <1>5, WidthOfChar, UnicodeOfChar

LEMMA ToNcrReads ==
  ASSUME UtfInv, RoundInv, ToNcr
  PROVE  RoundInv'
<1>1. /\ op = "to_ncr" /\ phase = "write" /\ Same /\ src = text /\ Outward
      /\ text \in Strings /\ out \in Strings /\ at \in Nat
  BY DEF ToNcr, Calls, Same, UtfInv, UtfTypes, RoundInv, PhaseFits, Outward
<1> DEFINE c1 == AtEnd
           c2 == ~AtEnd /\ Width(src, at) = 0
           ncr == Ncr(Unicode(src, at))
           next == at + Width(src, at)
           long == Len(out) + Len(ncr) >= len
           e3 == IF long THEN Return(-3) ELSE Write(ncr, next)
<1>2. Calls("to_ncr") /\ CASE c1 -> Return(Len(out)) [] c2 -> Return(-2) [] OTHER -> e3
  BY DEF ToNcr
<1>3. e3 => Return(-3) \/ Write(ncr, next)
  OBVIOUS
<1>4. ~(c1 /\ c2)
  OBVIOUS
<1> HIDE DEF c1, c2, e3
<1>5. /\ c1 => Return(Len(out))
      /\ c2 => Return(-2)
      /\ ~c1 /\ ~c2 => Return(-3) \/ Write(ncr, next)
  BY <1>2, <1>3, <1>4, Zenon
<1>6. phase' \in {"write", "done"}
  BY <1>1, <1>5 DEF Return, Write
<1>7. Alphabet = NcrPieces
  BY <1>1 DEF Alphabet
<1>8. ASSUME Covered
      PROVE  /\ phase' = "write" => Forth(NcrPieces, text, at', out')
             /\ phase' = "done" /\ ret' >= 0 => <<text, out'>> \in Spelt(NcrPieces)
  <2>1. Forth(NcrPieces, text, at, out)
    BY <1>1, <1>7, <1>8 DEF RoundInv, OutwardSpells
  <2>2. CASE at = Len(text) /\ <<text, out>> \in Spelt(NcrPieces)
    <3>1. c1
      BY <1>1, <2>2, AtEndOf DEF c1, AtEnd
    <3> QED  BY <1>5, <2>2, <3>1 DEF Return
  <2>3. ASSUME NEW q \in NcrPieces,
               \A k \in 0 .. Len(q[1]) - 1 : At(text, at + k) = q[1][k + 1],
               Forth(NcrPieces, text, at + Len(q[1]), out \o q[2])
        PROVE  /\ phase' = "write" => Forth(NcrPieces, text, at', out')
               /\ ~ (phase' = "done" /\ ret' >= 0)
    <3>1. PICK c \in Characters : q = <<c, Ncr(Value(c))>>
      BY DEF NcrPieces
    <3>2. q[1] = c /\ q[2] = Ncr(Value(c)) /\ c \in Char
      BY <3>1, CharactersAre
    <3>3. \A k \in 0 .. Len(c) - 1 : At(text, at + k) = c[k + 1]
      BY <2>3, <3>2
    <3>4. /\ At(text, at) # 0 /\ Len(c) # 0
          /\ Width(text, at) = Len(c) /\ Unicode(text, at) = Value(c)
      BY <1>1, <3>2, <3>3, CharAhead
    <3>5. ~c1 /\ ~c2 /\ next = at + Len(q[1]) /\ ncr = q[2]
      BY <1>1, <3>2, <3>4 DEF c1, c2, AtEnd
    <3>6. Return(-3) \/ Write(q[2], at + Len(q[1]))
      BY <1>5, <3>5
    <3>7. CASE Return(-3)
      BY <3>7 DEF Return
    <3>8. CASE Write(q[2], at + Len(q[1]))
      BY <1>1, <2>3, <3>8 DEF Write
    <3> QED  BY <3>6, <3>7, <3>8
  <2>4. \/ at = Len(text) /\ <<text, out>> \in Spelt(NcrPieces)
        \/ \E q \in NcrPieces :
             /\ \A k \in 0 .. Len(q[1]) - 1 : At(text, at + k) = q[1][k + 1]
             /\ Forth(NcrPieces, text, at + Len(q[1]), out \o q[2])
    BY <1>1, <2>1, PiecesAre, ForthSteps, Zenon
  <2> QED  BY <2>2, <2>3, <2>4, Zenon
<1> QED  BY <1>1, <1>6, <1>7, <1>8, OutwardKeeps

LEMMA ToUrlReads ==
  ASSUME UtfInv, RoundInv, ToUrl
  PROVE  RoundInv'
<1>1. /\ op = "to_url" /\ phase = "write" /\ Same /\ src = text /\ Outward
      /\ text \in Strings /\ out \in Strings /\ at \in Nat
  BY DEF ToUrl, Calls, Same, UtfInv, UtfTypes, RoundInv, PhaseFits, Outward
<1> DEFINE c1 == AtEnd
           c2 == ~AtEnd /\ Len(out) + 3 > len
           w == /\ out' = out \o Escape(At(src, at))
                /\ at' = at + 1 /\ UNCHANGED <<phase, ret>>
           e3 == /\ out' = out \o <<Percent, ToHex(At(src, at) \div 16),
                                    ToHex(At(src, at) % 16)>>
                 /\ Touch(Len(out') + 1) /\ at' = at + 1
                 /\ UNCHANGED <<phase, ret>>
<1>2. Calls("to_url") /\ CASE c1 -> Return(Len(out)) [] c2 -> Return(-2) [] OTHER -> e3
  BY DEF ToUrl
<1>3. e3 => w
  BY DEF Escape
<1>4. ~(c1 /\ c2)
  OBVIOUS
<1> HIDE DEF c1, c2, e3, w
<1>5. /\ c1 => Return(Len(out))
      /\ ~c1 => Return(-2) \/ w
  BY <1>2, <1>3, <1>4, Zenon
<1>6. phase' \in {"write", "done"}
  BY <1>1, <1>5 DEF Return, w
<1>7. Alphabet = UrlPieces
  BY <1>1 DEF Alphabet
<1>8. ASSUME Covered
      PROVE  /\ phase' = "write" => Forth(UrlPieces, text, at', out')
             /\ phase' = "done" /\ ret' >= 0 => <<text, out'>> \in Spelt(UrlPieces)
  <2>1. Forth(UrlPieces, text, at, out)
    BY <1>1, <1>7, <1>8 DEF RoundInv, OutwardSpells
  <2>2. CASE at = Len(text) /\ <<text, out>> \in Spelt(UrlPieces)
    <3>1. c1
      BY <1>1, <2>2, AtEndOf DEF c1, AtEnd
    <3> QED  BY <1>5, <2>2, <3>1 DEF Return
  <2>3. ASSUME NEW q \in UrlPieces,
               \A k \in 0 .. Len(q[1]) - 1 : At(text, at + k) = q[1][k + 1],
               Forth(UrlPieces, text, at + Len(q[1]), out \o q[2])
        PROVE  /\ phase' = "write" => Forth(UrlPieces, text, at', out')
               /\ ~ (phase' = "done" /\ ret' >= 0)
    <3>1. PICK b \in 1 .. 255 : q = <<<<b>>, Escape(b)>>
      BY DEF UrlPieces
    <3>2. q[1] = <<b>> /\ q[2] = Escape(b)
      BY <3>1
    <3>3. Len(q[1]) = 1 /\ q[1][0 + 1] = b
      BY <3>2
    <3>4. At(text, at) = b
      <4>1. 0 \in 0 .. Len(q[1]) - 1 /\ at + 0 = at
        BY <1>1, <3>3
      <4>2. At(text, at + 0) = q[1][0 + 1]
        BY <2>3, <4>1, Zenon
      <4> QED  BY <3>3, <4>1, <4>2
    <3>5. ~c1
      BY <1>1, <3>4 DEF c1, AtEnd
    <3>6. CASE Return(-2)
      BY <3>6 DEF Return
    <3>7. CASE w
      <4>1. out' = out \o q[2] /\ at' = at + Len(q[1]) /\ phase' = "write"
        BY <1>1, <3>2, <3>3, <3>4, <3>7 DEF w
      <4> QED  BY <2>3, <4>1
    <3> QED  BY <1>5, <3>5, <3>6, <3>7
  <2>4. \/ at = Len(text) /\ <<text, out>> \in Spelt(UrlPieces)
        \/ \E q \in UrlPieces :
             /\ \A k \in 0 .. Len(q[1]) - 1 : At(text, at + k) = q[1][k + 1]
             /\ Forth(UrlPieces, text, at + Len(q[1]), out \o q[2])
    BY <1>1, <2>1, PiecesAre, ForthSteps, Zenon
  <2> QED  BY <2>2, <2>3, <2>4, Zenon
<1> QED  BY <1>1, <1>6, <1>7, <1>8, OutwardKeeps

LEMMA ToUcsReads ==
  ASSUME UtfInv, RoundInv, ToUcs
  PROVE  RoundInv'
<1>1. /\ op = "to_ucs" /\ phase = "write" /\ Same /\ src = text /\ Outward
      /\ text \in Strings /\ out \in Strings /\ at \in Nat
  BY DEF ToUcs, Calls, Same, UtfInv, UtfTypes, RoundInv, PhaseFits, Outward
<1> DEFINE c1 == AtEnd
           c2 == ~AtEnd /\ (Width(src, at) = 0 \/ Len(out) + Width(src, at) > len)
           w == Write(Halves(Unicode(src, at)), at + Width(src, at))
           e3 == Write(<<Unicode(src, at) % 256, (Unicode(src, at) \div 256) % 256>>,
                       at + Width(src, at))
<1>2. Calls("to_ucs") /\ CASE c1 -> Return(Len(out)) [] c2 -> Return(-2) [] OTHER -> e3
  BY DEF ToUcs
<1>3. e3 => w
  BY DEF Halves
<1>4. ~(c1 /\ c2)
  OBVIOUS
<1> HIDE DEF c1, c2, e3, w
<1>5. /\ c1 => Return(Len(out))
      /\ ~c1 => Return(-2) \/ w
  BY <1>2, <1>3, <1>4, Zenon
<1>6. phase' \in {"write", "done"}
  BY <1>1, <1>5 DEF Return, Write, w
<1>7. Alphabet = UcsPieces
  BY <1>1 DEF Alphabet
<1>8. ASSUME Covered
      PROVE  /\ phase' = "write" => Forth(UcsPieces, text, at', out')
             /\ phase' = "done" /\ ret' >= 0 => <<text, out'>> \in Spelt(UcsPieces)
  <2>1. Forth(UcsPieces, text, at, out)
    BY <1>1, <1>7, <1>8 DEF RoundInv, OutwardSpells
  <2>2. CASE at = Len(text) /\ <<text, out>> \in Spelt(UcsPieces)
    <3>1. c1
      BY <1>1, <2>2, AtEndOf DEF c1, AtEnd
    <3> QED  BY <1>5, <2>2, <3>1 DEF Return
  <2>3. ASSUME NEW q \in UcsPieces,
               \A k \in 0 .. Len(q[1]) - 1 : At(text, at + k) = q[1][k + 1],
               Forth(UcsPieces, text, at + Len(q[1]), out \o q[2])
        PROVE  /\ phase' = "write" => Forth(UcsPieces, text, at', out')
               /\ ~ (phase' = "done" /\ ret' >= 0)
    <3>1. PICK c \in Characters : q = <<c, Halves(Value(c))>>
      BY DEF UcsPieces
    <3>2. q[1] = c /\ q[2] = Halves(Value(c)) /\ c \in Char
      BY <3>1, CharactersAre
    <3>3. \A k \in 0 .. Len(c) - 1 : At(text, at + k) = c[k + 1]
      BY <2>3, <3>2
    <3>4. /\ At(text, at) # 0 /\ Len(c) # 0
          /\ Width(text, at) = Len(c) /\ Unicode(text, at) = Value(c)
      BY <1>1, <3>2, <3>3, CharAhead
    <3>5. ~c1
      BY <1>1, <3>4 DEF c1, AtEnd
    <3>6. CASE Return(-2)
      BY <3>6 DEF Return
    <3>7. CASE w
      <4>1. Write(q[2], at + Len(q[1]))
        BY <1>1, <3>2, <3>4, <3>7 DEF w
      <4> QED  BY <1>1, <2>3, <4>1 DEF Write
    <3> QED  BY <1>5, <3>5, <3>6, <3>7
  <2>4. \/ at = Len(text) /\ <<text, out>> \in Spelt(UcsPieces)
        \/ \E q \in UcsPieces :
             /\ \A k \in 0 .. Len(q[1]) - 1 : At(text, at + k) = q[1][k + 1]
             /\ Forth(UcsPieces, text, at + Len(q[1]), out \o q[2])
    BY <1>1, <2>1, PiecesAre, ForthSteps, Zenon
  <2> QED  BY <2>2, <2>3, <2>4, Zenon
<1> QED  BY <1>1, <1>6, <1>7, <1>8, OutwardKeeps

LEMMA FromNcrReads ==
  ASSUME UtfInv, RoundInv, FromNcr
  PROVE  RoundInv'
<1>1. /\ op = "from_ncr" /\ phase = "write" /\ Same
      /\ text \in Strings /\ src \in Strings /\ out \in Strings /\ at \in Nat /\ len \in Nat
  BY DEF FromNcr, Calls, Same, UtfInv, UtfTypes
<1> DEFINE v == NcrValue(src, at)
           next == AfterNcr(src, at)
           c1 == v = -1
           c2 == v # -1 /\ Len(out) + Len(Encode(v)) > len
           w == Write(Encode(v), next)
           Step(x) == CASE x = -1 -> Return(-2)
                        [] x # -1 /\ Len(out) + Len(Encode(x)) > len -> Return(-3)
                        [] OTHER -> Write(Encode(x), AfterNcr(src, at))
<1>2. /\ AtEnd => Return(Len(out))
      /\ ~AtEnd => \E x \in {NcrValue(src, at)} : Step(x)
  BY Zenon DEF FromNcr
<1>3. (\E x \in {NcrValue(src, at)} : Step(x)) =>
        CASE c1 -> Return(-2) [] c2 -> Return(-3) [] OTHER -> w
  BY Zenon
<1>4. ~(c1 /\ c2)
  BY Zenon
<1> HIDE DEF c1, c2, w, Step
<1>5. ~AtEnd => (c1 /\ Return(-2)) \/ (c2 /\ Return(-3)) \/ (~c1 /\ ~c2 /\ w)
  BY <1>2, <1>3, <1>4, Zenon
<1>6. phase' \in {"write", "done"}
  BY <1>1, <1>2, <1>5 DEF Return, Write, w
<1>7. Alphabet = NcrPieces
  BY <1>1 DEF Alphabet
<1>8. ASSUME Inward, Covered
      PROVE  /\ phase' = "write" => Homeward(NcrPieces, text, src, at', out')
             /\ phase' = "done" /\ ret' >= 0 => out' = text
  <2>1. Homeward(NcrPieces, text, src, at, out)
    BY <1>1, <1>7, <1>8 DEF RoundInv, InwardReads
  <2>2. CASE at = Len(src) /\ out = text
    <3>1. AtEnd
      BY <1>1, <2>2, AtEndOf DEF AtEnd
    <3> QED  BY <1>2, <2>2, <3>1 DEF Return
  <2>3. ASSUME NEW q \in NcrPieces,
               \A k \in 0 .. Len(q[2]) - 1 : At(src, at + k) = q[2][k + 1],
               at + Len(q[2]) <= Len(src), Len(out) + Len(q[1]) <= Len(text),
               Homeward(NcrPieces, text, src, at + Len(q[2]), out \o q[1])
        PROVE  /\ phase' = "write" => Homeward(NcrPieces, text, src, at', out')
               /\ ~ (phase' = "done" /\ ret' >= 0)
    <3>1. PICK c \in Characters : q = <<c, Ncr(Value(c))>>
      BY DEF NcrPieces
    <3> DEFINE u == Value(c)
    <3>2. q[1] = c /\ q[2] = Ncr(u) /\ c \in Char /\ u \in Code /\ u \in Nat /\ Encode(u) = c
      BY <3>1, CharactersAre, EncodeOfChar
    <3> HIDE DEF u
    <3>3. \A k \in 0 .. Len(Ncr(u)) - 1 : At(src, at + k) = Ncr(u)[k + 1]
      BY <2>3, <3>2
    <3>4. next = at + Len(q[2]) /\ v = u
      BY <1>1, <3>2, <3>3, NcrReads
    <3>5. ~AtEnd
      <4>1. Len(Ncr(u)) >= 1 /\ Ncr(u)[1] = Amp
        <5> DEFINE d == Digits(u)
        <5>1. d \in 1 .. 10 /\ Len(Ncr(u)) = d + 3 /\ Ncr(u)[1] = Amp
          BY <3>2, NcrIs
        <5> HIDE DEF d
        <5> QED  BY <5>1
      <4>2. Len(Ncr(u)) \in Nat
        BY <3>2, NcrIs, LengthType
      <4>3. 0 \in 0 .. Len(Ncr(u)) - 1 /\ at + 0 = at /\ 0 + 1 = 1
        BY <1>1, <4>1, <4>2
      <4>4. At(src, at) = Ncr(u)[1]
        BY <3>3, <4>3, Zenon
      <4> QED  BY <4>1, <4>4 DEF AtEnd, Amp
    <3>6. ~c1 /\ ~c2
      <4>1. Len(c) \in Nat /\ Len(out) \in Nat /\ Len(text) \in Nat
        BY <1>1, <3>2, LengthType DEF Char
      <4>2. Len(text) <= len
        BY <1>8 DEF Inward
      <4>3. ~ (Len(out) + Len(c) > len)
        BY <1>1, <2>3, <3>2, <4>1, <4>2
      <4>4. v # -1 /\ Encode(v) = c
        BY <3>2, <3>4
      <4> QED  BY <4>3, <4>4, Zenon DEF c1, c2
    <3>7. Write(q[1], at + Len(q[2]))
      BY <1>5, <3>2, <3>4, <3>5, <3>6 DEF w
    <3> QED  BY <1>1, <2>3, <3>7 DEF Write
  <2>4. \/ at = Len(src) /\ out = text
        \/ \E q \in NcrPieces :
             /\ \A k \in 0 .. Len(q[2]) - 1 : At(src, at + k) = q[2][k + 1]
             /\ at + Len(q[2]) <= Len(src) /\ Len(out) + Len(q[1]) <= Len(text)
             /\ Homeward(NcrPieces, text, src, at + Len(q[2]), out \o q[1])
    BY <1>1, <2>1, PiecesAre, HomewardSteps, Zenon
  <2> QED  BY <2>2, <2>3, <2>4, Zenon
<1> QED  BY <1>1, <1>6, <1>7, <1>8, InwardKeeps

LEMMA FromUcsReads ==
  ASSUME UtfInv, RoundInv, FromUcs
  PROVE  RoundInv'
<1>1. /\ op = "from_ucs" /\ phase = "write" /\ Same
      /\ text \in Strings /\ src \in Strings /\ out \in Strings /\ at \in Nat /\ len \in Nat
  BY DEF FromUcs, Calls, Same, UtfInv, UtfTypes
<1> DEFINE v == At(src, at) + 256 * At(src, at + 1)
           long == Len(out) + Len(Encode(v)) > len
           w == Write(Encode(v), at + 2)
<1>2. /\ at >= Len(src) => Return(Len(out))
      /\ ~ (at >= Len(src)) => (long /\ Return(-3)) \/ (~long /\ w)
  BY DEF FromUcs
<1> HIDE DEF long, w
<1>3. phase' \in {"write", "done"}
  BY <1>1, <1>2 DEF Return, Write, w
<1>4. Alphabet = UcsPieces
  BY <1>1 DEF Alphabet
<1>5. ASSUME Inward, Covered
      PROVE  /\ phase' = "write" => Homeward(UcsPieces, text, src, at', out')
             /\ phase' = "done" /\ ret' >= 0 => out' = text
  <2>1. Homeward(UcsPieces, text, src, at, out)
    BY <1>1, <1>4, <1>5 DEF RoundInv, InwardReads
  <2>2. CASE at = Len(src) /\ out = text
    <3>1. at >= Len(src)
      BY <1>1, <2>2
    <3> QED  BY <1>2, <2>2, <3>1 DEF Return
  <2>3. ASSUME NEW q \in UcsPieces,
               \A k \in 0 .. Len(q[2]) - 1 : At(src, at + k) = q[2][k + 1],
               at + Len(q[2]) <= Len(src), Len(out) + Len(q[1]) <= Len(text),
               Homeward(UcsPieces, text, src, at + Len(q[2]), out \o q[1])
        PROVE  /\ phase' = "write" => Homeward(UcsPieces, text, src, at', out')
               /\ ~ (phase' = "done" /\ ret' >= 0)
    <3>1. PICK c \in {x \in Characters : Len(x) < 4} : q = <<c, Halves(Value(c))>>
      BY DEF UcsPieces
    <3> DEFINE u == Value(c)
               h == Halves(u)
    <3>2. /\ q[1] = c /\ q[2] = h /\ c \in Char
          /\ u \in Nat /\ u <= ThreeBytes /\ Encode(u) = c
      BY <3>1, CharactersAre, EncodeOfChar
    <3> HIDE DEF u
    <3>3. Len(h) = 2 /\ h[1] + 256 * h[2] = u
      BY <3>2, HalvesRead
    <3> HIDE DEF h
    <3>4. At(src, at) = h[1] /\ At(src, at + 1) = h[2]
      <4>1. \A k \in 0 .. 1 : At(src, at + k) = h[k + 1]
        BY <2>3, <3>2, <3>3
      <4>2. 0 \in 0 .. 1 /\ 1 \in 0 .. 1 /\ at + 0 = at /\ 0 + 1 = 1 /\ 1 + 1 = 2
        BY <1>1
      <4> QED  BY <4>1, <4>2, Zenon
    <3>5. v = u
      BY <3>3, <3>4
    <3>6. ~ (at >= Len(src))
      BY <1>1, <2>3, <3>2, <3>3, LengthType
    <3>7. ~ long
      <4>1. Len(c) \in Nat /\ Len(out) \in Nat /\ Len(text) \in Nat
        BY <1>1, <3>2, LengthType DEF Char
      <4>2. Len(text) <= len
        BY <1>5 DEF Inward
      <4>3. ~ (Len(out) + Len(c) > len)
        BY <1>1, <2>3, <3>2, <4>1, <4>2
      <4>4. Encode(v) = c
        BY <3>2, <3>5
      <4> QED  BY <4>3, <4>4, Zenon DEF long
    <3>8. Write(q[1], at + Len(q[2]))
      BY <1>2, <3>2, <3>3, <3>5, <3>6, <3>7 DEF w
    <3> QED  BY <1>1, <2>3, <3>8 DEF Write
  <2>4. \/ at = Len(src) /\ out = text
        \/ \E q \in UcsPieces :
             /\ \A k \in 0 .. Len(q[2]) - 1 : At(src, at + k) = q[2][k + 1]
             /\ at + Len(q[2]) <= Len(src) /\ Len(out) + Len(q[1]) <= Len(text)
             /\ Homeward(UcsPieces, text, src, at + Len(q[2]), out \o q[1])
    BY <1>1, <2>1, PiecesAre, HomewardSteps, Zenon
  <2> QED  BY <2>2, <2>3, <2>4, Zenon
<1> QED  BY <1>1, <1>3, <1>4, <1>5, InwardKeeps

LEMMA FromUrlReads ==
  ASSUME UtfInv, RoundInv, FromUrl
  PROVE  RoundInv'
<1>1. /\ op = "from_url" /\ phase = "write" /\ Same
      /\ text \in Strings /\ src \in Strings /\ out \in Strings /\ at \in Nat /\ len \in Nat
  BY DEF FromUrl, Calls, Same, UtfInv, UtfTypes
<1> DEFINE b == At(src, at)
           Byte2(low) == HexMerge(FromHex(At(src, at + 1)), FromHex(low))
           lows == IF at + 2 <= Len(src) THEN {At(src, at + 2)} ELSE Behind
           c1 == at >= Len(src)
           c2 == at < Len(src) /\ b # Percent
           c3 == at < Len(src) /\ b = Percent /\ Len(out) < len
           w2 == Write(<<b>>, at + 1)
           w3 == \E low \in lows : Write(<<Byte2(low)>>, at + 3)
<1>2. /\ Calls("from_url")
      /\ CASE c1 -> Return(1) [] c2 -> w2 [] c3 -> w3 [] OTHER -> Skip(2)
  BY DEF FromUrl
<1>3. ~(c1 /\ c2) /\ ~(c1 /\ c3) /\ ~(c2 /\ c3)
  BY <1>1, LengthType
<1> HIDE DEF c1, c2, c3, w2, w3
<1>4. /\ c1 => Return(1)
      /\ c3 => w3
      /\ Return(1) \/ w2 \/ w3 \/ Skip(2)
  BY <1>2, <1>3, Zenon
<1>5. phase' \in {"write", "done"}
  <2>1. Return(1) => phase' = "done"
    BY DEF Return
  <2>2. Skip(2) => phase' = phase
    BY DEF Skip
  <2>3. w2 => phase' = phase
    BY DEF w2, Write
  <2>4. w3 => phase' = phase
    BY DEF w3, Write
  <2> QED  BY <1>1, <1>4, <2>1, <2>2, <2>3, <2>4
<1>6. Alphabet = UrlPieces
  BY <1>1 DEF Alphabet
<1>7. ASSUME Inward, Covered
      PROVE  /\ phase' = "write" => Homeward(UrlPieces, text, src, at', out')
             /\ phase' = "done" /\ ret' >= 0 => out' = text
  <2>1. Homeward(UrlPieces, text, src, at, out)
    BY <1>1, <1>6, <1>7 DEF RoundInv, InwardReads
  <2>2. CASE at = Len(src) /\ out = text
    <3>1. c1
      BY <1>1, <2>2 DEF c1
    <3> QED  BY <1>4, <2>2, <3>1 DEF Return
  <2>3. ASSUME NEW q \in UrlPieces,
               \A k \in 0 .. Len(q[2]) - 1 : At(src, at + k) = q[2][k + 1],
               at + Len(q[2]) <= Len(src), Len(out) + Len(q[1]) <= Len(text),
               Homeward(UrlPieces, text, src, at + Len(q[2]), out \o q[1])
        PROVE  /\ phase' = "write" => Homeward(UrlPieces, text, src, at', out')
               /\ ~ (phase' = "done" /\ ret' >= 0)
    <3>1. PICK x \in 1 .. 255 : q = <<<<x>>, Escape(x)>>
      BY DEF UrlPieces
    <3> DEFINE h == ToHex(x \div 16)
               l == ToHex(x % 16)
               e == Escape(x)
    <3>2. x \in Byte
      BY DEF Byte
    <3>3. /\ HexMerge(FromHex(h), FromHex(l)) = x
          /\ Len(e) = 3 /\ e[1] = Percent /\ e[2] = h /\ e[3] = l
      BY <3>2, EscapeReads
    <3>4. q[1] = <<x>> /\ Len(q[1]) = 1 /\ q[2] = e
      BY <3>1
    <3> HIDE DEF h, l, e
    <3>5. At(src, at) = Percent /\ At(src, at + 1) = h /\ At(src, at + 2) = l
      <4>0. 0 .. Len(e) - 1 = 0 .. 2
        BY <3>3
      <4>1. \A k \in 0 .. 2 : At(src, at + k) = e[k + 1]
        BY <2>3, <3>4, <4>0, Zenon
      <4>2. /\ 0 \in 0 .. 2 /\ 1 \in 0 .. 2 /\ 2 \in 0 .. 2
            /\ at + 0 = at /\ 0 + 1 = 1 /\ 1 + 1 = 2 /\ 2 + 1 = 3
        BY <1>1
      <4>3. /\ At(src, at + 0) = e[0 + 1] /\ At(src, at + 1) = e[1 + 1]
            /\ At(src, at + 2) = e[2 + 1]
        BY <4>1, <4>2, Zenon
      <4> QED  BY <3>3, <4>2, <4>3, Zenon
    <3>6. at + 3 <= Len(src) /\ Len(src) \in Nat
      BY <1>1, <2>3, <3>3, <3>4, LengthType
    <3>7. c3
      <4>1. Len(out) \in Nat /\ Len(text) \in Nat
        BY <1>1, LengthType
      <4>2. Len(text) <= len
        BY <1>7 DEF Inward
      <4>3. Len(out) < len
        BY <1>1, <2>3, <3>4, <4>1, <4>2
      <4>4. at < Len(src)
        BY <1>1, <3>6
      <4> QED  BY <3>5, <4>3, <4>4 DEF c3
    <3>8. lows = {l}
      BY <1>1, <3>5, <3>6
    <3>9. Write(<<x>>, at + 3)
      <4>1. PICK low \in lows : Write(<<Byte2(low)>>, at + 3)
        BY <1>4, <3>7 DEF w3
      <4>2. low = l
        BY <3>8
      <4>3. Byte2(low) = x
        BY <3>3, <3>5, <4>2
      <4> HIDE DEF Byte2
      <4> QED  BY <4>1, <4>3
    <3>10. Write(q[1], at + Len(q[2]))
      BY <3>3, <3>4, <3>9
    <3> QED  BY <1>1, <2>3, <3>10 DEF Write
  <2>4. \/ at = Len(src) /\ out = text
        \/ \E q \in UrlPieces :
             /\ \A k \in 0 .. Len(q[2]) - 1 : At(src, at + k) = q[2][k + 1]
             /\ at + Len(q[2]) <= Len(src) /\ Len(out) + Len(q[1]) <= Len(text)
             /\ Homeward(UrlPieces, text, src, at + Len(q[2]), out \o q[1])
    BY <1>1, <2>1, PiecesAre, HomewardSteps, Zenon
  <2> QED  BY <2>2, <2>3, <2>4, Zenon
<1> QED  BY <1>1, <1>5, <1>6, <1>7, InwardKeeps

LEMMA RoundKeeps == UtfInv /\ RoundInv /\ [UtfNext]_utfVars => RoundInv'
<1> SUFFICES ASSUME UtfInv, RoundInv, [UtfNext]_utfVars PROVE RoundInv'
  OBVIOUS
<1>1. CASE ToNcr
  BY <1>1, ToNcrReads
<1>2. CASE FromNcr
  BY <1>2, FromNcrReads
<1>3. CASE ToUrl
  BY <1>3, ToUrlReads
<1>4. CASE FromUrl
  BY <1>4, FromUrlReads
<1>5. CASE ToUcs
  BY <1>5, ToUcsReads
<1>6. CASE FromUcs
  BY <1>6, FromUcsReads
<1>7. CASE IsGbk \/ IsNcr
  BY <1>7, ClassifyingReads
<1>8. CASE IsUtf8
  BY <1>8, IsUtf8Reads
<1>9. CASE ConvertBack
  BY <1>9, ConvertBackReads
<1>10. CASE UNCHANGED utfVars
  BY <1>10 DEF utfVars, RoundInv, PhaseFits, OutwardSpells, InwardReads,
               Alphabet, Covered, Outward, Inward
<1> QED  BY <1>1, <1>2, <1>3, <1>4, <1>5, <1>6, <1>7, <1>8, <1>9, <1>10 DEF UtfNext

(* A text in UTF-8 that was converted to references, to a URL component or  *)
(* to 16 bit codes and back is the text again, byte for byte, whatever the  *)
(* characters of the texts and the lengths of the buffers are.             *)
THEOREM TextsComeBack == UtfSpec => []RoundTrip
<1>1. UtfInv /\ RoundInv => RoundTrip
  <2> SUFFICES ASSUME UtfInv, RoundInv,
                      phase = "done", ret >= 0, src # text, len >= Len(text)
               PROVE  /\ op \in {"from_ncr", "from_url"} /\ text \in Utf8Texts =>
                           out = text
                      /\ op = "from_ucs" /\ text \in ShortTexts => out = text
    BY DEF RoundTrip
  <2>1. op \in {"from_ncr", "from_url", "from_ucs"} => Inward
    BY DEF Inward
  <2>2. /\ op \in {"from_ncr", "from_url"} /\ text \in Utf8Texts => Covered
        /\ op = "from_ucs" /\ text \in ShortTexts => Covered
    BY DEF Covered
  <2>3. Inward /\ Covered => out = text
    BY DEF RoundInv, InwardReads
  <2> QED  BY <2>1, <2>2, <2>3
<1>2. UtfInit => UtfInv /\ RoundInv
  BY ConversionStarts, RoundStarts
<1>3. UtfInv /\ RoundInv /\ [UtfNext]_utfVars => (UtfInv /\ RoundInv)'
  BY ConversionKeeps, RoundKeeps
<1> QED  BY <1>1, <1>2, <1>3, PTL DEF UtfSpec
=============================================================================
