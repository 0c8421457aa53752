------------------------- MODULE DeclarationGrammar -------------------------
(* Declarations and their reading, by the grammar of C and not by the code: *)
(* the reference that CDeclaration is compared with.  toks is the text of a *)
(* declarator of p, says what it makes of p, and last the operator applied  *)
(* last, which decides what may follow and whether brackets are needed.     *)
EXTENDS SequencesExt

CONSTANTS
  Specifiers,   \* the sequences of words a declaration starts with
  Depth         \* how many operators are applied to the identifier

ASSUME DepthAssumption == Depth \in Nat

Qualifiers == {"const", "volatile"}
Types == {"void", "char", "int", "long"}

ASSUME SpecifierAssumption == Specifiers \subseteq Seq(Qualifiers \cup Types)

Named == [toks |-> <<"p">>, says |-> <<"p", "is">>, last |-> "name"]

Bracketed(toks) == <<"(">> \o toks \o <<")">>

Operators ==
  {[toks |-> <<"[", "]">>, says |-> <<"array", "of">>, last |-> "array"],
   [toks |-> <<"[", "3", "]">>, says |-> <<"array", "0..2", "of">>,
    last |-> "array"],
   [toks |-> <<"(", ")">>, says |-> <<"function returning">>,
    last |-> "function"],
   [toks |-> <<"(", "char", "q", ")">>, says |-> <<"function returning">>,
    last |-> "function"]}

Pointers ==
  {[toks |-> <<"*">>, says |-> <<"point to">>, last |-> "pointer"],
   [toks |-> <<"*", "const">>, says |-> <<"readonly", "point to">>,
    last |-> "pointer"]}

\* C has no function that returns an array or a function, and no array of
\* functions.
MayFollow(d, s) ==
  CASE d.last = "function" -> FALSE
    [] d.last = "array" -> s.last = "array"
    [] OTHER -> TRUE

\* A suffix binds tighter than a pointer.
Extended(d) ==
  {[toks |-> p.toks \o d.toks, says |-> d.says \o p.says, last |-> p.last] :
     p \in Pointers}
  \cup
  {[toks |-> (IF d.last = "pointer" THEN Bracketed(d.toks) ELSE d.toks)
             \o s.toks,
    says |-> d.says \o s.says, last |-> s.last] :
     s \in {t \in Operators : MayFollow(d, t)}}

Declarators[n \in Nat] ==
  IF n = 0 THEN {Named, [Named EXCEPT !.toks = Bracketed(@)]}
  ELSE Declarators[n - 1] \cup UNION {Extended(d) : d \in Declarators[n - 1]}

\* The specifiers are said in the reverse of their order.
Reading(specifiers, d) ==
  d.says \o Reverse([i \in DOMAIN specifiers |->
                       IF specifiers[i] = "const" THEN "readonly"
                       ELSE specifiers[i]])

Typed(specifiers) == \E i \in DOMAIN specifiers : specifiers[i] \in Types

Declarations ==
  {[toks |-> s \o d.toks, says |-> Reading(s, d),
    kind |-> IF Typed(s) THEN "typed" ELSE "untyped"] :
     s \in Specifiers, d \in Declarators[Depth]}

\* What is on the input when it ends too soon.
Truncated ==
  {[toks |-> t, says |-> <<>>, kind |-> "cut"] :
     t \in {u \in UNION {Prefixes(d.toks) : d \in Declarations} : Len(u) < 6}}
=============================================================================
