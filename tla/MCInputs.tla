------------------------------ MODULE MCInputs ------------------------------
(***************************************************************************)
(* The programs that read an input nobody checked before: the reader of C  *)
(* declarations, the conversions of texts and the service over Ethernet    *)
(* frames.  They share nothing, so that one run checks them all: a         *)
(* behaviour is one of one of them, the others stay at one initial state.  *)
(***************************************************************************)
EXTENDS CDeclaration, Utf8Ncr, MacService

SpecifierLists ==
  {<<>>, <<"const">>, <<"int">>, <<"const", "int">>, <<"int", "const">>,
   <<"volatile", "const", "long">>}

\* A, 7, U+0080, U+07FF, U+4E2D, U+1F600
Utf8Characters ==
  {<<65>>, <<55>>, <<194, 128>>, <<223, 191>>, <<228, 184, 173>>,
   <<240, 159, 152, 128>>}

\* A stray byte, a character cut, five and six bytes, no byte of UTF-8, GBK
Utf8Malformed ==
  {<<128>>, <<228, 184>>, <<248, 136, 128, 128, 128>>,
   <<252, 132, 128, 128, 128, 128>>, <<255>>, <<196, 227>>}

\* &#; &#65 &#6A; A&#65; &#65;&#66; with and without a byte behind,
\* INT_MAX, INT_MAX + 1, a code of four bytes that needs five
NcrStrings ==
  {<<38, 35, 59>>, <<38, 35, 54, 53>>, <<38, 35, 54, 65, 59>>,
   <<65, 38, 35, 54, 53, 59>>, Ncr(65) \o Ncr(66),
   Ncr(65) \o Ncr(66) \o <<128>>, Ncr(2147483647),
   <<38, 35, 50, 49, 52, 55, 52, 56, 51, 54, 52, 56, 59>>, Ncr(2097152)}

\* %e4A %4 % A%41 %41%42
UrlStrings ==
  {<<37, 101, 52, 65>>, <<37, 52>>, <<37>>, <<65, 37, 52, 49>>,
   <<37, 52, 49, 37, 52, 50>>}

VARIABLE which        \* the program of this behaviour

vars == <<declVars, utfVars, macVars, which>>

DeclIdle == decl = [toks |-> <<>>, says |-> <<>>, kind |-> "cut"] /\ DeclInit
UtfIdle == op = "code_type" /\ text = <<>> /\ UtfInit
MacIdle == behind = [p \in {"comparision", "hwaddr"} |-> 0]
           /\ eth0 = NoAddress /\ MacInit

Init == \/ which = "reader" /\ DeclInit /\ UtfIdle /\ MacIdle
        \/ which = "conversion" /\ DeclIdle /\ UtfInit /\ MacIdle
        \/ which = "service" /\ DeclIdle /\ UtfIdle /\ MacInit

ReaderSteps     == /\ which = "reader" /\ DeclNext
                   /\ UNCHANGED <<utfVars, macVars, which>>
ConversionSteps == /\ which = "conversion" /\ UtfNext
                   /\ UNCHANGED <<declVars, macVars, which>>
ServiceSteps    == /\ which = "service" /\ MacNext
                   /\ UNCHANGED <<declVars, utfVars, which>>

Next == ReaderSteps \/ ConversionSteps \/ ServiceSteps

\* The two programs without input left to wait for go on running.
Spec == Init /\ [][Next]_vars
        /\ WF_vars(ReaderSteps) /\ WF_vars(ConversionSteps)

-----------------------------------------------------------------------------
(* The types of the three programs.                                        *)
InputsTypeOK == DeclTypeOK /\ UtfTypeOK /\ MacTypeOK

\* Every conversion returns, for every string: a loop always moves its cursor,
\* but for is_utf8_str at a stray byte (Returns, of the behaviours of Utf8Ncr).
ConversionReturns == which = "conversion" => Returns

=============================================================================
