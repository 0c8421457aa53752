---------------------------- MODULE CDeclaration ----------------------------
(* The reader of C declarations, src/src/FSM/cAnalizeFsm.c.  It is a state  *)
(* machine that keeps its state in a function pointer: main calls           *)
(* *nextstate until it is NULL.  The tokens before the identifier are kept  *)
(* on a stack; then the machine alternates between what stands to the right *)
(* (arrays and a parameter list) and what is on top of the stack.           *)
(*                                                                          *)
(* A token is a string of the model, a number between brackets included     *)
(* (UpTo gives the words printed for it).  The machine does not know where  *)
(* a declaration ends: after the last token gettoken returns EOF for ever.  *)
(* An iteration of a loop that reads tokens is a step of its own.           *)
EXTENDS DeclarationGrammar

CONSTANT MAXTOKENS      \* the length of the stack (100 in the code)

ASSUME StackAssumption == MAXTOKENS \in Nat \ {0}

VARIABLES
  decl,         \* the declaration on the standard input
  read,         \* how many of its tokens were read
  this,         \* the token read last
  stack,        \* the tokens before the identifier, the last one on top
  printed,      \* the words printed
  nextstate     \* the state function to call next, "NULL" at the end

declVars == <<decl, read, this, stack, printed, nextstate>>

UpTo == [word \in {"1", "3"} |-> IF word = "1" THEN "0..0" ELSE "0..2"]

\* TypeOf below, long taken for an adjective of the type
TypeOfLong(word) ==
  CASE word \in {"const", "volatile", "long"} -> "QUALIFIER"
    [] word \in {"void", "char", "int"} -> "TYPE"
    [] word \in {"[", "]", "(", ")", "*", "EOF"} -> word
    [] OTHER -> "IDENTIFIER"

TypeOf(word) ==
  CASE word \in {"const", "volatile"} -> "QUALIFIER"
    [] word \in {"void", "char", "int", "long"} -> "TYPE"
    [] word \in {"[", "]", "(", ")", "*", "EOF"} -> word
    [] OTHER -> "IDENTIFIER"

Renamed(word) == IF word = "const" THEN "readonly" ELSE word

\* gettoken after n tokens were read
Token(n) == IF n < Len(decl.toks) THEN decl.toks[n + 1] ELSE "EOF"

Read(n) ==
  /\ read' = IF read + n > Len(decl.toks) THEN Len(decl.toks) ELSE read + n
  /\ this' = Token(read + n - 1)

Say(words) == printed' = printed \o words
Pop == stack' = Front(stack)
Goto(state) == nextstate' = state

DeclInit ==
  /\ decl \in Declarations \cup Truncated
  /\ read = 0 /\ this = "EOF" /\ stack = <<>> /\ printed = <<>>
  /\ nextstate = "initialize"

\* The push does not look at top: onto a full stack it writes behind the array.
Initialize ==
  /\ nextstate = "initialize"
  /\ IF TypeOf(Token(read)) = "IDENTIFIER"
     THEN /\ Say(<<Token(read), "is">>) /\ Read(2)
          /\ Goto("get_array") /\ UNCHANGED stack
     ELSE /\ Read(1) /\ stack' = Append(stack, this') /\ UNCHANGED printed
          /\ IF Len(stack) = MAXTOKENS
             THEN Goto("undefined")
             ELSE UNCHANGED nextstate
  /\ UNCHANGED decl

\* "get_array" is the call, "more" its loop after one array
GetArray ==
  /\ nextstate \in {"get_array", "more"}
  /\ IF this = "["
     THEN /\ IF Token(read) \in DOMAIN UpTo
             THEN Read(3) /\ Say(<<"array", UpTo[Token(read)], "of">>)
             ELSE Read(2) /\ Say(<<"array", "of">>)
          /\ Goto("more")
     ELSE /\ Goto(IF nextstate = "more" THEN "get_lparen" ELSE "get_parms")
          /\ UNCHANGED <<read, this, printed>>
  /\ UNCHANGED <<decl, stack>>

\* GetParms below, no token read in its loop
ParmsReadNothing ==
  /\ nextstate \in {"get_parms", "list"}
  /\ CASE nextstate = "get_parms" /\ this # "(" ->
            Goto("get_lparen") /\ UNCHANGED <<read, this, printed>>
       [] nextstate = "list" /\ this = ")" ->
            Read(1) /\ Say(<<"function returning">>) /\ Goto("get_lparen")
       [] OTHER -> Goto("list") /\ UNCHANGED <<read, this, printed>>
  /\ UNCHANGED <<decl, stack>>

\* "list" is the loop to the closing bracket
GetParms ==
  /\ nextstate \in {"get_parms", "list"}
  /\ CASE nextstate = "get_parms" /\ this # "(" ->
            Goto("get_lparen") /\ UNCHANGED <<read, this, printed>>
       [] nextstate = "list" /\ this = ")" ->
            Read(1) /\ Say(<<"function returning">>) /\ Goto("get_lparen")
       [] OTHER -> Read(1) /\ Goto("list") /\ UNCHANGED printed
  /\ UNCHANGED <<decl, stack>>

\* GetLparen below, the token after the closing bracket left unread
LparenReadsNothing ==
  /\ nextstate = "get_lparen"
  /\ IF stack # <<>> /\ Last(stack) = "("
     THEN Pop /\ Goto("get_array")
     ELSE Goto("get_ptr_part") /\ UNCHANGED stack
  /\ UNCHANGED <<decl, read, this, printed>>

GetLparen ==
  /\ nextstate = "get_lparen"
  /\ IF stack # <<>> /\ Last(stack) = "("
     THEN Pop /\ Read(1) /\ Goto("get_array")
     ELSE Goto("get_ptr_part") /\ UNCHANGED <<read, this, stack>>
  /\ UNCHANGED <<decl, printed>>

\* stack[top] is read without the test of top: with an empty stack the byte
\* before the array decides, and the pop moves top below it.
GetPtrPart ==
  /\ nextstate = "get_ptr_part"
  /\ \/ stack = <<>> /\ Goto("undefined") /\ UNCHANGED <<stack, printed>>
     \/ stack # <<>> /\ Last(stack) = "*"
        /\ Say(<<"point to">>) /\ Pop /\ Goto("get_lparen")
     \/ stack # <<>> /\ TypeOf(Last(stack)) = "QUALIFIER"
        /\ Say(<<Renamed(Last(stack))>>) /\ Pop /\ Goto("get_lparen")
     \/ stack # <<>> /\ TypeOf(Last(stack)) \notin {"*", "QUALIFIER"}
        /\ Goto("get_type") /\ UNCHANGED <<stack, printed>>
  /\ UNCHANGED <<decl, read, this>>

GetType ==
  /\ nextstate = "get_type"
  /\ Say([i \in DOMAIN stack |-> Renamed(Reverse(stack)[i])])
  /\ stack' = <<>> /\ Goto("NULL")
  /\ UNCHANGED <<decl, read, this>>

DeclNext ==
  Initialize \/ GetArray \/ GetParms \/ GetLparen \/ GetPtrPart \/ GetType

DeclSpec == DeclInit /\ [][DeclNext]_declVars

DeclTypeOK ==
  /\ decl \in Declarations \cup Truncated
  /\ read \in 0..Len(decl.toks)
  /\ \A i \in DOMAIN stack : TypeOf(stack[i]) # "IDENTIFIER"
  /\ nextstate \in {"initialize", "get_array", "more", "get_parms", "list",
                    "get_lparen", "get_ptr_part", "get_type", "NULL",
                    "undefined"}

\* What the machine prints for a declaration that C allows is what C means by
\* it: every operator, innermost first, then the specifiers; no other words,
\* none lost, whatever the order in which brackets, arrays, parameter lists
\* and pointers are nested (get_array, get_parms, get_lparen, get_ptr_part).
ReadsDeclaration ==
  (nextstate = "NULL" /\ decl.kind = "typed") => printed = decl.says

\* The words before the identifier have room on the stack.
FitsStack(toks) ==
  \E n \in 0..MAXTOKENS : n < Len(toks) /\ TypeOf(toks[n + 1]) = "IDENTIFIER"

\* A declaration with a type whose words before the identifier fit the stack
\* is read without a write behind the array (initialize pushes untested) and
\* without a read or a pop below it (get_ptr_part looks at stack[top] of an
\* empty stack too): however its brackets, arrays, pointers and adjectives
\* are popped, the type is left for get_type.
StackKept ==
  decl.kind = "typed" /\ FitsStack(decl.toks) => nextstate # "undefined"

\* The reading of a whole declaration with a type ends.  (One without a type
\* ends in the read below the stack, an input that is cut may be read for
\* ever: in get_parms, or in initialize until the stack is full.)
DeclarationEnds == (decl.kind = "typed") ~> (nextstate = "NULL")
=============================================================================
