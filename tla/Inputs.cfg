SPECIFICATION Spec
CONSTANTS
  Specifiers <- SpecifierLists
  Depth = 3
  MAXTOKENS = 12
  Characters <- Utf8Characters
  Malformed <- Utf8Malformed
  Pieces = 2
  Ncrs <- NcrStrings
  Urls <- UrlStrings
  Lengths = {0, 1, 2, 3, 4, 5, 6, 8, 9, 12, 16, 18, 19}
  Address = {A, B}
  NoAddress = none
  FirstByte = {0, 2}
  MaxFds = 5
INVARIANTS InputsTypeOK ReadsDeclaration RoundTrip BufferKept StackKept
PROPERTIES DeclarationEnds ConversionReturns AnswerIsCurrent
CHECK_DEADLOCK FALSE
