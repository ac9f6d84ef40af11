SPECIFICATION Spec
CONSTANTS
  Illegal <- MCIllegal
  Esc <- MCEsc
  Texts <- MCTexts
  MaxBuflen = 19
INVARIANTS
  TypeOK
  TerminatorFits
  UnreadUntouched
  RoundTrip
