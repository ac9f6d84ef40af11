SPECIFICATION Spec
CONSTANTS
  Illegal <- MCIllegal
  Esc <- MCEsc
  Texts <- MCTexts
  MaxBuflen = 4
INVARIANTS
  Utf8LeavesRoom
