SPECIFICATION Spec
CONSTANTS
  Tokens <- AnyToken
  Inputs <- AllInputs
  Timezone <- Beijing
INVARIANTS
  TypeOK
  PairsSurvive
  AttributesSurvive
  NamesInStep
  GmtDates
  RequestFromEnv
