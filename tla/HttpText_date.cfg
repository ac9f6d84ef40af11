SPECIFICATION Spec
CONSTANTS
  Tokens <- AnyToken
  Inputs <- AllInputs
  Timezone <- Beijing
INVARIANTS
  DateIsTimestamp
