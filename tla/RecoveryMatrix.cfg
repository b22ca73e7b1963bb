SPECIFICATION Spec
CONSTANTS
  Blocks <- MCBlocks
  DefaultRules <- MCDefaultRules
  Errors <- MCErrors
  Answers <- MCAnswers
  StatusClassOf <- MCStatusClassOf
  IDOrder <- MCIDOrder
  MaxBlocks = 2
INVARIANTS
  DecisionIsDeclared
  SwitchNeverContradicts
CHECK_DEADLOCK FALSE
