\* Calls of every verb, and sessions in which a plan is made, read back and verified.
CONSTANTS
  Sessions <- MCSessions
  RuleSets <- MCRuleSets
  Scopes <- MCScopes
  Alphabet <- MCAlphabet
  Formula <- MCFormula
  Collation <- MCCollation
SPECIFICATION CommandSpec
INVARIANTS TypeOK ReadsFinal WithinBounds OrderIfAny RingIsReal GoesOn PlanFitsMachine NothingUnsaid SilenceDecidesNothing EndsWithACode LessIsNotMore
PROPERTY Settles
