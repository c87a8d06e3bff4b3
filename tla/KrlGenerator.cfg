CONSTANTS
  Expressions <- MCExpressions
  Events <- MCEvents
  Programs <- MCPrograms
SPECIFICATION Spec
CHECK_DEADLOCK FALSE
INVARIANTS ReadsAsWritten FormattingKeepsMeaning
