\* Filters of every predicate, of depth two over seven of them, and spoilt ones;
\* and every program of up to four opcodes, well formed or not.
CONSTANTS
  MaxOps = 4
  MaxPieces = 4
  MAX_HIGH = 300
  MAX_PROGRAM_LEN = 4096
  MAX_DEPTH = 4
  Irs <- MCIrs
  Events <- MCEvents
  Texts <- MCTexts

SPECIFICATION TextSpec
CHECK_DEADLOCK FALSE

INVARIANT FilterTypeOK
INVARIANT EvaluationNeverGivesUp
INVARIANT StackIsAsChecked
INVARIANT CompilerTypeOK
INVARIANT ReadsAsTheGrammar
INVARIANT VerdictIsMeaning
INVARIANT CompiledIsWellShaped
INVARIANT EquivalentFiltersOpenAlike
