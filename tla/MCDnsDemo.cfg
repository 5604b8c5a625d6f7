\* The filters of MCFilterText.cfg, and no foreign program.
CONSTANTS
  MaxOps = 0
  MaxPieces = 0
  MAX_HIGH = 300
  MAX_PROGRAM_LEN = 4096
  MAX_DEPTH = 4
  Irs = {}
  Events <- MCEvents
  Texts <- MCTexts

SPECIFICATION TextSpec
CHECK_DEADLOCK FALSE

INVARIANT DnsDemoOpensItsSession
