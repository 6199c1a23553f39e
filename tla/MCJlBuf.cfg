SPECIFICATION Spec
CONSTANTS
  Text <- MCText
  Kanren <- MCKanren
  KanzenSho <- MCKanzenSho
  KanzenDai <- MCKanzenDai
  KanjiOf <- MCKanjiOf
  Pseudo <- MCPseudo
  Recent <- MCRecent
  Uniq = FALSE
  MaxCalls = 4
  MaxFail = 1
CHECK_DEADLOCK FALSE
INVARIANTS BlocksCounted SpellsTheText CandidatesFit
PROPERTIES ConfirmedIsRecent
