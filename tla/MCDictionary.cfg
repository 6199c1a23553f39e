CONSTANTS
  Dics = {d1, d2}
  HindoFiles = {h1}
  NONE = NONE
  ReadOnly = {}
  Kinds = {"UD", "REV"}
  Loaded <- MCLoaded
  ByKanji <- MCByKanji
  Yomis <- MCYomis
  Kanjis <- MCKanjis
  Hinsis = {1}
  Comments <- MCComments
  MaxSerial = 5
  MaxTexts = 6
  MaxCalls = 4
SYMMETRY SymDics
SPECIFICATION Spec
INVARIANTS FindsEveryWord FrequencyIsTheWords
CHECK_DEADLOCK FALSE
