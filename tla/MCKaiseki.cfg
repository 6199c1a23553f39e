SPECIFICATION CSpec
CONSTANTS
    Hinsi <- MCHinsi
    Fukugou <- MCFukugou
    Area <- MCArea
    HinsiVect <- MCHinsiVect
    Param <- MCParam
    Yomis <- MCYomis
    Calls <- MCCalls
INVARIANTS NodesCounted AnswerCovers NodesEndUnlessEmptied
    CandidatesRight LostOnlyAtTheLimit
CHECK_DEADLOCK FALSE
