SPECIFICATION CSpec
CONSTANTS
    Hinsi <- MCHinsi
    Fukugou <- MCFukugou
    Area <- MCArea
    HinsiVect <- MCHinsiVect
    Param <- MCParam
    Yomis <- MCYomis
    Calls <- MCCalls
INVARIANT NodesEnd
CHECK_DEADLOCK FALSE
