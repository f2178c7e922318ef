SPECIFICATION Spec
CONSTANTS
    Key <- MCKey
    Value <- MCValue
    Field <- MCField
    Unset = Unset
    Inputs <- MCInputs
INVARIANTS TypeOK ParseMatchesMeaning ItemsHoldTheirOwnValues
PROPERTY Terminates
CHECK_DEADLOCK FALSE
