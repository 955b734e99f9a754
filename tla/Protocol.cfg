SPECIFICATION CodecSpec
CONSTANTS
    NoEx = NoEx
    Words <- MCWords
    NulWords <- MCNulWords
    Upper <- MCUpper
    Numbers <- MCNumbers
    NumberOf <- MCNumberOf
    Texts <- MCTexts
    MaxRaw = 5
    RawWords <- MCRawWords
INVARIANTS LegalCallsArrive ReplicaUnderstands
CHECK_DEADLOCK FALSE
