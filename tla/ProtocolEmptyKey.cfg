SPECIFICATION CodecSpec
CONSTANTS
    NoEx = NoEx
    Words <- MCWords
    NulWords <- MCNulWords
    Upper <- MCUpper
    Numbers <- MCNumbers
    NumberOf <- MCNumberOf
    Texts <- MCTexts
    MaxRaw = 5
    RawWords <- MCRawWords
INVARIANT EmptyKeyRejected
CHECK_DEADLOCK FALSE
