SPECIFICATION DecoderSpec
CONSTANTS
    Keys <- MCKeys
    Repeating <- MCRepeating
    MaxEvents = 6
PROPERTIES OneLostPerArrow
CHECK_DEADLOCK FALSE
