CONSTANTS
    Unset = Unset
    Offline = Offline
    NoTag = NoTag
    BandValues <- MCValues
    LimitChoices <- MCLimits
SPECIFICATION BandSpec
PROPERTIES
    NoChatter
    CriticalNotMasked
