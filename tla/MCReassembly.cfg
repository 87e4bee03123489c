SPECIFICATION Spec
CONSTANTS
    Messages <- SomeMessages
    Key <- Keys
    PadKey <- PadKeys
    ModKey <- ModKeys
    Total <- Totals
    PadRejects <- FillBits
    ModRejects <- FillBits
    Oversized <- TooLong
    Unnumbered = {}
    Ttl = 1
    ModTtl = 1
    MaxGroups = 2
    ModGroups = 1
INVARIANTS NoStaleParts SteadyMessagesKept StricterAgree
