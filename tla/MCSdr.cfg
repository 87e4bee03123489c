SPECIFICATION SpecOneOutput
CONSTANTS
    o1 = o1  o2 = o2  r1 = r1  r2 = r2  live = live  file = file
    Outs <- TwoOuts
    Requests <- TwoRequests
    Configs <- TwoConfigs
    Replays <- FileConfig
    Capacity = 1
    MaxSentences = 2
    MaxPosts = 2
INVARIANTS OfferedAccounted NoCarryOver ReplacedAreSilent OneReceiver
PROPERTY ActsAsOneReceiver
CHECK_DEADLOCK FALSE
