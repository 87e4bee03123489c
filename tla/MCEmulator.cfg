SPECIFICATION Spec
CONSTANTS
    Around = 4
    Step = 1
    Placed = {0}
    Routes <- SomeRoutes
    Outputs = {"ipad"}
    Default = "host"
INVARIANTS PersistedUnlessStuck
PROPERTIES StuckUntilRestart StoppedIsSilent SendsToOneTarget RequestsAdvance InOrder RequestEnds
