CONSTANTS
    Suites = 2
    Tests = 3
    Kind <- TwoKinds
    Stories <- ShortStories
SPECIFICATION Spec
INVARIANTS SuiteSnapshotKept SuitesStartOnDeployedChain TestsStartAsTheirSuite StoryToldTheTruth
PROPERTY RunEndsRestored
CHECK_DEADLOCK FALSE
