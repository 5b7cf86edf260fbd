\* Two dogs with ways of different lengths meet one loot.
SPECIFICATION Spec
CONSTANTS
    Scenarios <- MCCrowd
    Probability <- MCProbability
PROPERTY CloserDogCaptures
