SPECIFICATION Spec
CONSTANTS
    MaxInstances = 2
    MaxInterrupts = 0
    Iterations = 1
    Images = {"api", "hermes"}
    Converted <- MCConverted
    Plans <- DemoPlans
INVARIANT EnvironmentRestored
