SPECIFICATION Compiler
CONSTANTS
    A = A
    Errors <- MCErrors
    None = None
    Types = {A}
    ClassOf <- MCClassOf
    MaxRegions = 5
    MaxCalls = 2
    Habits = {"plain"}
    SourceTrees <- MCSourceTrees
    Main <- MCMain
    MaxImports = 3
    Functions <- MCFunctions
    Passes <- MCPasses
    MaxRounds = 8
INVARIANTS ResultsAlwaysKept
