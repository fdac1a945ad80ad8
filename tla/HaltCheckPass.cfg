SPECIFICATION Spec
CONSTANTS
    MaxEvery = 3
    Programs <- MCPrograms
INVARIANTS
    HaltChecksSound
    SourcePreserved
    AnalysesRight
    CompileOrderDominates
PROPERTY
    Terminates
