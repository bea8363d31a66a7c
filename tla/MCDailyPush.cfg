SPECIFICATION Spec
CONSTANTS
    Files = {1, 2, 3}
    Rank <- ByPreference
    Count = 2
INVARIANTS CleanMeansClean
