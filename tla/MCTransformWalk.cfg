SPECIFICATION Spec
CONSTANTS
    Cases <- MCCases
    MaxMissing = 1
INVARIANTS FileIndexes DefinitionsLand ReferencesLand FunctionsVisible CallsKept
