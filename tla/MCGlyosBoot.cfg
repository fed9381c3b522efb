CONSTANTS
    Leftover <- MCLeftover
SPECIFICATION Spec
INVARIANTS
    TypeOK
    FillsBehindStack
PROPERTIES
    ReturnsHome
