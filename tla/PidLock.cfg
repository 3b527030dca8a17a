SPECIFICATION Spec
CONSTANTS
    Instance = {i1, i2, i3}
    NoFile = NoFile
    Pid <- MCPid
    Invoked <- MCInvoked
    Contains <- MCContains
SYMMETRY Symmetry
INVARIANTS
    Exclusion
