SPECIFICATION Spec
CONSTANTS
    None = None
    Words = {"b", "c", "d", "e"}
    Roles = {"user", "developer"}
    Outputs <- AnyOutput
    Contents <- AnyContent
    Says <- AnySay
    Tools <- AnyTools
    MaxTurns = 2
    MaxItems = 4
    MaxCalls = 2
CHECK_DEADLOCK FALSE
INVARIANTS
    Heard
PROPERTIES
    SameSession
