SPECIFICATION Spec
CONSTANTS
    Callers <- MCCallers
    Credentials = {"credA", "credB"}
    PrefixOf <- MCPrefixOf
    Addresses = {"ip1", "ip2"}
    Sends <- MCSends
    None = "none"
    Max = 2
    Window = 3
    Second = 2
    SweepAt = 2
INVARIANTS
    WindowsAreCounted
PROPERTIES
    MapBounded
    KeepsWindows
