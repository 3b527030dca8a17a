SPECIFICATION Spec
CONSTANTS
    N = 3
    Channel <- MCChannel
    Outlets <- MCOutlets
    OnOrder <- MCOnOrder
    OffOrder <- MCOffOrder
    StateDelays <- MCStateDelays
    MaxWants = 1
    MaxFaults = 2
INVARIANTS
    PolledExact
PROPERTIES
    OrderRespected
    OperatorSucceeds
CHECK_DEADLOCK FALSE
