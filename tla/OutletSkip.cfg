SPECIFICATION Spec
CONSTANTS
    N = 3
    Channel <- MCChannel
    Outlets <- MCOutlets
    OnOrder <- MCOnOrder
    OffOrder <- MCOffOrder
    StateDelays <- MCStateDelays
    MaxWants = 1
    MaxFaults = 0
PROPERTIES
    PassedOverRightly
CHECK_DEADLOCK FALSE
