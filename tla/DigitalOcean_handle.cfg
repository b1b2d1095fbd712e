CONSTANTS
    m1 = m1
    m2 = m2
    Machines <- MCMachines
    MachineName <- MCMachineName
    Config <- MCConfigOK
    MaxDroplets = 3
    MaxPolls = 2
SPECIFICATION Spec
PROPERTIES CreateReturnsConfirmedHandle
