SPECIFICATION Spec
CHECK_DEADLOCK FALSE
CONSTANTS
    LimbBits = 2
    Revision = 5
    StackLimit = 17
    MaxInt = 127
    QuadCoeffDiv = 4
    Messages <- MCMessages
    Contents <- MCContents
    Inputs = {0, 200}
    Outputs = {0, 65}
    Leftovers <- MCLeftovers
INVARIANTS TypeOK CodeIsReadInside TablesAgree HashIsKeccak
PROPERTIES EveryStepCosts MemoryCoversAccess ResultIsExact
