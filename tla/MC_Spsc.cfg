CONSTANTS
    v1 = v1
    v2 = v2
    Values <- MCValues
    Null = Null
    Moved = Moved
    RequestedCapacity = 2
    CounterBits = 3
    MaxDrain = 2
    MaxPops = 1
SPECIFICATION FairSpec
INVARIANTS
    NoSlotRace
    SlotsMatchCounters
    SizeApproxBounded
PROPERTIES
    ImplementsFifo
    EveryValuePopped
    DrainReturns
