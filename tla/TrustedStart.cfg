\* Two conversations started by the renderer, one crash.
SPECIFICATION Spec
CONSTANTS
    t1 = t1
    t2 = t2
    r1 = r1
    r2 = r2
    r3 = r3
    ClientToken = {t1, t2}
    LaunchToken = {}
    Purpose = {"start"}
    RequestId = {r1, r2, r3}
    MaxLive = 1
    MaxRetained = 1
    MaxCommands = 3
    MaxCrash = 1
SYMMETRY Interchangeable
INVARIANTS TypeOK ProviderOnce DurableBeforeProvider DeliveredOnce CapacityHolds
