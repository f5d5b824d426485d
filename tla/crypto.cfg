SPECIFICATION FairSpec
CONSTANTS
    SignEntries = {s1}
    VerifyEntries = {v1, v2}
    NoEntry = NoEntry
    Scenarios = {{"forged"}, {"hash"}, {"nrf52840", "forged", "pka"},
                 {"nrf52840", "short", "hash"}, {"nrf52840", "post"}}
CHECK_DEADLOCK FALSE
INVARIANTS
    ProcessorExclusion
    NoLostWakeUp
    SuccessIsOwn
PROPERTIES
    ServesInOrder
    NeverStalls
