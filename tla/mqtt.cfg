SPECIFICATION MqttFairSpec
CONSTANTS
    x1 = x1
    x2 = x2
    Unused = Unused
    TopicsLen = 3
    Exchanges = {x1, x2}
    MaxEvents = 2
    MaxPings = 2
    MqttScenarios = {{}, {"slow", "send", "network"}, {"slow", "send", "post", "publish", "network"},
                 {"send", "publish", "expiry"}}
INVARIANTS
    LockCoversExchange
    SubscribedIsGranted
    RetryPending
PROPERTY
    AllSubscribed
CHECK_DEADLOCK FALSE
