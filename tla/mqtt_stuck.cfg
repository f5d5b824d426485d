SPECIFICATION MqttSpec
CONSTANTS
    x1 = x1
    x2 = x2
    Unused = Unused
    TopicsLen = 3
    Exchanges = {x1, x2}
    MaxEvents = 2
    MaxPings = 1
    MqttScenarios = {{"publish"}}
SYMMETRY Symmetry
INVARIANT SubscribingIsRequested
