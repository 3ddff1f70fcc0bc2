SPECIFICATION Spec
CONSTANTS
    Requests = {r1, r2}
    RoutedKinds = {"codexKey", "codexChatGPT", "codexOpaque"}
    DirectKinds = {"claude", "plugin"}
    MaxInflight = 1
    MaxArrivals = 2
INVARIANTS TypeOK RightVendor DeliveredOnce OutageClock
PROPERTIES EveryRequestEnds FrontDoorOpens
CHECK_DEADLOCK FALSE
