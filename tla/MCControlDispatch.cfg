CONSTANTS
    Wirings <- AllOrNothing
    IpcMessages <- AllMessages
    QueueBound = 2
    MaxMessages = 3
SPECIFICATION DispatchSpec
INVARIANTS LogIsSessionTraffic QueuedOnceInOrder RunningIffStarted AnsweredOnceInOrder
\* A behaviour ends after MaxMessages messages.
CHECK_DEADLOCK FALSE
