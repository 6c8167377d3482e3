SPECIFICATION FairSpec
CONSTANTS
    None = None
    up = up
    send = send
    Runners = {up, send}
    MaxLine = 2
INVARIANTS TypeOK WholePrompts EnterFindsIdle
PROPERTIES DeliberateStopIsNoError WaitUntilIdleEnds
CHECK_DEADLOCK FALSE
