CONSTANTS
    Ids = 3
    Frames = 3
    MaxReply = 2
    MaxCount = 3
    MaxPresses = 2
    Restarts = TRUE
SPECIFICATION MCSpec
INVARIANTS MCTypeOK ControlReady  FramesDelivered 
PROPERTIES UsbServes
