\* The realizer's loop with a five-key keyboard on a 2x2 framebuffer in
\* the default quadrant 3.  kevent has no timeout: once the environment's
\* bounds are spent and nothing is queued the loop blocks in kevent for
\* ever, as the program does, so deadlock is not checked.
CONSTANTS
    Keys <- MCKeys
    Keymap <- MCKeymap
    Headers <- MCHeaders
    ScreenRows = 2
    ScreenCols = 2
    Quadrant = 3
    KeyQueueCap = 1
    MaxKeyEvents = 3
    MaxSwitches = 1
    MaxBufferChanges = 1
SPECIFICATION Spec
CHECK_DEADLOCK FALSE
INVARIANT TypeOK
INVARIANT ComposeInBounds
PROPERTY BufferChangeShown
