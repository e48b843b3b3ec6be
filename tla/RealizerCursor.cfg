\* The realizer's loop as in Realizer.cfg, checked only for where the
\* compositor's cursor is put.
CONSTANTS
    Keys <- MCKeys
    Keymap <- MCKeymap
    Headers <- MCHeaders
    ScreenRows = 2
    ScreenCols = 2
    Quadrant = 3
    KeyQueueCap = 1
    MaxKeyEvents = 3
    MaxSwitches = 1
    MaxBufferChanges = 1
SPECIFICATION Spec
CHECK_DEADLOCK FALSE
INVARIANT CursorOnScreen
