\* Saving and restoring the cursor and the rendition on a 2x2 screen.
\* Characters: ESC '7' '8' CSI '4' '1' 'm' 's' 'a'
CONSTANTS
    ArgCap = 4
    InitialCols = 2
    InitialRows = 2
    NarrowCols = 2
    WideCols = 3
    MinPageLines = 2
    OtherFormat = {8203}
    MarkNonSpacing = {769}
    MarkEnclosing = {8413}
    ArgValues = {0, 1, 4, 41}
    Chars = {27, 55, 56, 155, 52, 49, 109, 115, 97}
    Flags <- CleanInput
SPECIFICATION MCSpec
CONSTRAINT ArgBound
PROPERTY SaveRestoreRoundTrip
