\* Cursor motion, wrapping and margins on a 4x3 screen.
\* Characters: 'a' CR LF BS RI CSI '2' ';' 'A' 'B' 'C' 'E' 'r'
CONSTANTS
    ArgCap = 4
    InitialCols = 4
    InitialRows = 3
    NarrowCols = 4
    WideCols = 5
    MinPageLines = 3
    OtherFormat = {8203}
    MarkNonSpacing = {769}
    MarkEnclosing = {8413}
    ArgValues <- SingleDigits
    Chars = {97, 13, 10, 8, 141, 155, 50, 59, 65, 66, 67, 69, 114}
    Flags <- CleanInput
SPECIFICATION MCSpec
CONSTRAINT ArgBound
PROPERTY RelativeMotionKeepsCursorOnScreen
PROPERTY PendingWrapLandsOnNextLine
