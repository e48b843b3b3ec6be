\* Tab stops: setting, clearing, forward and backward tabulation.
\* Characters: HTS TAB CSI '2' '3' 'I' 'Z' 'g' 'a' CR
CONSTANTS
    ArgCap = 4
    InitialCols = 4
    InitialRows = 3
    NarrowCols = 4
    WideCols = 5
    MinPageLines = 3
    OtherFormat = {8203}
    MarkNonSpacing = {769}
    MarkEnclosing = {8413}
    ArgValues <- SingleDigits
    Chars = {136, 9, 155, 50, 51, 73, 90, 103, 97, 13}
    Flags <- CleanInput
SPECIFICATION MCSpec
CONSTRAINT ArgBound
PROPERTY TabStopLanding
