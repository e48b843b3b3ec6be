\* Scroll margins.  Characters: CSI '5' ';' 'r'
CONSTANTS
    ArgCap = 4
    InitialCols = 4
    InitialRows = 3
    NarrowCols = 4
    WideCols = 5
    MinPageLines = 3
    OtherFormat = {8203}
    MarkNonSpacing = {769}
    MarkEnclosing = {8413}
    ArgValues <- SingleDigits
    Chars = {155, 53, 59, 114}
    Flags <- CleanInput
SPECIFICATION MCSpec
CONSTRAINT ArgBound
INVARIANT ScrollRegionValid
