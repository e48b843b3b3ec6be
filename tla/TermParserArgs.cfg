\* Control sequence argument decoding against the reference decoding.
\* Characters: '0' '7' ';' '?' 'm' 'H' 'r' '[' ESC CSI CAN CR SP 'F'.
CONSTANTS
    ArgCap = 4
    Rows = 3
    MaxParams = 4
    Chars = {48, 55, 59, 63, 109, 72, 114, 91, 27, 155, 24, 13, 32, 70}
SPECIFICATION MCSpec
CONSTRAINT ParamBound
INVARIANT TypeOK
PROPERTY ArgsMatchReference
