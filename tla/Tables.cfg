\* The indexed colour table at all 256 indices, the Unicode range tables
\* at every range boundary, the input method on short typing sequences,
\* the machine ID line format and validation at every byte value, the
\* mouse pointer on short event sequences, HID report fields, every
\* encoding of the boot mouse descriptor, and boot mouse reports and
\* sysmouse packets split across reads, physical mouse buttons, AT
\* keyboard byte streams, and init's runlevel arguments on every build.
SPECIFICATION Spec
INVARIANT SystemColoursDistinct
INVARIANT RampsIncrease
INVARIANT ClassificationMatchesScan
INVARIANT DeadKeyOrderIrrelevant
INVARIANT UnicodeRulesApply
INVARIANT IdLineRoundTrip
INVARIANT ValidateYieldsRfc4122
INVARIANT UuidFormsAgree
INVARIANT PointerTracksPixel
INVARIANT HidFieldsMatchReference
INVARIANT DescriptorEncodingsAgree
INVARIANT BootMouseReportsDecoded
INVARIANT SysMousePacketsDecoded
INVARIANT ButtonNumbersAgree
INVARIANT ATModifiersFollowKeys
INVARIANT InitPrecedence
INVARIANT RunlevelWordsAgree
