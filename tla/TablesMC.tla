---------------------------- MODULE TablesMC -------------------------------
(***************************************************************************)
(* The pure operators, one probe at a time: the state is a probe that   *)
(* never changes after Init, and index says what kind it is.  At 0..255  *)
(* and at every code point on either side of a Unicode range boundary    *)
(* it is the value looked up in the colour, range and machine ID tables;  *)
(* -1 a typing sequence for the input method, -2 mouse events, -3 HID     *)
(* report bytes, -4 boot mouse reports split across reads, -5 a boot      *)
(* mouse descriptor encoding, -6 sysmouse packets split across reads,    *)
(* -7 a physical mouse button, -8 AT keyboard bytes split across reads. *)
(***************************************************************************)
EXTENDS Integers, Colour256, UnicodeClassification, DeadKeys, FiniteSets
SE == INSTANCE SequencesExt
MI == INSTANCE MachineId
LOCAL INSTANCE Bitwise
PT == INSTANCE Pointer
HF == INSTANCE HidFields
HD == INSTANCE HidDescriptor
HR == INSTANCE HidReports
SM == INSTANCE SysMouse
EV == INSTANCE Evdev
AT == INSTANCE ATKeyboard
OB == INSTANCE HidOpenBSD
KB == INSTANCE KeyboardModifierState
SC == INSTANCE SystemStateChange

VARIABLES index, typed, mouse, buf

\* Code points at, and next to, the ends of every range of every table.
Boundaries(t) == UNION {{t[i][1] - 1, t[i][1], t[i][2], t[i][2] + 1} : i \in DOMAIN t}
CodePointProbes == Boundaries(Mn) \cup Boundaries(Me) \cup Boundaries(Cf) \cup Boundaries(CC)

\* The letters, and the dead keys that compose with some letter: a dead
\* key typed twice, two dead keys of different combining classes (the
\* pair compared with itself reversed), then a letter.
Letters == {c \in 65..122 : c \in 65..90 \/ c \in 97..122}
LetterMarks == {r[1] : r \in {unicode_combinations[i] : i \in DOMAIN unicode_combinations}} \cap
               {m \in 768..819 : \E i \in DOMAIN unicode_combinations :
                                     unicode_combinations[i][1] = m /\ unicode_combinations[i][2] \in Letters}
MarkPairs == {<<m1, m2>> \in LetterMarks \X LetterMarks :
                 m1 < m2 /\ UC!CombiningClass(m1) # UC!CombiningClass(m2)}
\* Every rule of unicode_combinations whose first code point is a dead key
\* and whose second is not (a mark second would be held back as well).
IsDeadKey(c) == UC!IsMarkNonSpacing(c) \/ UC!IsMarkEnclosing(c)
DeadKeyRules == {<<r[1], r[2]>> : r \in {t \in {unicode_combinations[i] : i \in DOMAIN unicode_combinations} :
                                         IsDeadKey(t[1]) /\ ~IsDeadKey(t[2])}}
TypingProbes == {<<p[1], p[2], b>> : p \in MarkPairs, b \in Letters} \cup DeadKeyRules

\* A 40x32 pixel framebuffer, two character cells wide (with 8 pixels to
\* spare) and two high, and mouse events: relative moves smaller and
\* larger than the screen, absolute positions over an evdev range of
\* 0..32767, a wheel turn past a signed byte, a button.
Xres == 40
Yres == 32
AbsMax == 32767
MouseEvents ==
    {<<"rel", a, d>> : a \in {"X", "Y"}, d \in {-20, 5, 20, 60}}
    \cup {<<"abs", a, p>> : a \in {"X", "Y"}, p \in {0, 20000, AbsMax}}
    \cup {<<"rel", "V_SCROLL", -200>>, <<"button", 0, TRUE>>}
MouseProbes == UNION {[1..n -> MouseEvents] : n \in 1..3}

\* HID report buffers of four bytes, each byte with and without its top
\* bit, and report fields at and around byte boundaries.
ReportBytes == {0, 90, 128, 255}
FieldPositions == {0, 1, 5, 7, 8, 12, 16, 23}
FieldLengths == {0, 1, 2, 7, 8, 9, 12, 15, 16, 17, 24}

\* The boot-protocol mouse descriptor as items [type, tag, v, ext], ext
\* being a usage's extended (page and usage) form; with push, the button
\* section is bracketed by Push and Pop instead of setting the usage page
\* back.  An encoding gives each item a data width: the first choice of
\* the policy at odd items, the second at even ones, when the value fits.
It(type, tag, v, ext) == [type |-> type, tag |-> tag, v |-> v, ext |-> ext]
G(tag, v) == It(1, tag, v, v)
U(tag, page, u) == It(2, tag, u, HD!HID_USAGE2(page, u))
M(tag, v) == It(0, tag, v, v)
BootMouseItems(push) ==
    <<G(0, 1), U(0, 1, 2), M(10, 1), U(0, 1, 1), M(10, 0)>>
    \o (IF push THEN <<G(10, 0)>> ELSE <<>>)
    \o <<G(0, 9), U(1, 9, 1), U(2, 9, 3), G(1, 0), G(2, 1), G(9, 3), G(7, 1), M(8, 2),
         G(9, 1), G(7, 5), M(8, 1)>>
    \o (IF push THEN <<G(11, 0)>> ELSE <<G(0, 1)>>)
    \o <<U(0, 1, 48), U(0, 1, 49), G(1, -127), G(2, 127), G(7, 8), G(9, 2), M(8, 6),
         M(12, 0), M(12, 0)>>
Fits(it, w) == CASE w = 0 -> it.v = 0 [] w = 1 -> it.v \in -128..127
                 [] w = 2 -> it.v \in -32768..32767 [] w = 4 -> it.v >= 0
Width(it, p) == IF Fits(it, p) THEN p ELSE CHOOSE w \in {0, 1, 2} : Fits(it, w) /\ \A x \in 0..w - 1 : ~Fits(it, x)
ItemBytes(it, w) ==
    LET x == IF w = 4 THEN it.ext ELSE it.v % (256 ^ w)
    IN <<it.tag * 16 + it.type * 4 + (IF w = 4 THEN 3 ELSE w)>>
       \o [k \in 1..w |-> (x \div 256 ^ (k - 1)) % 256]
Encoded(items, policy) ==
    SE!FlattenSeq([k \in 1..Len(items) |-> ItemBytes(items[k], Width(items[k], policy[(k % 2) + 1]))])
Parsed(b) == HD!ReadDescription(b, Len(b), Len(b))
BootMouse == Parsed(Encoded(BootMouseItems(FALSE), <<1, 1>>))

\* The boot protocol's report: three button bits, five bits of padding,
\* then X and Y as signed bytes in -127..127.
BootVar(u, pos, len, rel, min, max) ==
    [ident |-> u, pos |-> pos, len |-> len, relative |-> rel, min |-> min, max |-> max]
BootLayout ==
    [has_report_ids |-> FALSE, outputs |-> <<>>,
     inputs |-> [id \in {0} |-> [bits |-> 24, bytes |-> 3, indices |-> <<>>,
                      variables |-> <<BootVar(HD!HID_USAGE2(9, 1), 0, 1, FALSE, 0, 1),
                                      BootVar(HD!HID_USAGE2(9, 2), 1, 1, FALSE, 0, 1),
                                      BootVar(HD!HID_USAGE2(9, 3), 2, 1, FALSE, 0, 1),
                                      BootVar(HD!HID_USAGE2(1, 48), 8, 8, TRUE, -127, 127),
                                      BootVar(HD!HID_USAGE2(1, 49), 16, 8, TRUE, -127, 127)>>]]]
Widths == {0, 1, 2, 4}

\* Boot mouse reports, with buttons and padding bits set, and moves at
\* and past the logical range; the byte offsets at which the reports'
\* bytes are split between reads.
MouseReports == {<<1, 20, 236>>, <<248, 0, 0>>, <<5, 127, 129>>, <<2, 128, 60>>}
Cuts == {<<>>} \cup {<<c>> : c \in 1..5} \cup {<<c, d>> \in (1..5) \X (1..5) : c < d}

\* Mouse Systems packets: level 0 with no button, and with the left and
\* right buttons down and an X byte that looks like a sync byte; level 1
\* with a wheel move and an extra button down, and with an X move past
\* the screen and every extra button up.  The ways of cutting n bytes
\* into at most three reads.
SysPackets == {<<135, 5, 254, 131, 1>>, <<130, 200, 0, 0, 0>>,
               <<134, 3, 3, 0, 0, 127, 0, 126>>, <<135, 40, 0, 40, 0, 1, 1, 127>>}
Splits(n) == {<<>>} \cup {<<c>> : c \in 1..n-1} \cup {<<c, d>> \in (1..n-1) \X (1..n-1) : c < d}

\* AT keycode-mode bytes: the caps lock (0x3A), left shift (0x2A) and A
\* (0x1E) keys' make codes, and the first two's break codes (bit 7 set);
\* a make code of a key already down is the keyboard's autorepeat.
ATCaps == 58
ATShift == 42
ATKeyA == 30
RunlevelArgs == {"b", "s", "h", "0", "6", "2", "update", "bogus"}
Builds == [linux : BOOLEAN, halt : BOOLEAN, poweroff : BOOLEAN]
ATStreams == UNION {[1..n -> {ATCaps, ATCaps + 128, ATShift, ATShift + 128, ATKeyA}] : n \in 1..4}

Init == \/ index \in 0..255 \cup CodePointProbes /\ typed = <<>> /\ mouse = <<>> /\ buf = <<>>
        \/ index = -1 /\ typed \in TypingProbes /\ mouse = <<>> /\ buf = <<>>
        \/ index = -2 /\ typed = <<>> /\ mouse \in MouseProbes /\ buf = <<>>
        \/ index = -3 /\ typed = <<>> /\ mouse = <<>> /\ buf \in [1..4 -> ReportBytes]
        \/ index = -4 /\ typed \in [1..2 -> MouseReports] /\ mouse \in Cuts /\ buf = <<>>
        \/ index = -5 /\ typed = <<>> /\ mouse = <<>> /\ buf \in Widths \X Widths \X BOOLEAN
        \/ index = -6 /\ typed \in [1..2 -> SysPackets] /\ mouse \in Splits(Len(SE!FlattenSeq(typed)))
                     /\ buf = <<>>
        \/ index = -7 /\ typed \in {<<n>> : n \in 1..8} /\ mouse = <<>> /\ buf = <<>>
        \/ index = -8 /\ typed \in ATStreams /\ mouse \in Splits(Len(typed)) /\ buf = <<>>
        \/ index = -9 /\ typed \in UNION {[1..n -> RunlevelArgs] : n \in 0..2} /\ mouse = <<>> /\ buf \in Builds
Next == UNCHANGED <<index, typed, mouse, buf>>
Spec == Init /\ [][Next]_<<index, typed, mouse, buf>>

Channels(c) == <<c[2], c[3], c[4]>>

\* Map256Colour, indices 0..15: the system colours are sixteen different
\* colours (the substitution at index 8 is there so that bright black does
\* not come out as black).
SystemColoursDistinct ==
    index \in 0..15 => \A j \in 0..15 : j # index => Map256Colour(j) # Map256Colour(index)

\* Map256Colour, indices 16..255: along each axis of the 6x6x6 cube, and
\* along the grey ramp, a higher level is strictly brighter, so neither
\* ramp folds back when a channel leaves the uint8_t range.
RampsIncrease ==
    /\ index \in 16..231 =>
         \A axis \in {1, 6, 36} :
            ((index - 16) \div axis) % 6 < 5 =>
                \A ch \in 1..3 :
                   Channels(Map256Colour(index + axis))[ch]
                       >= Channels(Map256Colour(index))[ch]
                /\ Channels(Map256Colour(index + axis)) # Channels(Map256Colour(index))
    /\ index \in 232..254 =>
         Channels(Map256Colour(index + 1))[1] > Channels(Map256Colour(index))[1]

\* What a scan of the whole table gives: membership, and the rank of the
\* range holding the code point (0 when none does).
InTable(t, c) == \E i \in DOMAIN t : RangeContains(t[i], c)
RankByScan(t, c) ==
    IF InTable(t, c) THEN t[CHOOSE i \in DOMAIN t : RangeContains(t[i], c)][3] ELSE 0

\* IsMarkNonSpacing, IsMarkEnclosing, IsOtherFormat and CombiningClass:
\* the binary search of Contains and Rank answers what a scan of the table
\* answers at every range boundary, which holds only if lower_bound and the
\* ranges' operator< agree and every table is sorted and disjoint.
ClassificationMatchesScan ==
    /\ IsMarkNonSpacing(index) = InTable(Mn, index)
    /\ IsMarkEnclosing(index) = InTable(Me, index)
    /\ IsOtherFormat(index) = InTable(Cf, index)
    /\ CombiningClass(index) = RankByScan(CC, index)

\* A machine ID in which every byte position takes all 256 values as
\* index does.
SampleId == [n \in 1..16 |-> (index + 17 * n) % 256]

\* write_one_line and read_first_line_machine_id: the line written for a
\* machine ID reads back as that ID, with or without its newline, and in
\* upper case as in lower (x2c folds the case c2x does not produce).
IdLineRoundTrip ==
    index \in 0..255 =>
        LET line == MI!WriteOneLine(SampleId)
        IN /\ MI!ReadFirstLineMachineId(line) = [ok |-> TRUE, id |-> SampleId]
           /\ MI!ReadFirstLineMachineId(SubSeq(line, 1, 32)) = [ok |-> TRUE, id |-> SampleId]
           /\ MI!ReadFirstLineMachineId([p \in 1..32 |-> IF line[p] >= 97 THEN line[p] - 32 ELSE line[p]])
                 = [ok |-> TRUE, id |-> SampleId]

\* Whether a machine ID is an RFC 4122 UUID of variant 1 and version 1-5.
Rfc4122(id) == id[9] \div 64 = 2 /\ id[7] \div 16 \in 1..5

\* validate (machine_id.cpp lines 428-441): whatever bytes 6 and 8 of a
\* non-nil ID hold, the result is an RFC 4122 UUID that validate leaves
\* as it is, differing from the input only in the variant and version
\* bits, and not at all when the input was one already.
ValidateYieldsRfc4122 ==
    index \in 0..255 =>
        \A v \in 0..255 :
            LET id == [n \in 1..16 |-> CASE n = 9 -> index [] n = 7 -> v [] OTHER -> n]
                r == MI!Validate(id)
            IN /\ r.ok /\ Rfc4122(r.id) /\ MI!Validate(r.id) = r
               /\ r.id[9] % 64 = index % 64 /\ r.id[7] % 16 = v % 16
               /\ (Rfc4122(id) => r.id = id)

\* The upper-case form of a line of character codes.
UpperCase(line) == [p \in 1..Len(line) |-> IF line[p] \in 97..122 THEN line[p] - 32 ELSE line[p]]

\* human_readable_form, write_one_line_hostuuid and read_first_line_uuid
\* (machine_id.cpp lines 33-54, 110-176, 255-284): on Linux and on the
\* BSDs, on a little- or a big-endian host, the readable form of an ID is
\* its compact form in 8-4-4-4-12 groups (uuid_to_guid undoing the
\* network order that guid_to_uuid stored), and that form, the hostuuid
\* line and their upper-case versions read back as the same ID.
UuidFormsAgree ==
    index \in 0..255 =>
        \A o \in MI!ByteOrders, p \in {"linux", "bsd"} :
            LET form == MI!HumanReadableForm(p, SampleId, o)
                host == MI!WriteOneLineHostuuid(SampleId, o)
                read(t) == MI!ReadFirstLineUuid(p, MI!NullId, t, o)
            IN /\ form = MI!Dashed(MI!HumanReadableFormCompact(SampleId))
               /\ read(form \o <<MI!NL>>) = [ok |-> TRUE, id |-> SampleId]
               /\ read(UpperCase(host)) = [ok |-> TRUE, id |-> SampleId]
               /\ read(SubSeq(host, 1, 36)) = [ok |-> TRUE, id |-> SampleId]

\* The pointer after the events of a sequence, each handled as the evdev
\* reader passes it on (HID::handle_input_events, lines 3536-3541).
MouseStep(st, e) ==
    CASE e[1] = "rel" -> PT!HandleMouseRelpos(st, e[2], e[3], Xres, Yres)
      [] e[1] = "abs" -> PT!HandleMouseAbspos(st, e[2], e[3], AbsMax, Xres, Yres)
      [] e[1] = "button" -> PT!HandleMouseButton(st, e[2], e[3])
Pointed(s) == SE!FoldLeft(MouseStep, PT!InitialPointer, s)

\* set_pointer_x/y and change_pointer_col/row: after any mouse events the
\* compositor's pointer cell is on the screen, so cur_at never indexes
\* outside cur_cells, and it is the cell under the pointer's pixel
\* whenever that cell is on the screen.
PointerTracksPixel ==
    index = -2 =>
        LET st == Pointed(mouse)
        IN /\ st.row < PT!ScreenH(Yres) /\ st.col < PT!ScreenW(Xres)
           /\ PT!PixelToColumn(st.xpixel) < PT!ScreenW(Xres) => st.col = PT!PixelToColumn(st.xpixel)
           /\ PT!PixelToRow(st.ypixel) < PT!ScreenH(Yres) => st.row = PT!PixelToRow(st.ypixel)

\* The bits pos..pos+len-1 of the first three bytes of buf, read as one
\* little-endian number, unsigned and as a two's complement number.
ReportBits(pos, len) == ((buf[1] + 256 * buf[2] + 65536 * buf[3]) \div (2 ^ pos)) % (2 ^ len)
SignedBits(pos, len) ==
    IF len > 0 /\ ReportBits(pos, len) >= 2 ^ (len - 1) THEN ReportBits(pos, len) - 2 ^ len
    ELSE ReportBits(pos, len)

\* GetUnsignedField and GetSignedField: a field that lies in the report
\* and is byte-aligned or a single bit reads as its bits, unsigned or
\* sign-extended, whatever the buffer holds past the report; a field that
\* starts past the report reads 0.  (Unaligned fields of more than one
\* bit are the \bug of line 2962 and read 0.)
HidFieldsMatchReference ==
    index = -3 =>
        \A pos \in FieldPositions, len \in FieldLengths, rs \in 1..3 :
            /\ (pos + len <= 8 * rs /\ (pos % 8 = 0 \/ len = 1)) =>
                   /\ HF!GetUnsignedField(buf, pos, len, rs) = ReportBits(pos, len)
                   /\ HF!GetSignedField(buf, pos, len, rs) = SignedBits(pos, len)
            /\ pos >= 8 * rs =>
                   HF!GetUnsignedField(buf, pos, len, rs) = 0 /\ HF!GetSignedField(buf, pos, len, rs) = 0

\* What typing the code points of s one after another sends.
Typing(s) ==
    LET step(acc, c) == LET h == HandleCharacterInput(acc.dead_keys, c)
                        IN [dead_keys |-> h.dead_keys, sent |-> acc.sent \o h.sent]
    IN SE!FoldLeft(step, [dead_keys |-> <<>>, sent |-> <<>>], s).sent

\* handle_character_input sorts the held dead keys into combining-class
\* order before composing (line 2572), as canonical ordering does: two
\* dead keys of different classes typed in either order before a letter
\* send the same characters.
DeadKeyOrderIrrelevant ==
    index = -1 /\ Len(typed) = 3 => Typing(typed) = Typing(<<typed[2], typed[1], typed[3]>>)

\* combine_unicode's binary search (line 2530) finds every rule of
\* unicode_combinations: a dead key followed by the rule's base sends the
\* rule's result alone.  This holds only if the table is sorted by
\* Combination::operator<.
UnicodeRulesApply ==
    index = -1 /\ Len(typed) = 2 =>
        Typing(typed) = <<CHOOSE r \in {unicode_combinations[i][3] : i \in {j \in DOMAIN unicode_combinations :
                                         unicode_combinations[j][1] = typed[1] /\ unicode_combinations[j][2] = typed[2]}} : TRUE>>

\* read_description reads an item's data at the width its prefix gives,
\* a 4-byte usage as a page and usage, a logical extent as signed when
\* the minimum is negative, and a Push/Pop pair as saving and restoring
\* the globals: however the boot mouse descriptor is encoded, it describes
\* the boot protocol's report.
DescriptorEncodingsAgree ==
    index = -5 => Parsed(Encoded(BootMouseItems(buf[3]), <<buf[1], buf[2]>>)) = BootLayout

\* A boot report decoded from its fixed layout: button changes, in order,
\* then X and Y moves inside the logical range -127..127.
Signed8(x) == IF x >= 128 THEN x - 256 ELSE x
BootReport(acc, r) ==
    LET down(b) == (r[1] \div 2 ^ b) % 2 = 1
        held(b) == (acc.held \div 2 ^ b) % 2 = 1
        press(p, b) == IF down(b) # held(b) THEN PT!HandleMouseButton(p, HR!TranslateStdButton(b), down(b)) ELSE p
        move(p, a, x) == IF Signed8(x) >= -127 THEN PT!HandleMouseRelpos(p, a, Signed8(x), Xres, Yres) ELSE p
    IN [ptr |-> move(move(press(press(press(acc.ptr, 0), 1), 2), "X", r[2]), "Y", r[3]),
        held |-> r[1] % 8]
BootReference(rs) == SE!FoldLeft(BootReport, [ptr |-> PT!InitialPointer, held |-> 0], rs)

\* The reads that deliver bytes, split at the offsets in cuts.
Reads(bytes, cuts) ==
    LET ends == cuts \o <<Len(bytes)>>
    IN [k \in 1..Len(ends) |-> SubSeq(bytes, IF k = 1 THEN 1 ELSE ends[k - 1] + 1, ends[k])]

\* handle_input_events keeps the bytes of a report that a read cut short
\* and takes the report apart by the layout read_description made: after
\* every read, the pointer and the buttons held are what the reports
\* wholly read so far give when decoded from the boot layout directly;
\* the OpenBSD driver's copy of the loop does the same.
BootMouseReportsDecoded ==
    index = -4 =>
        LET reads == Reads(typed[1] \o typed[2], mouse)
            \* The states after each read, in order.
            states == SE!FoldLeft(LAMBDA ss, b : ss \o <<HR!HandleInputEvents(ss[Len(ss)], BootMouse, b, Xres, Yres)>>,
                                  <<HR!InitialState>>, reads)
            statesOB == SE!FoldLeft(LAMBDA ss, b : ss \o <<OB!HandleInputEvents(ss[Len(ss)], BootMouse, b, Xres, Yres)>>,
                                    <<OB!InitialState>>, reads)
            whole(k) == Len(SE!FlattenSeq(SubSeq(reads, 1, k))) \div 3
        IN \A k \in 1..Len(reads) :
               LET ref == BootReference(SubSeq(typed, 1, whole(k)))
               IN /\ statesOB[k + 1] = states[k + 1]
                  /\ states[k + 1].ptr = ref.ptr
                  /\ states[k + 1].stdbuttons = ref.held

\* A Mouse Systems packet decoded at the level it was sent at: X, Y
\* (upwards), the wheel, then each button whose state changed, in the
\* protocol's bit order, down when its bit is clear.  The buttons start
\* as the driver's constructor leaves them, all down.
Signed7(x) == IF x >= 64 THEN x - 128 ELSE x
SysButtons(p, old, new, n, name(_)) ==
    SE!FoldLeft(LAMBDA q, b : IF (old \div 2 ^ b) % 2 # (new \div 2 ^ b) % 2
                              THEN PT!HandleMouseButton(q, name(b), (new \div 2 ^ b) % 2 = 0) ELSE q,
                p, [i \in 1..n |-> i - 1])
SysReport(acc, pk) ==
    LET x == Signed8(pk[2]) + Signed8(pk[4])
        y == Signed8(pk[3]) + Signed8(pk[5])
        z == IF Len(pk) = 8 THEN Signed7(pk[6]) + Signed7(pk[7]) ELSE 0
        mv(p, a, d) == IF d # 0 THEN PT!HandleMouseRelpos(p, a, d, Xres, Yres) ELSE p
        std == pk[1] % 8
        ext == IF Len(pk) = 8 THEN pk[8] % 128 ELSE acc.ext
        p1 == SysButtons(mv(mv(mv(acc.ptr, "X", x), "Y", -y), "V_SCROLL", z), acc.std, std, 3,
                         LAMBDA b : 2 - b)
    IN [ptr |-> IF Len(pk) = 8 THEN SysButtons(p1, acc.ext, ext, 7, LAMBDA b : b + 3) ELSE p1,
        std |-> std, ext |-> ext]
SysReference(ps) == SE!FoldLeft(SysReport, [ptr |-> PT!InitialPointer, std |-> 0, ext |-> 0], ps)

\* SysMouse::handle_input_events guesses each packet's level from the
\* bytes after it and resynchronises on sync bytes.  When reads end
\* between packets, after every read the pointer, every message sent and
\* the buttons are what decoding the packets wholly read at their own
\* level gives.  When a read ends anywhere, the pointer's position and
\* the standard buttons are those of the packets whose first five bytes
\* have arrived.
SysMousePacketsDecoded ==
    index = -6 =>
        LET bytes == SE!FlattenSeq(typed)
            reads == Reads(bytes, mouse)
            after(k) == SE!FoldLeft(LAMBDA st, b : SM!HandleInputEvents(st, b, Xres, Yres),
                                    SM!InitialState, SubSeq(reads, 1, k))
            arrived(k) == Len(SE!FlattenSeq(SubSeq(reads, 1, k)))
            ends == {Len(typed[1]), Len(bytes)}
            whole(k) == Cardinality({j \in 1..2 : Len(SE!FlattenSeq(SubSeq(typed, 1, j))) <= arrived(k)})
            begun(k) == Cardinality({j \in 1..2 : Len(SE!FlattenSeq(SubSeq(typed, 1, j - 1))) + 5 <= arrived(k)})
            pos(p) == <<p.xpixel, p.ypixel, p.row, p.col>>
        IN \A k \in 1..Len(reads) :
               /\ {mouse[i] : i \in DOMAIN mouse} \subseteq ends =>
                      /\ after(k).ptr = SysReference(SubSeq(typed, 1, whole(k))).ptr
                      /\ after(k).extbuttons = SysReference(SubSeq(typed, 1, whole(k))).ext
               /\ pos(after(k).ptr) = pos(SysReference(SubSeq(typed, 1, begun(k))).ptr)
               /\ after(k).stdbuttons = SysReference(SubSeq(typed, 1, begun(k))).std

(***************************************************************************)
(* A physical mouse button n, numbered as USB HID numbers them (1 left,   *)
(* 2 right, 3 middle, 4 on), as each kernel interface encodes it: Linux   *)
(* hid-input gives usage n the code BTN_MOUSE + n - 1; FreeBSD's ums and  *)
(* sysmouse put left, middle and right in bits 2, 1 and 0 of the sync     *)
(* byte and button 4 on in the bits of the eighth byte, set when up.      *)
(***************************************************************************)
LinuxButtonCode == <<"BTN_LEFT", "BTN_RIGHT", "BTN_MIDDLE", "BTN_SIDE", "BTN_EXTRA",
                     "BTN_FORWARD", "BTN_BACK", "BTN_TASK">>
SysPacket(n) ==
    LET std == IF n = 1 THEN 3 ELSE IF n = 2 THEN 6 ELSE IF n = 3 THEN 5 ELSE 7
        ext == IF n >= 4 THEN 127 - 2 ^ (n - 4) ELSE 127
    IN <<128 + std, 0, 0, 0, 0, 0, 0, ext>>
SysAllUp == <<135, 0, 0, 0, 0, 0, 0, 127>>

\* HID::handle_input_events of Linux (evdev), USBHIDBase::handle_mouse_button
\* (BSD HID) and SysMouse::handle_input_events each translate the
\* interface's button number into the Realizer's: a press and release of
\* one physical button must reach handle_mouse_button as a press and a
\* release of the same Realizer button whichever driver reported it, or
\* a right click on one machine is a middle click on another.  (The
\* sysmouse decoder's first packet reports every button up, since its
\* state starts as all down; what follows it is compared.)
ButtonNumbersAgree ==
    index = -7 =>
        LET n == typed[1]
            press(v) == [type |-> "EV_KEY", code |-> LinuxButtonCode[n], value |-> v]
            syn == [type |-> "EV_SYN", code |-> "SYN_REPORT", value |-> 0]
            evdev == EV!HandleInputEvents(EV!InitialState, <<press(1), syn, press(0), syn>>, Xres, Yres).ptr.sent
            id == HD!HID_USAGE2(HR!HUP_BUTTON, n)
            hid == HR!HandleMouseButton(HR!HandleMouseButton(HR!InitialState, id, TRUE), id, FALSE).ptr.sent
            first == SM!HandleInputEvents(SM!InitialState, SysAllUp, Xres, Yres)
            sys == SM!HandleInputEvents(first, SysPacket(n) \o SysAllUp, Xres, Yres).ptr.sent
            sysmouse == SubSeq(sys, Len(first.ptr.sent) + 1, Len(sys))
        IN /\ Len(evdev) = 2 /\ evdev[1][3] /\ ~evdev[2][3] /\ evdev[1][2] = evdev[2][2]
           /\ hid = evdev
           /\ sysmouse = evdev

\* The keyboard map for the AT probe: caps lock locks CAPS, left shift is
\* the first LEVEL2 key, momentary, and A types a character.  A key goes
\* to the modifier state as handle_keyboard (row, col) sends it: a
\* modifier to event(k, cmd, v), any other key that is pressed or
\* repeated unlatches.
ATKeymap == [c \in {ATCaps, ATShift, ATKeyA} |->
                CASE c = ATCaps -> [k |-> KB!KBDMAP_MODIFIER_CAPS, cmd |-> KB!KBDMAP_MODIFIER_CMD_LOCK]
                  [] c = ATShift -> [k |-> KB!KBDMAP_MODIFIER_1ST_LEVEL2, cmd |-> KB!KBDMAP_MODIFIER_CMD_MOMENTARY]
                  [] OTHER -> [k |-> -1, cmd |-> 0]]
ATApply(s, key) ==
    LET a == ATKeymap[key[1]]
    IN IF a.k >= 0 THEN KB!Event(s, a.k, a.cmd, key[2])
       ELSE IF key[2] >= 1 THEN KB!Unlatch(s) ELSE s

\* ATKeyboard::handle_input_events tells a press from the keyboard's
\* autorepeat with its pressed array, which must survive between reads:
\* for any stream of make and break codes, split across reads anywhere,
\* after every read the caps lock is on exactly when the caps lock key
\* has gone down (a make code not preceded by another make code of the
\* same key without a break between) an odd number of times, and level 2
\* is held exactly when the shift key's last code was a make code.
ATModifiersFollowKeys ==
    index = -8 =>
        LET reads == Reads(typed, mouse)
            after(k) == SE!FoldLeft(LAMBDA st, b : AT!HandleInputEvents(st, b),
                                    AT!InitialState, SubSeq(reads, 1, k))
            seen(k) == SE!FlattenSeq(SubSeq(reads, 1, k))
            codes(p, key) == SE!SelectSeq(p, LAMBDA b : b % 128 = key)
            wentDown(p, key) ==
                {i \in 1..Len(codes(p, key)) : codes(p, key)[i] = key /\ (i = 1 \/ codes(p, key)[i - 1] # key)}
            lastIsMake(p, key) == codes(p, key) # <<>> /\ SE!Last(codes(p, key)) = key
        IN \A k \in 1..Len(reads) :
               LET s == SE!FoldLeft(ATApply, KB!InitialModifierState, after(k).keys)
               IN /\ KB!CapsLock(s) = (Cardinality(wentDown(seen(k), ATCaps)) % 2 = 1)
                  /\ KB!Level2(s) = lastIsMake(seen(k), ATShift)

\* The actions an init command line asks for: NORMAL, those its runlevel
\* arguments name, and those of its mode options.
InitRequests(build, opts, args) ==
    ({"NORMAL"} \cup {SC!RunlevelAction(build, args[i]) : i \in DOMAIN args}
     \cup {a \in {"EMERGENCY", "RESCUE", "UPDATE"} :
              \/ a = "EMERGENCY" /\ "b" \in opts /\ build.linux
              \/ a = "EMERGENCY" /\ "s" \in opts /\ ~build.linux
              \/ a = "RESCUE" /\ "s" \in opts /\ build.linux
              \/ a = "UPDATE" /\ "o" \in opts}) \ {"NONE"}

\* init (system-state-change.cpp lines 210-352): whatever the order of its
\* options and runlevel arguments, init carries out the request of
\* highest precedence in the Action enum (emergency over rescue over
\* update over poweroff over reboot over halt over normal), on every
\* build, so a later argument never overrides an earlier, stronger one.
InitPrecedence ==
    index = -9 =>
        \A opts \in SUBSET {"u", "s", "b", "o"} :
            LET req == InitRequests(buf, opts, typed)
                top == CHOOSE a \in req : \A b \in req : SC!Rank(buf, b) <= SC!Rank(buf, a)
            IN opts \subseteq SC!InitOptions(buf) =>
                  SC!InitCommand(buf, opts, typed, 0) = SC!ActionOutcome(buf, top, "u" \in opts, 0)

\* init's runlevel words and the dedicated system-control commands of the
\* same name (emergency, rescue, single, normal, default; 6 as reboot, 0
\* as poweroff, h as halt where defined) send the same signals to the
\* same process and end the same way, also when a kill() fails after
\* the first signal of two.
RunlevelWordsAgree ==
    index = -9 /\ typed = <<>> =>
        \A opts \in {{}, {"u"}}, fail \in 0..2 :
            LET init(w) == SC!InitCommand(buf, opts, <<w>>, fail)
            IN /\ \A w \in {"emergency", "rescue", "single", "normal", "default"} :
                     init(w) = SC!EmergencyRescueNormalCommand(w, opts, fail)
               /\ init("6") = SC!RebootPoweroffHaltCommand(buf, "reboot", opts, fail)
               /\ buf.poweroff => init("0") = SC!RebootPoweroffHaltCommand(buf, "poweroff", opts, fail)
               /\ buf.halt => init("h") = SC!RebootPoweroffHaltCommand(buf, "halt", opts, fail)
=============================================================================
