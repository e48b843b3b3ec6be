------------------------------ MODULE MachineId ------------------------------
(***************************************************************************)
(* machine_id.cpp: the machine ID as 16 bytes (a sequence of byte values), *)
(* its one-line file form of 32 hex digits and a newline, the reader of   *)
(* that form, and validate(), which makes the ID an RFC 4122 variant-1    *)
(* UUID of a known version.  A file's first line is a sequence of         *)
(* character codes; reading past its end is the stream's EOF.            *)
(***************************************************************************)
EXTENDS Integers, Sequences, Bitwise
LOCAL SE == INSTANCE SequencesExt

EOF == -1
NL == 10

\* The nil UUID that erase() leaves (uuid_clear, line 226).
NullId == [n \in 1..16 |-> 0]

IsDigit(c) == c \in 48..57
IsAlpha(c) == c \in 65..90 \cup 97..122
IsXDigit(c) == IsDigit(c) \/ c \in 65..70 \/ c \in 97..102
ToLower(c) == IF c \in 65..90 THEN c + 32 ELSE c

\* x2c (lines 57-67): a hex digit's value.
x2c(c) ==
    CASE IsDigit(c) -> c - 48
      [] IsAlpha(c) -> ToLower(c) - 97 + 10
      [] OTHER -> EOF

\* A digit range that takes in ten.
c2xDecimalTen(c) ==
    CASE c = EOF \/ c < 0 -> EOF
      [] c <= 10 -> c + 48
      [] c < 36 -> c + 97 - 10
      [] OTHER -> EOF

\* c2x (lines 69-77): a nibble's digit, in lower case.
c2x(c) ==
    CASE c = EOF \/ c < 0 -> EOF
      [] c < 10 -> c + 48
      [] c < 36 -> c + 97 - 10
      [] OTHER -> EOF

\* write_one_line (lines 149-160): two digits per byte, high nibble first,
\* then a newline.
WriteOneLine(id) ==
    [p \in 1..32 |-> LET b == id[(p + 1) \div 2]
                     IN c2x(IF p % 2 = 1 THEN (b \div 16) % 16 ELSE b % 16)]
    \o <<NL>>

\* The character get() returns at position p of the line; past its end,
\* EOF with the stream's fail bit set.
Get(line, p) == IF p <= Len(line) THEN line[p] ELSE EOF

\* read_first_line_machine_id(istream) (lines 80-97): the ID is erased,
\* then 32 hex digits are shifted into its bytes; a missing or non-hex
\* character fails, leaving the bytes read so far.  The line must end
\* there.  The result is [ok, id].
RECURSIVE ReadDigits(_, _, _)
ReadDigits(line, p, id) ==
    IF p > 32 THEN [ok |-> TRUE, id |-> id]
    ELSE LET c == Get(line, p)
             n == (p + 1) \div 2
         IN IF c = EOF \/ ~IsXDigit(c) THEN [ok |-> FALSE, id |-> id]
            ELSE ReadDigits(line, p + 1,
                            [id EXCEPT ![n] = ((@ * 16) % 256) | (x2c(c) & 15)])
ReadFirstLineMachineId(line) ==
    LET r == ReadDigits(line, 1, NullId)
        c == Get(line, 33)
    IN [ok |-> r.ok /\ (c = EOF \/ c = NL), id |-> r.id]

\* is_null (lines 244-253).
IsNull(id) == id = NullId

\* Setting the version without setting the variant.
ValidateVariantOnly(id) ==
    LET variant == id[9]
        version == id[7]
    IN IF IsNull(id) THEN [ok |-> FALSE, id |-> id]
       ELSE IF (variant & 192) # 128
            THEN [ok |-> TRUE, id |-> [id EXCEPT ![9] = (variant & 63) | 128]]
            ELSE IF (version & 240) < 16 \/ (version & 240) > 80
                 THEN [ok |-> TRUE, id |-> [id EXCEPT ![7] = (version & 15) | 64]]
                 ELSE [ok |-> TRUE, id |-> id]

\* validate (lines 428-441): a nil ID is refused; an ID whose variant is
\* not RFC 4122's (bits 10 in byte 8) is made a random (version 4) one;
\* one of the right variant whose version nibble is not 1 to 5 gets
\* version 4.
Validate(id) ==
    LET variant == id[9]
        version == id[7]
    IN IF IsNull(id) THEN [ok |-> FALSE, id |-> id]
       ELSE IF (variant & 192) # 128
            THEN [ok |-> TRUE, id |-> [id EXCEPT ![9] = (variant & 63) | 128,
                                                 ![7] = (version & 15) | 64]]
            ELSE IF (version & 240) < 16 \/ (version & 240) > 80
                 THEN [ok |-> TRUE, id |-> [id EXCEPT ![7] = (version & 15) | 64]]
                 ELSE [ok |-> TRUE, id |-> id]

(***************************************************************************)
(* The UUID text forms.  uuid_t is a struct of time_low (bytes 1-4),      *)
(* time_mid (5-6), time_hi_and_version (7-8) and eight single bytes; the  *)
(* BSD uuid library prints and parses the three integer fields as host    *)
(* integers, so what the bytes mean depends on the build's byte order,    *)
(* "little" or "big".  Linux's libuuid works on the bytes in order.       *)
(***************************************************************************)
ByteOrders == {"little", "big"}
DASH == 45

\* A field's bytes reversed, which is what ntohl and ntohs do on a
\* little-endian host and nothing on a big-endian one.
SwapField(id, first, n) == [i \in 1..16 |-> IF i \in first..first + n - 1 THEN id[2 * first + n - 1 - i] ELSE id[i]]

\* time_mid left in host order.
UuidToGuidNoMid(u, order) ==
    IF order = "big" THEN u ELSE SwapField(SwapField(u, 1, 4), 7, 2)

\* uuid_to_guid and guid_to_uuid (lines 33-54): the three integer fields
\* byte-swapped between network and host order.
UuidToGuid(u, order) ==
    IF order = "big" THEN u ELSE SwapField(SwapField(SwapField(u, 1, 4), 5, 2), 7, 2)
GuidToUuid(g, order) == UuidToGuid(g, order)

\* The bytes of an integer field of n bytes, most significant first, as
\* the host reads it (a 32-bit value is out of TLC's integer range).
FieldValue(id, first, n, order) ==
    LET f == SubSeq(id, first, first + n - 1)
    IN IF order = "little" THEN SE!Reverse(f) ELSE f

\* Two lower-case hex digits per byte of bs ("%02x" of each).
Hex(bs) == SE!FoldLeft(LAMBDA acc, b : acc \o <<c2x(b \div 16), c2x(b % 16)>>, <<>>, bs)

\* human_readable_form_compact (lines 273-284): two digits per byte.
HumanReadableFormCompact(id) == SubSeq(WriteOneLine(id), 1, 32)

\* The 8-4-4-4-12 grouping of the 32 digits of the compact form.
Dashed(h) == SubSeq(h, 1, 8) \o <<DASH>> \o SubSeq(h, 9, 12) \o <<DASH>> \o SubSeq(h, 13, 16)
             \o <<DASH>> \o SubSeq(h, 17, 20) \o <<DASH>> \o SubSeq(h, 21, 32)

\* uuid_unparse (libuuid): the bytes in order, dashed.
UuidUnparse(id) == Dashed(HumanReadableFormCompact(id))

\* uuid_to_string (BSD): "%08x-%04x-%04x-%02x%02x-" and the six node
\* bytes, the first three fields printed as host integers.
UuidToString(g, order) ==
    Hex(FieldValue(g, 1, 4, order)) \o <<DASH>> \o Hex(FieldValue(g, 5, 2, order)) \o <<DASH>>
    \o Hex(FieldValue(g, 7, 2, order)) \o <<DASH>> \o Hex(<<g[9], g[10]>>) \o <<DASH>>
    \o Hex(SubSeq(g, 11, 16))

\* The value of the hex digits of s from position a to position b.
HexValue(s, a, b) == SE!FoldLeft(LAMBDA acc, c : acc * 16 + x2c(c), 0, SubSeq(s, a, b))

\* The hex digits of s from position a to position b as an integer field
\* stored in the host's order.
FieldBytes(s, a, b, order) ==
    LET msb == [i \in 1..(b - a + 1) \div 2 |-> HexValue(s, a + 2 * i - 2, a + 2 * i - 1)]
    IN IF order = "little" THEN SE!Reverse(msb) ELSE msb

\* The shape uuid_parse and uuid_from_string accept: 36 characters, the
\* dashes at positions 9, 14, 19 and 24 and hex digits elsewhere.
DashPositions == {9, 14, 19, 24}
UuidSyntax(s) ==
    /\ Len(s) = 36
    /\ \A p \in 1..36 : IF p \in DashPositions THEN s[p] = DASH ELSE IsXDigit(s[p])

\* The sixteen bytes a well-formed string spells, in order.
SpelledBytes(s) ==
    LET digits == SelectSeq(s, LAMBDA c : c # DASH)
    IN [n \in 1..16 |-> HexValue(digits, 2 * n - 1, 2 * n)]

\* uuid_from_string (BSD): the first three groups parsed as host integers
\* into time_low, time_mid and time_hi_and_version, the rest as bytes.
UuidFromString(s, order) ==
    LET b == SpelledBytes(s)
    IN [ok |-> UuidSyntax(s),
        guid |-> FieldBytes(s, 1, 8, order) \o FieldBytes(s, 10, 13, order)
                 \o FieldBytes(s, 15, 18, order) \o SubSeq(b, 9, 16)]

\* read_uuid (lines 110-123): uuid_parse on Linux; on the BSDs
\* uuid_from_string and the result turned into network order.  The
\* result is [ok, id]; a string uuid_parse refuses leaves the ID cur.
ReadUuid(platform, cur, s, order) ==
    IF platform = "linux"
    THEN [ok |-> UuidSyntax(s), id |-> IF UuidSyntax(s) THEN SpelledBytes(s) ELSE cur]
    ELSE LET r == UuidFromString(s, order)
         IN [ok |-> r.ok, id |-> GuidToUuid(r.guid, order)]

\* read_first_line_uuid(istream) (lines 125-135): getline into a buffer of
\* 37 fails on a line of more than 36 characters; otherwise read_uuid.
ReadFirstLineUuid(platform, cur, text, order) ==
    LET line == IF \E p \in 1..Len(text) : text[p] = NL
                THEN SubSeq(text, 1, SE!SelectInSeq(text, LAMBDA c : c = NL) - 1)
                ELSE text
    IN IF Len(line) > 36 THEN [ok |-> FALSE, id |-> cur] ELSE ReadUuid(platform, cur, line, order)

\* human_readable_form (lines 255-271): uuid_unparse on Linux;
\* uuid_to_string of the ID turned into host order on the BSDs.
HumanReadableForm(platform, id, order) ==
    IF platform = "linux" THEN UuidUnparse(id) ELSE UuidToString(UuidToGuid(id, order), order)

\* write_one_line_hostuuid (lines 162-176): the first 36 characters of
\* uuid_to_string, and a newline.
WriteOneLineHostuuid(id, order) ==
    SubSeq(UuidToString(UuidToGuid(id, order), order), 1, 36) \o <<NL>>
=============================================================================
