------------------------------ MODULE HidFields ------------------------------
(***************************************************************************)
(* USBHIDBase::GetUnsignedField and GetSignedField (console-fb-realizer   *)
(* .cpp lines 2928-3018), used by the BSD HID drivers: the value of a     *)
(* report field of len bits at bit pos of the report buffer, which holds  *)
(* a report of report_size bytes.  The buffer is a sequence of byte       *)
(* values; its bytes past the report are what an earlier read left there. *)
(***************************************************************************)
EXTENDS Integers, Sequences

\* The byte at offset i (from 0) of the buffer; past the part modelled,
\* whatever the buffer holds there, which no field below looks at.
ByteAt(buf, i) == IF i + 1 <= Len(buf) THEN buf[i + 1] ELSE 0

\* A little-endian read at byte offset bp (le16toh, le32toh) masked to its
\* low len bits.  The bytes wholly above the mask never reach the result,
\* so only the first (len + 7) \div 8 are added up.
RECURSIVE LittleEndian(_, _, _)
LittleEndian(buf, bp, n) ==
    IF n = 0 THEN 0 ELSE ByteAt(buf, bp) + 256 * LittleEndian(buf, bp + 1, n - 1)
Masked(buf, bp, len) == LittleEndian(buf, bp, (len + 7) \div 8) % (2 ^ len)

\* Bit pos & 7 of the byte holding bit pos.
Bit(buf, pos) == (ByteAt(buf, pos \div 8) \div (2 ^ (pos % 8))) % 2

\* GetUnsignedField (lines 2928-2964): zero for an empty field or one
\* starting past the report; byte-aligned fields of up to 32 bits and
\* single bits are read, any other field is 0 (the \bug of line 2962).
GetUnsignedField(buf, pos, len, report_size) ==
    CASE len = 0 -> 0
      [] pos % 8 = 0 /\ len <= 32 -> IF pos \div 8 >= report_size THEN 0 ELSE Masked(buf, pos \div 8, len)
      [] len = 1 -> IF pos \div 8 >= report_size THEN 0 ELSE Bit(buf, pos)
      [] OTHER -> 0

\* A sign extension that takes the bit above the field for its sign.
SignExtendHigh(v, len) == IF v >= 2 ^ len THEN v - 2 ^ (len + 1) ELSE v

\* v |= ~(signbit - 1U) then the cast to int8_t, int16_t or int32_t: a
\* len-bit field with its top bit set is negative.
SignExtend(v, len) == IF v >= 2 ^ (len - 1) THEN v - 2 ^ len ELSE v

\* GetSignedField (lines 2975-3018): as GetUnsignedField, sign-extended;
\* a single bit is its own sign bit, so it reads as -1 or 0.
GetSignedField(buf, pos, len, report_size) ==
    CASE len = 0 -> 0
      [] pos % 8 = 0 /\ len <= 32 ->
            IF pos \div 8 >= report_size THEN 0 ELSE SignExtend(Masked(buf, pos \div 8, len), len)
      [] len = 1 -> IF pos \div 8 >= report_size THEN 0 ELSE -Bit(buf, pos)
      [] OTHER -> 0
=============================================================================
