---------------------------- MODULE HidDescriptor ----------------------------
(***************************************************************************)
(* USBHIDBase::read_description (console-fb-realizer.cpp lines 3029-3176) *)
(* and its ParserContext (lines 2685-2731): the BSD HID drivers' reading  *)
(* of a USB HID report descriptor, a sequence of byte values, into the    *)
(* layout of each input and output report.  Item data are kept below     *)
(* 2^24 so that they fit TLC's integers.                                   *)
(***************************************************************************)
EXTENDS Integers, Sequences, Bitwise

LOCAL HF == INSTANCE HidFields

\* From <dev/usb/usbhid.h>.
HUP_GENERIC_DESKTOP == 1
HUG_MOUSE == 2
HUG_KEYBOARD == 6
HUG_KEYPAD == 7
HIO_CONST == 1
HIO_VARIABLE == 2
HIO_RELATIVE == 4

\* HID_USAGE2(page, usage).
HID_USAGE2(p, u) == (p * 65536) | u

\* The item types (MAIN, GLOBAL, LOCAL, LONG) and tags of read_description's
\* enumerations.
MAIN_ITEM == 0
GLOBAL_ITEM == 1
LOCAL_ITEM == 2
LONG_ITEM == 3
PUSH == 10
POP == 11
INPUT == 8
OUTPUT == 9
COLLECT == 10
END == 12
APPLICATION == 1

\* ParserContext::Item, and a context as the constructor leaves it.
Item(d, s) == [d |-> d, s |-> s]
Slots == 0..15
NoItems == [t \in Slots |-> Item(0, 0)]
NewContext == [globals |-> NoItems, locals |-> NoItems, has_min |-> FALSE,
               has_max |-> FALSE, idents |-> <<>>]

ClearLocals(c) ==
    [c EXCEPT !.locals = NoItems, !.idents = <<>>, !.has_min = FALSE, !.has_max = FALSE]

\* ident(u, p): a usage of under 3 bytes is on the current usage page.
Ident(u, p) == IF u.s < 3 THEN HID_USAGE2(p.d, u.d) ELSE u.d
ContextIdent(c) == Ident(c.locals[0], c.globals[0])

\* take_variable_ident: the queued usages in order, repeating the last;
\* else the usage minimum, counting up to the maximum; else the usage.
TakeVariableIdent(c) ==
    LET vmin == Ident(c.locals[1], c.globals[0])
    IN CASE c.idents # <<>> ->
              [v |-> Head(c.idents),
               c |-> IF Len(c.idents) > 1 THEN [c EXCEPT !.idents = Tail(@)] ELSE c]
         [] c.has_min ->
              [v |-> vmin,
               c |-> IF c.has_max /\ vmin < Ident(c.locals[2], c.globals[0])
                     THEN [c EXCEPT !.locals[1] = Item(vmin + 1, 4)] ELSE c]
         [] OTHER -> [v |-> ContextIdent(c), c |-> c]

RECURSIVE TakeIdents(_, _)
TakeIdents(c, n) ==
    IF n = 0 THEN <<>>
    ELSE LET t == TakeVariableIdent(c) IN <<t.v>> \o TakeIdents(t.c, n - 1)

\* ReportField::mm: value read as signed, at its own width, when both it
\* and the control item have their sign bit set.  (A 4-byte item's sign
\* bit, and the bit an empty item's shift lands on, lie above the data.)
SignSet(it) == it.s \in 1..3 /\ it.d >= 2 ^ (it.s * 8 - 1)
mm(control, value) == IF SignSet(control) /\ SignSet(value) THEN value.d - 2 ^ (value.s * 8) ELSE value.d

EmptyReport == [bits |-> 0, bytes |-> 0, variables |-> <<>>, indices |-> <<>>]
Report(reps, id) == IF id \in DOMAIN reps THEN reps[id] ELSE EmptyReport
Put(reps, id, r) == [x \in DOMAIN reps \cup {id} |-> IF x = id THEN r ELSE reps[x]]

\* The INPUT and OUTPUT cases: std::map::operator[] makes the report; a
\* constant field is padding, a variable field takes one usage per count,
\* an array field records the raw usage and logical ranges.
AddFields(r, c, datum, out) ==
    LET sz == c.globals[7].d
        n == c.globals[9].d
        lmin == c.globals[1]
        lmax == c.globals[2]
        ids == TakeIdents(c, IF datum & HIO_CONST = 0 /\ datum & HIO_VARIABLE # 0 THEN n ELSE 0)
        pos(k) == r.bits + (k - 1) * sz
        var(k) == IF out THEN [ident |-> ids[k], pos |-> pos(k), len |-> sz]
                  ELSE [ident |-> ids[k], pos |-> pos(k), len |-> sz,
                        relative |-> datum & HIO_RELATIVE # 0,
                        min |-> mm(lmin, lmin), max |-> mm(lmin, lmax)]
        idx(k) == IF out THEN [pos |-> pos(k), len |-> sz, min_ident |-> c.locals[1].d,
                               max_ident |-> c.locals[2].d]
                  ELSE [pos |-> pos(k), len |-> sz, min_ident |-> c.locals[1].d,
                        max_ident |-> c.locals[2].d,
                        min_index |-> mm(lmin, lmin), max_index |-> mm(lmin, lmax)]
        r2 == CASE datum & HIO_CONST # 0 -> r
                [] datum & HIO_VARIABLE # 0 -> [r EXCEPT !.variables = @ \o [k \in 1..n |-> var(k)]]
                [] OTHER -> [r EXCEPT !.indices = @ \o [k \in 1..n |-> idx(k)]]
        bits == r.bits + sz * n
    IN [r2 EXCEPT !.bits = bits, !.bytes = (bits + 7) \div 8]

Top(st) == st.stack[Len(st.stack)]
SetTop(st, c) == [st EXCEPT !.stack[Len(st.stack)] = c]

MainItem(st, c, tag, datum) ==
    LET id == c.globals[8].d % 256
        s == CASE tag = INPUT /\ st.enable ->
                    [st EXCEPT !.inputs = Put(@, id, AddFields(Report(@, id), c, datum, FALSE))]
               [] tag = OUTPUT /\ st.enable ->
                    [st EXCEPT !.outputs = Put(@, id, AddFields(Report(@, id), c, datum, TRUE))]
               [] tag = COLLECT ->
                    [st EXCEPT !.level = @ + 1,
                               !.enable = IF st.level = 0 /\ datum = APPLICATION
                                          THEN ContextIdent(c) \in {HID_USAGE2(HUP_GENERIC_DESKTOP, u) : u \in {HUG_MOUSE, HUG_KEYBOARD, HUG_KEYPAD}}
                                          ELSE @]
               [] tag = END /\ st.level > 0 ->
                    [st EXCEPT !.level = @ - 1, !.enable = @ /\ st.level # 1]
               [] OTHER -> st
    IN SetTop(s, ClearLocals(c))

GlobalItem(st, c, tag, it) ==
    CASE tag = PUSH -> [st EXCEPT !.stack = Append(@, c)]
      [] tag = POP -> IF Len(st.stack) > 1 THEN [st EXCEPT !.stack = SubSeq(@, 1, Len(@) - 1)] ELSE st
      [] tag < PUSH -> [SetTop(st, [c EXCEPT !.globals[tag] = it]) EXCEPT !.has_report_ids = @ \/ tag = 8]
      [] OTHER -> st

LocalItem(c, tag, it) ==
    LET c1 == [c EXCEPT !.locals[tag] = it]
    IN [c1 EXCEPT !.idents = IF tag = 0 THEN Append(@, ContextIdent(c1)) ELSE @,
                  !.has_min = @ \/ tag = 1, !.has_max = @ \/ tag = 2]

\* A size code read as the number of data bytes.
ItemSizeThree(p) == p % 4

\* The size code 3 of an item's prefix means 4 data bytes.
ItemSize(p) == (p % 4) + (IF p % 4 > 2 THEN 1 ELSE 0)

\* One pass of the loop: the prefix at byte i, its data (none, and i not
\* advanced past them, when they run off the end), and the item.
Step(b, actlen, st) ==
    LET p == HF!ByteAt(b, st.i)
        size == ItemSize(p)
        type == (p \div 4) % 4
        tag == (p \div 16) % 16
        fits == st.i + 1 + size <= actlen
        datum == IF fits THEN HF!LittleEndian(b, st.i + 1, size) ELSE 0
        s == [st EXCEPT !.i = IF fits THEN @ + 1 + size ELSE @ + 1]
    IN CASE type = LONG_ITEM ->
              LET n == datum & 255
              IN IF s.i + n > actlen THEN s ELSE [s EXCEPT !.i = @ + n]
         [] type = LOCAL_ITEM -> SetTop(s, LocalItem(Top(s), tag, Item(datum, size)))
         [] type = GLOBAL_ITEM -> GlobalItem(s, Top(s), tag, Item(datum, size))
         [] type = MAIN_ITEM -> MainItem(s, Top(s), tag, datum)

RECURSIVE Items(_, _, _, _)
Items(b, maxlen, actlen, st) ==
    IF st.i >= actlen \/ st.i >= maxlen THEN st ELSE Items(b, maxlen, actlen, Step(b, actlen, st))

\* read_description(b, maxlen, actlen): the reports of a fresh USBHIDBase.
ReadDescription(b, maxlen, actlen) ==
    LET st == Items(b, maxlen, actlen,
                    [i |-> 0, stack |-> <<NewContext>>, level |-> 0, enable |-> FALSE,
                     has_report_ids |-> FALSE, inputs |-> <<>>, outputs |-> <<>>])
    IN [has_report_ids |-> st.has_report_ids, inputs |-> st.inputs, outputs |-> st.outputs]
=============================================================================
