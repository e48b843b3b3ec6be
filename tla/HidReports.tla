----------------------------- MODULE HidReports -----------------------------
(***************************************************************************)
(* HID::handle_input_events of the BSD HID drivers (console-fb-realizer   *)
(* .cpp lines 3857-3956; the OpenBSD/NetBSD copy at lines 3630-3729 is    *)
(* the same code) with the USBHIDBase handlers it calls (lines 3178-3237) *)
(* : the reports read from the device are taken apart by the layout that  *)
(* read_description made (HidDescriptor) and turned into mouse and key    *)
(* events.  The state is a record [buffer, keys, stdbuttons, ptr, kbd]:   *)
(* the bytes read and not yet consumed, the HID usages of the keys held,  *)
(* the buttons held, the Realizer's pointer (Pointer) and the             *)
(* handle_keyboard calls made, as <<usage, value>>.  usb_ident_to_keymap  *)
(* _index, declared in kbdmap_utils.h and defined outside the sources, is *)
(* left as the identity on usages.                                         *)
(***************************************************************************)
EXTENDS Integers, Sequences, FiniteSets, Bitwise

LOCAL HF == INSTANCE HidFields
LOCAL HD == INSTANCE HidDescriptor
LOCAL PT == INSTANCE Pointer
LOCAL SE == INSTANCE SequencesExt

\* From <dev/usb/usbhid.h>; the last system key is HUG_SYSTEM_MENU_DOWN
\* where HUG_APPLE_EJECT is not defined (lines 2650-2654).
HUP_KEYBOARD == 7
HUP_BUTTON == 9
HUP_CONSUMER == 12
HUG_X == 48
HUG_Y == 49
HUG_WHEEL == 56
HUG_SYSTEM_CONTROL == 128
HUG_LAST_SYSTEM_KEY == 141
USAGE_CONSUMER_AC_PAN == HD!HID_USAGE2(HUP_CONSUMER, 568)

IsKeyUsage(u) ==
    \/ u \in HD!HID_USAGE2(HD!HUP_GENERIC_DESKTOP, HUG_SYSTEM_CONTROL)..HD!HID_USAGE2(HD!HUP_GENERIC_DESKTOP, HUG_LAST_SYSTEM_KEY)
    \/ u \in HD!HID_USAGE2(HUP_KEYBOARD, 0)..HD!HID_USAGE2(HUP_KEYBOARD, 65535)
    \/ u \in HD!HID_USAGE2(HUP_CONSUMER, 0)..HD!HID_USAGE2(HUP_CONSUMER, 65535)

\* IsInRange (lines 2966-2973, 3020-3027).
IsInRange(f, v) == f.min <= v /\ v <= f.max

\* TranslateStdButton (lines 2916-2926): HID's buttons 2 and 3 (right and
\* middle) swapped into the Realizer's order.
TranslateStdButton(button) == CASE button = 1 -> 2 [] button = 2 -> 1 [] OTHER -> button

\* handle_mouse_button (lines 3197-3216).  stdbuttons is a uint16_t, so
\* the bits of buttons 17 to 32 are lost when set.
HasButton(sb, b) == b < 16 /\ (sb \div 2 ^ b) % 2 = 1
HandleMouseButton(st, ident, down) ==
    LET button == ident - HD!HID_USAGE2(HUP_BUTTON, 1)
    IN IF /\ ident \in HD!HID_USAGE2(HUP_BUTTON, 1)..HD!HID_USAGE2(HUP_BUTTON, 32)
          /\ HasButton(st.stdbuttons, button) # down
       THEN [st EXCEPT !.stdbuttons = CASE button >= 16 -> @
                                          [] down -> @ + 2 ^ button
                                          [] OTHER -> @ - 2 ^ button,
                       !.ptr = PT!HandleMouseButton(@, TranslateStdButton(button), down)]
       ELSE st

\* handle_key (lines 3218-3237): the usage joins or leaves the keys seen
\* in this read.
HandleKey(st, ident, down) ==
    IF IsKeyUsage(ident)
    THEN [st EXCEPT !.seen = TRUE, !.newkeys = IF down THEN @ \cup {ident} ELSE @ \ {ident}]
    ELSE st

\* handle_mouse_movement (lines 3178-3195) on a framebuffer of xres by yres.
HandleMouseMovement(st, d, rep, f, axis, xres, yres) ==
    IF f.relative
    THEN LET off == HF!GetSignedField(d, f.pos, f.len, rep.bytes)
         IN IF IsInRange(f, off) THEN [st EXCEPT !.ptr = PT!HandleMouseRelpos(@, axis, off, xres, yres)] ELSE st
    ELSE LET pos == HF!GetUnsignedField(d, f.pos, f.len, rep.bytes)
         IN IF IsInRange(f, pos)
            THEN [st EXCEPT !.ptr = PT!HandleMouseAbspos(@, axis, pos, f.max - f.min + 1, xres, yres)]
            ELSE st

\* One variable field of a report whose data are d.
Variable(st, d, rep, f, xres, yres) ==
    LET v == HF!GetUnsignedField(d, f.pos, f.len, rep.bytes)
        move(axis) == HandleMouseMovement(st, d, rep, f, axis, xres, yres)
    IN CASE f.ident \in HD!HID_USAGE2(HUP_BUTTON, 0)..HD!HID_USAGE2(HUP_BUTTON, 65535) ->
              IF IsInRange(f, v) THEN HandleMouseButton(st, f.ident, v # 0) ELSE st
         [] IsKeyUsage(f.ident) -> IF IsInRange(f, v) THEN HandleKey(st, f.ident, v # 0) ELSE st
         [] f.ident = HD!HID_USAGE2(HD!HUP_GENERIC_DESKTOP, HUG_X) -> move("X")
         [] f.ident = HD!HID_USAGE2(HD!HUP_GENERIC_DESKTOP, HUG_Y) -> move("Y")
         [] f.ident = HD!HID_USAGE2(HD!HUP_GENERIC_DESKTOP, HUG_WHEEL) -> move("V_SCROLL")
         [] f.ident = USAGE_CONSUMER_AC_PAN -> move("H_SCROLL")
         [] OTHER -> st

\* One array field: an index in the logical range names the usage
\* min_ident + (v - min_index), capped at max_ident, as down.
Index(st, d, rep, f) ==
    LET v == HF!GetUnsignedField(d, f.pos, f.len, rep.bytes)
        ident == IF v + f.min_ident - f.min_index > f.max_ident THEN f.max_ident
                 ELSE v + f.min_ident - f.min_index
    IN CASE v < f.min_index \/ v > f.max_index -> st
         [] ident \in (HD!HID_USAGE2(HUP_BUTTON, 0) + 1)..HD!HID_USAGE2(HUP_BUTTON, 65535) ->
              HandleMouseButton(st, ident, TRUE)
         [] OTHER -> HandleKey(st, ident, TRUE)

RECURSIVE Variables(_, _, _, _, _, _)
Variables(st, d, rep, k, xres, yres) ==
    IF k > Len(rep.variables) THEN st
    ELSE Variables(Variable(st, d, rep, rep.variables[k], xres, yres), d, rep, k + 1, xres, yres)

RECURSIVE Indices(_, _, _, _)
Indices(st, d, rep, k) ==
    IF k > Len(rep.indices) THEN st ELSE Indices(Index(st, d, rep, rep.indices[k]), d, rep, k + 1)

\* The loop over the reports in the buffer: the report ID byte, when the
\* device has them, is taken off before the report is looked up, and the
\* loop stops, leaving the rest, at an unknown ID or a short report.
RECURSIVE Reports(_, _, _, _)
Reports(st, dev, xres, yres) ==
    IF st.buffer = <<>> THEN st
    ELSE LET id == IF dev.has_report_ids THEN Head(st.buffer) ELSE 0
             d == IF dev.has_report_ids THEN Tail(st.buffer) ELSE st.buffer
             rep == dev.inputs[id]
         IN IF id \notin DOMAIN dev.inputs \/ Len(d) < rep.bytes
            THEN [st EXCEPT !.buffer = d]
            ELSE Reports([Indices(Variables(st, d, rep, 1, xres, yres), d, rep, 1)
                             EXCEPT !.buffer = SubSeq(d, rep.bytes + 1, Len(d))],
                         dev, xres, yres)

\* After a read in which a key field was seen: each key held is released
\* (value 0) or repeated (value 2), then each new key is pressed (value
\* 1), in the ascending order of std::set; the keys held are then the new.
KeyEvents(st) ==
    LET asc(S) == SE!SetToSortSeq(S, <)
        old == asc(st.keys)
    IN [st EXCEPT !.kbd = @ \o [k \in 1..Len(old) |-> <<old[k], IF old[k] \in st.newkeys THEN 2 ELSE 0>>]
                            \o [k \in 1..Cardinality(st.newkeys \ st.keys) |->
                                   <<asc(st.newkeys \ st.keys)[k], 1>>],
                  !.keys = st.newkeys]

\* A read that starts the buffer afresh, dropping a report cut short.
HandleInputEventsFresh(st, dev, bytes, xres, yres) ==
    LET s == Reports([st EXCEPT !.buffer = bytes, !.newkeys = {}, !.seen = FALSE], dev, xres, yres)
    IN IF s.seen THEN KeyEvents(s) ELSE s

\* handle_input_events: the bytes one read returned are appended to the
\* buffer and the reports in it handled.
HandleInputEvents(st, dev, bytes, xres, yres) ==
    LET s == Reports([st EXCEPT !.buffer = @ \o bytes, !.newkeys = {}, !.seen = FALSE], dev, xres, yres)
    IN IF s.seen THEN KeyEvents(s) ELSE s

InitialState == [buffer |-> <<>>, keys |-> {}, newkeys |-> {}, seen |-> FALSE,
                 stdbuttons |-> 0, ptr |-> PT!InitialPointer, kbd |-> <<>>]
=============================================================================
