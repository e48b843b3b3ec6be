------------------------------ MODULE HidOpenBSD ------------------------------
(***************************************************************************)
(* class HID of console-fb-realizer.cpp for OpenBSD (lines 3565-3729): a  *)
(* uhid device read through USBHIDBase.  Its report loop, lines 3630-3729, *)
(* is the same text as the FreeBSD one (lines 3857-3956) that HidReports  *)
(* models, so its parts are HidReports' operators; what differs is around *)
(* it: the report descriptor comes from the USB_GET_REPORT_DESC ioctl and *)
(* set_LEDs is a TODO, so a keyboard's LEDs are never set.                *)
(***************************************************************************)
EXTENDS Integers, Sequences

LOCAL HR == INSTANCE HidReports

\* The constructor (lines 3592-3598): the USBHIDBase state.
InitialState == HR!InitialState

\* The loop over the reports in the buffer (lines 3641-3708): the report
\* ID taken off before the report is looked up and measured, then its
\* variable fields and its array fields handled.
Reports(st, dev, xres, yres) == HR!Reports(st, dev, xres, yres)

\* The key events after a read that saw a key field (lines 3710-3728).
KeyEvents(st) == HR!KeyEvents(st)

\* handle_input_events (lines 3630-3640): the bytes one read
\* returned are appended and the reports in the buffer handled.
HandleInputEvents(st, dev, bytes, xres, yres) ==
    LET s == Reports([st EXCEPT !.buffer = @ \o bytes, !.newkeys = {}, !.seen = FALSE], dev, xres, yres)
    IN IF s.seen THEN KeyEvents(s) ELSE s
=============================================================================
