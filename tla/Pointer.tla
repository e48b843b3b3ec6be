------------------------------- MODULE Pointer -------------------------------
(***************************************************************************)
(* The mouse pointer of console-fb-realizer.cpp: the Realizer keeps the   *)
(* pointer's position in framebuffer pixels (pointer_xpixel and           *)
(* pointer_ypixel, unsigned long) and the Compositor the character cell   *)
(* it is drawn in (pointer_row, pointer_col).  A state is a record        *)
(* [xpixel, ypixel, row, col, update_needed, sent], sent being the input  *)
(* messages written to the terminal; the handlers are operators on it,    *)
(* for a framebuffer of xres by yres pixels.                              *)
(***************************************************************************)
EXTENDS Integers, Sequences

\* Realizer::CHARACTER_PIXEL_WIDTH and _HEIGHT (line 1059).
CHARACTER_PIXEL_WIDTH == 16
CHARACTER_PIXEL_HEIGHT == 16

\* The axes of Realizer (line 1020).
Axes == {"W", "X", "Y", "Z", "H_SCROLL", "V_SCROLL"}

\* pixel_to_column and pixel_to_row (lines 1028-1029), into unsigned short.
PixelToColumn(x) == (x \div CHARACTER_PIXEL_WIDTH) % 65536
PixelToRow(y) == (y \div CHARACTER_PIXEL_HEIGHT) % 65536

\* The Compositor's size, set from the framebuffer's (line 1103).
ScreenH(yres) == PixelToRow(yres)
ScreenW(xres) == PixelToColumn(xres)

\* The Realizer's constructor (lines 1103-1114) and the Compositor's
\* (lines 648-661): pointer at pixel (0, 0) and cell (0, 0).
InitialPointer == [xpixel |-> 0, ypixel |-> 0, row |-> 0, col |-> 0,
                   update_needed |-> TRUE, sent |-> <<>>]

\* max - d < pos in unsigned long: a d above max wraps the difference to
\* at least 2^64 - 2^31, more than any position.
MaxLessD(max, d, pos) == d <= max /\ max - d < pos

\* adjust_mickeys(pos, d, max) (lines 1345-1364).
AdjustMickeys(pos, d, max) ==
    CASE d < 0 -> IF -d > pos THEN 0 ELSE pos + d
      [] d > 0 -> IF MaxLessD(max, d, pos) THEN max ELSE pos + d
      [] OTHER -> pos

\* change_pointer_col accepting the column one past the last.
ChangePointerColOffByOne(st, col, xres) ==
    IF col <= ScreenW(xres) /\ st.col # col
    THEN [st EXCEPT !.col = col, !.update_needed = TRUE, !.sent = Append(@, <<"col", col>>)]
    ELSE st

\* Compositor::change_pointer_col (lines 715-725) and the message and
\* update of Realizer::set_pointer_x (lines 1294-1304).
ChangePointerCol(st, col, xres) ==
    IF col < ScreenW(xres) /\ st.col # col
    THEN [st EXCEPT !.col = col, !.update_needed = TRUE, !.sent = Append(@, <<"col", col>>)]
    ELSE st

\* Compositor::change_pointer_row (lines 703-713) and the message and
\* update of Realizer::set_pointer_y (lines 1306-1316).
ChangePointerRow(st, row, yres) ==
    IF row < ScreenH(yres) /\ st.row # row
    THEN [st EXCEPT !.row = row, !.update_needed = TRUE, !.sent = Append(@, <<"row", row>>)]
    ELSE st

\* set_pointer_x and set_pointer_y (lines 1294-1316).
SetPointerX(st, xres) == ChangePointerCol(st, PixelToColumn(st.xpixel), xres)
SetPointerY(st, yres) == ChangePointerRow(st, PixelToRow(st.ypixel), yres)

\* handle_mouse_abspos (lines 1318-1343): the position scaled from the
\* device's range onto the framebuffer.
HandleMouseAbspos(st, axis, abspos, maximum, xres, yres) ==
    CASE axis = "X" -> SetPointerX([st EXCEPT !.xpixel = (abspos * xres) \div maximum], xres)
      [] axis = "Y" -> SetPointerY([st EXCEPT !.ypixel = (abspos * yres) \div maximum], yres)
      [] OTHER -> st

\* A wheel movement clamped to a signed byte (lines 1375-1381).
ClampWheel(amount) == IF amount < -128 THEN -128 ELSE IF amount > 127 THEN 127 ELSE amount

\* handle_mouse_relpos (lines 1366-1400).
HandleMouseRelpos(st, axis, amount, xres, yres) ==
    CASE axis = "V_SCROLL" -> [st EXCEPT !.sent = Append(@, <<"wheel", 0, ClampWheel(amount)>>)]
      [] axis = "H_SCROLL" -> [st EXCEPT !.sent = Append(@, <<"wheel", 1, ClampWheel(amount)>>)]
      [] axis = "X" -> SetPointerX([st EXCEPT !.xpixel = AdjustMickeys(@, amount, xres)], xres)
      [] axis = "Y" -> SetPointerY([st EXCEPT !.ypixel = AdjustMickeys(@, amount, yres)], yres)
      [] OTHER -> st

\* handle_mouse_button (lines 1402-1410).
HandleMouseButton(st, button, value) ==
    [st EXCEPT !.sent = Append(@, <<"button", button, value>>)]
=============================================================================
