------------------------------ MODULE SoftTerm ------------------------------
(***************************************************************************)
(* The terminal emulator core of src/source/SoftTerm.cpp: the parser of    *)
(* TermParser.tla composed with the executing half, which keeps the cursor,*)
(* margins, modes, attributes and tab stops and drives two sinks, the      *)
(* screen buffer (cell writes and scrolls) and the keyboard buffer         *)
(* (replies and reports).  One step is one SoftTerm::Write call: the       *)
(* parser decides what the character means and the executor enacts it in  *)
(* the same step, as the C++ does inside one call.                         *)
(*                                                                         *)
(* The executor's member functions call one another in sequence, so each  *)
(* is an operator from a record of the executor state to the next one;    *)
(* `screen` and `keyboard` collect the sink calls made during the step.    *)
(* Screen offsets are kept as integers: a negative length stands for the   *)
(* wrapped (huge) unsigned value the C++ would pass.                       *)
(***************************************************************************)
EXTENDS Integers, Sequences, SequencesExt, Colour256

CONSTANTS
    ArgCap,          \* elements of SoftTerm::args
    InitialCols,     \* w set by the constructor (80)
    InitialRows,     \* h set by the constructor (25)
    NarrowCols,      \* DECCOLM reset width (80)
    WideCols,        \* DECCOLM set width (132)
    MinPageLines,    \* smallest page DECSLPP accepts (25)
    OtherFormat,     \* code points UnicodeCategorization::IsOtherFormat holds for
    MarkNonSpacing,  \* ... IsMarkNonSpacing
    MarkEnclosing    \* ... IsMarkEnclosing

VARIABLES
    pstate, intermediate, args, argc, seen_arg_digit, op,
    x, y, saved_x, saved_y, w, h, top_margin, bottom_margin,
    overstrike, automatic_right_margin, background_colour_erase,
    advance_pending, attributes, foreground, background,
    saved_attributes, saved_foreground, saved_background,
    tabstops,            \* the columns IsTabstopAt holds for
    cursor_attributes,   \* subset of {"VISIBLE", "BLINK"}
    cursor_shown,        \* the last position given to screen.SetCursorPos
    screen,              \* screen buffer calls made by this step
    keyboard             \* keyboard buffer calls made by this step

Parser == INSTANCE TermParser

parser_vars == <<pstate, intermediate, args, argc, seen_arg_digit, op>>
term_vars == <<x, y, saved_x, saved_y, w, h, top_margin, bottom_margin,
               overstrike, automatic_right_margin, background_colour_erase,
               advance_pending, attributes, foreground, background,
               saved_attributes, saved_foreground, saved_background,
               tabstops, cursor_attributes, cursor_shown, screen, keyboard>>
vars == <<parser_vars, term_vars>>

U16(v) == v % 65536          \* SoftTerm::coordinate is 16 bits wide

DefaultForeground == <<"default", 128, 128, 128>>
DefaultBackground == <<"default", 0, 0, 0>>
Space == 32

\* The executor state as a record, and its write-back.
T == [x |-> x, y |-> y, saved_x |-> saved_x, saved_y |-> saved_y, w |-> w, h |-> h,
      top_margin |-> top_margin, bottom_margin |-> bottom_margin,
      overstrike |-> overstrike, automatic_right_margin |-> automatic_right_margin,
      background_colour_erase |-> background_colour_erase,
      advance_pending |-> advance_pending, attributes |-> attributes,
      foreground |-> foreground, background |-> background,
      saved_attributes |-> saved_attributes, saved_foreground |-> saved_foreground,
      saved_background |-> saved_background, tabstops |-> tabstops,
      cursor_attributes |-> cursor_attributes, cursor_shown |-> cursor_shown,
      screen |-> <<>>, keyboard |-> <<>>]

SetT(t) ==
    /\ x' = t.x /\ y' = t.y /\ saved_x' = t.saved_x /\ saved_y' = t.saved_y
    /\ w' = t.w /\ h' = t.h /\ top_margin' = t.top_margin /\ bottom_margin' = t.bottom_margin
    /\ overstrike' = t.overstrike /\ automatic_right_margin' = t.automatic_right_margin
    /\ background_colour_erase' = t.background_colour_erase
    /\ advance_pending' = t.advance_pending /\ attributes' = t.attributes
    /\ foreground' = t.foreground /\ background' = t.background
    /\ saved_attributes' = t.saved_attributes /\ saved_foreground' = t.saved_foreground
    /\ saved_background' = t.saved_background /\ tabstops' = t.tabstops
    /\ cursor_attributes' = t.cursor_attributes /\ cursor_shown' = t.cursor_shown
    /\ screen' = t.screen /\ keyboard' = t.keyboard

(***************************************************************************)
(* Sinks and cells                                                         *)
(***************************************************************************)
Cell(t, c, bg) == [ch |-> c, attributes |-> t.attributes, fg |-> t.foreground, bg |-> bg]

ErasureCell(t) ==
    Cell(t, Space, IF t.background_colour_erase THEN t.background ELSE DefaultBackground)

WriteNCells(t, s, l, cell) ==
    [t EXCEPT !.screen = Append(@, [call |-> "WriteNCells", s |-> s, e |-> s + l, n |-> 0, cell |-> cell])]

ScreenScroll(t, dir, s, e, n) ==
    [t EXCEPT !.screen = Append(@, [call |-> dir, s |-> s, e |-> e, n |-> n, cell |-> ErasureCell(t)])]

UpdateCursorPos(t) == [t EXCEPT !.cursor_shown = <<t.x, t.y>>]

Reply(t, r) == [t EXCEPT !.keyboard = Append(@, r)]

(***************************************************************************)
(* Editing                                                                 *)
(***************************************************************************)
ClearDisplay(t, c) == WriteNCells(t, 0, t.w * t.h, Cell(t, c, t.background))
ClearLine(t) == WriteNCells(t, t.w * t.y, t.w, ErasureCell(t))
ClearToEOD(t) ==
    WriteNCells(t, t.w * t.y + t.x, t.w * (t.h - 1 - t.y) + (t.w - t.x), ErasureCell(t))
ClearToEOL(t) == WriteNCells(t, t.w * t.y + t.x, t.w - t.x, ErasureCell(t))
ClearFromBOD(t) == WriteNCells(t, 0, t.w * t.y + t.x + 1, ErasureCell(t))
ClearFromBOL(t) == WriteNCells(t, t.w * t.y, t.x + 1, ErasureCell(t))

EraseCharacters(t, n) ==
    WriteNCells(t, t.w * t.y + t.x,
                IF t.x + n >= t.w THEN U16(t.w - 1 - t.x) ELSE n, ErasureCell(t))

DeleteCharacters(t, n) == ScreenScroll(t, "ScrollUp", t.w * t.y + t.x, t.w * t.y + t.w, n)
InsertCharacters(t, n) == ScreenScroll(t, "ScrollDown", t.w * t.y + t.x, t.w * t.y + t.w, n)
DeleteLines(t, n) == ScreenScroll(t, "ScrollUp", t.w * t.y, t.w * t.bottom_margin + t.w, t.w * n)
InsertLines(t, n) == ScreenScroll(t, "ScrollDown", t.w * t.y, t.w * t.bottom_margin + t.w, t.w * n)

\* ED and EL act once for every argument.
EraseInDisplay(t, as) ==
    FoldLeft(LAMBDA u, a : CASE a = 0 -> ClearToEOD(u)
                             [] a = 1 -> ClearFromBOD(u)
                             [] a = 2 -> ClearDisplay(u, Space)
                             [] OTHER -> u, t, as)
EraseInLine(t, as) ==
    FoldLeft(LAMBDA u, a : CASE a = 0 -> ClearToEOL(u)
                             [] a = 1 -> ClearFromBOL(u)
                             [] a = 2 -> ClearLine(u)
                             [] OTHER -> u, t, as)
(***************************************************************************)
(* Tabulation                                                              *)
(***************************************************************************)
TabClear(t, as) ==
    FoldLeft(LAMBDA u, a : CASE a = 0 -> [u EXCEPT !.tabstops = @ \ {u.x}]
                             [] a = 3 -> [u EXCEPT !.tabstops = {}]
                             [] OTHER -> u, t, as)

\* Mutation of TabForward, for the mutation runs: the loop runs one column
\* too far.
RECURSIVE TabForwardPastEdge(_, _, _, _)
TabForwardPastEdge(stops, width, col, n) ==
    LET n1 == IF col + 1 \in stops THEN n - 1 ELSE n
    IN  IF col + 1 < width /\ n1 > 0 THEN TabForwardPastEdge(stops, width, col + 1, n1) ELSE col + 1

\* The do-while loops of HorizontalTab and BackwardsHorizontalTab: step one
\* column, count a tab stop, stop at the n-th stop or at the edge.
RECURSIVE TabForward(_, _, _, _)
TabForward(stops, width, col, n) ==
    LET n1 == IF col + 1 \in stops THEN n - 1 ELSE n
    IN  IF col + 2 < width /\ n1 > 0 THEN TabForward(stops, width, col + 1, n1) ELSE col + 1

RECURSIVE TabBackward(_, _, _)
TabBackward(stops, col, n) ==
    LET n1 == IF col - 1 \in stops THEN n - 1 ELSE n
    IN  IF col - 1 > 0 /\ n1 > 0 THEN TabBackward(stops, col - 1, n1) ELSE col - 1

HorizontalTab(t, n) ==
    LET u == [t EXCEPT !.advance_pending = FALSE]
    IN  IF t.x + 1 < t.w /\ n > 0
        THEN UpdateCursorPos([u EXCEPT !.x = TabForward(t.tabstops, t.w, t.x, n)])
        ELSE u

BackwardsHorizontalTab(t, n) ==
    LET u == [t EXCEPT !.advance_pending = FALSE]
    IN  IF t.x > 0 /\ n > 0
        THEN UpdateCursorPos([u EXCEPT !.x = TabBackward(t.tabstops, t.x, n)])
        ELSE u

SetTabstop(t) == [t EXCEPT !.tabstops = @ \cup {t.x}]

(***************************************************************************)
(* Cursor motion and scrolling                                             *)
(***************************************************************************)
ScrollUp(t, c) ==
    ScreenScroll(t, "ScrollUp", t.w * t.top_margin, t.w * (t.bottom_margin + 1), t.w * c)
ScrollDown(t, c) ==
    ScreenScroll(t, "ScrollDown", t.w * t.top_margin, t.w * t.bottom_margin + t.w, t.w * c)

SaveCursor(t) == [t EXCEPT !.saved_x = t.x, !.saved_y = t.y]
RestoreCursor(t) ==
    UpdateCursorPos([t EXCEPT !.advance_pending = FALSE, !.x = t.saved_x, !.y = t.saved_y])

WillWrap(t) == t.x >= t.w - 1 /\ t.automatic_right_margin

\* Advance wraps at the last row of the screen, whatever the margins; the
\* scroll it then makes is of the margin region.
Advance(t) ==
    LET u == [t EXCEPT !.advance_pending = FALSE]
    IN  CASE t.x < t.w - 1 -> UpdateCursorPos([u EXCEPT !.x = t.x + 1])
          [] t.automatic_right_margin ->
                UpdateCursorPos(IF t.y < t.h - 1 THEN [u EXCEPT !.x = 0, !.y = t.y + 1]
                                ELSE ScrollUp([u EXCEPT !.x = 0], 1))
          [] OTHER -> u

\* Index from below the bottom margin moves the cursor up to it and scrolls
\* once for every row it moved plus one.
Index(t) ==
    LET u == [t EXCEPT !.advance_pending = FALSE]
    IN  IF t.y < t.bottom_margin
        THEN UpdateCursorPos([u EXCEPT !.y = t.y + 1])
        ELSE LET v == [u EXCEPT !.y = t.bottom_margin]
             IN  ScrollUp(IF t.y > t.bottom_margin THEN UpdateCursorPos(v) ELSE v,
                          U16(1 + t.y - t.bottom_margin))

ReverseIndex(t) ==
    LET u == [t EXCEPT !.advance_pending = FALSE]
    IN  IF t.y > t.top_margin
        THEN UpdateCursorPos([u EXCEPT !.y = t.y - 1])
        ELSE LET v == [u EXCEPT !.y = t.top_margin]
             IN  ScrollDown(IF t.y < t.top_margin THEN UpdateCursorPos(v) ELSE v,
                            U16(1 + t.top_margin - t.y))

GotoX(t, n) == UpdateCursorPos([t EXCEPT !.advance_pending = FALSE, !.x = U16(n - 1)])
GotoY(t, n) == UpdateCursorPos([t EXCEPT !.advance_pending = FALSE, !.y = U16(n - 1)])
Home(t) == UpdateCursorPos([t EXCEPT !.advance_pending = FALSE, !.x = 0, !.y = 0])
CarriageReturn(t) == UpdateCursorPos([t EXCEPT !.advance_pending = FALSE, !.x = 0])

OneIfZero(v) == IF v = 0 THEN 1 ELSE v

GotoYX(t, as) ==
    UpdateCursorPos([t EXCEPT !.advance_pending = FALSE,
                              !.y = IF Len(as) > 0 THEN U16(OneIfZero(as[1]) - 1) ELSE 0,
                              !.x = IF Len(as) > 1 THEN U16(OneIfZero(as[2]) - 1) ELSE 0])

\* DECSTBM: accepted when top < bottom; the bottom is not checked against h,
\* and the cursor goes home without clearing advance_pending.
SetScrollMargins(t, as) ==
    LET top == IF Len(as) > 0 THEN U16(OneIfZero(as[1]) - 1) ELSE 0
        bot == IF Len(as) > 1 /\ as[2] > 0 THEN U16(as[2] - 1) ELSE t.h - 1
    IN  IF top < bot
        THEN UpdateCursorPos([t EXCEPT !.top_margin = top, !.bottom_margin = bot,
                                       !.x = 0, !.y = 0])
        ELSE t

\* CUU: from above the top margin the cursor moves down to it; from below
\* it, it moves up by n and only stops at the top margin when y < n.
CursorUp(t, n) ==
    LET u == [t EXCEPT !.advance_pending = FALSE]
    IN  CASE t.y < t.top_margin -> UpdateCursorPos([u EXCEPT !.y = t.top_margin])
          [] t.y > t.top_margin ->
                UpdateCursorPos([u EXCEPT !.y = IF t.y >= n THEN t.y - n ELSE t.top_margin])
          [] OTHER -> u

CursorDown(t, n) ==
    LET u == [t EXCEPT !.advance_pending = FALSE]
    IN  CASE t.y > t.bottom_margin -> UpdateCursorPos([u EXCEPT !.y = t.bottom_margin])
          [] t.y < t.bottom_margin ->
                UpdateCursorPos([u EXCEPT !.y = IF t.bottom_margin - t.y >= n
                                                THEN t.y + n ELSE t.bottom_margin])
          [] OTHER -> u

\* Mutation of CursorRight, for the mutation runs: an off-by-one at the
\* right edge.
CursorRightOffByOne(t, n) ==
    LET u == [t EXCEPT !.advance_pending = FALSE]
    IN  IF t.x < t.w - 1
        THEN UpdateCursorPos([u EXCEPT !.x = IF t.w - t.x >= n THEN t.x + n ELSE t.w - 1])
        ELSE u

CursorLeft(t, n) ==
    LET u == [t EXCEPT !.advance_pending = FALSE]
    IN  IF t.x > 0 THEN UpdateCursorPos([u EXCEPT !.x = IF t.x >= n THEN t.x - n ELSE 0])
        ELSE u

CursorRight(t, n) ==
    LET u == [t EXCEPT !.advance_pending = FALSE]
    IN  IF t.x < t.w - 1
        THEN UpdateCursorPos([u EXCEPT !.x = IF t.w - 1 - t.x >= n THEN t.x + n ELSE t.w - 1])
        ELSE u

(***************************************************************************)
(* Colours, modes and attributes                                           *)
(***************************************************************************)
\* SGR codes that set (AttrOn) or clear (AttrOff) CharacterCell attributes.
AttrOn == (1 :> "BOLD") @@ (2 :> "FAINT") @@ (3 :> "ITALIC") @@ (4 :> "UNDERLINE")
          @@ (5 :> "BLINK") @@ (7 :> "INVERSE") @@ (8 :> "INVISIBLE") @@ (9 :> "STRIKETHROUGH")
AttrOff == (22 :> {"BOLD", "FAINT"}) @@ (23 :> {"ITALIC"}) @@ (24 :> {"UNDERLINE"})
           @@ (25 :> {"BLINK"}) @@ (27 :> {"INVERSE"}) @@ (28 :> {"INVISIBLE"})
           @@ (29 :> {"STRIKETHROUGH"})

\* SGR 30..37 and 40..47: bit 0 red, bit 1 green, bit 2 blue, at 255.
BasicColour(k) == Explicit(IF Bit(k, 1) THEN 255 ELSE 0, IF Bit(k, 2) THEN 255 ELSE 0,
                           IF Bit(k, 4) THEN 255 ELSE 0)

SetAttribute(t, a) ==
    CASE a = 0 -> [t EXCEPT !.attributes = {}, !.foreground = DefaultForeground,
                            !.background = DefaultBackground]
      [] a \in DOMAIN AttrOn -> [t EXCEPT !.attributes = @ \cup {AttrOn[a]}]
      [] a \in DOMAIN AttrOff -> [t EXCEPT !.attributes = @ \ AttrOff[a]]
      [] a \in 30..37 -> [t EXCEPT !.foreground = BasicColour(a - 30)]
      [] a = 39 -> [t EXCEPT !.foreground = DefaultForeground]
      [] a \in 40..47 -> [t EXCEPT !.background = BasicColour(a - 40)]
      [] a = 49 -> [t EXCEPT !.background = DefaultBackground]
      [] OTHER -> t

\* SGR: exactly 38;5;N, 48;5;N, 38;2;R;G;B and 48;2;R;G;B are colour
\* selections; anything else is applied one argument at a time.
SetAttributes(t, as) ==
    CASE Len(as) = 3 /\ as[1] = 38 /\ as[2] = 5 -> [t EXCEPT !.foreground = Map256Colour(as[3] % 256)]
      [] Len(as) = 3 /\ as[1] = 48 /\ as[2] = 5 -> [t EXCEPT !.background = Map256Colour(as[3] % 256)]
      [] Len(as) = 5 /\ as[1] = 38 /\ as[2] = 2 -> [t EXCEPT !.foreground = Explicit(as[3], as[4], as[5])]
      [] Len(as) = 5 /\ as[1] = 48 /\ as[2] = 2 -> [t EXCEPT !.background = Explicit(as[3], as[4], as[5])]
      [] OTHER -> FoldLeft(SetAttribute, t, as)

SaveAttributes(t) ==
    [t EXCEPT !.saved_attributes = t.attributes, !.saved_foreground = t.foreground,
              !.saved_background = t.background]
\* Mutation of RestoreAttributes, for the mutation runs: the background is
\* not restored.
RestoreAttributesKeepBackground(t) ==
    [t EXCEPT !.attributes = t.saved_attributes, !.foreground = t.saved_foreground]
RestoreAttributes(t) ==
    [t EXCEPT !.attributes = t.saved_attributes, !.foreground = t.saved_foreground,
              !.background = t.saved_background]

\* Resize: a zero dimension keeps the old one; margins and cursor are
\* pulled inside the new size (the cursor against the arguments, not w/h);
\* the keyboard is told the size.  The saved cursor is left alone.
Resize(t, cols, rows) ==
    LET nw == IF cols # 0 THEN cols ELSE t.w
        nh == IF rows # 0 THEN rows ELSE t.h
    IN  UpdateCursorPos(Reply(
          [t EXCEPT !.w = nw, !.h = nh,
                    !.top_margin = IF @ >= nh THEN 0 ELSE @,
                    !.bottom_margin = IF @ >= nh THEN nh - 1 ELSE @,
                    !.x = IF @ >= cols THEN U16(cols - 1) ELSE @,
                    !.y = IF @ >= rows THEN U16(rows - 1) ELSE @],
          [kind |-> "ReportSize", a |-> nw, b |-> nh]))

\* DECSLPP: the last argument, if at least MinPageLines, becomes h.
SetLinesPerPage(t, as) ==
    IF Len(as) > 0 /\ as[Len(as)] >= MinPageLines THEN Resize(t, t.w, as[Len(as)]) ELSE t

SetMode(t, a, f) == IF a = 4 THEN [t EXCEPT !.overstrike = ~f] ELSE t

FormFeed(t) == ClearDisplay(Home(t), Space)

SetPrivateMode(t, a, f) ==
    CASE a = 3 -> FormFeed(Resize(t, IF f THEN WideCols ELSE NarrowCols, t.h))
      [] a = 7 -> [t EXCEPT !.automatic_right_margin = f]
      [] a = 12 -> [t EXCEPT !.cursor_attributes = IF f THEN @ \cup {"BLINK"} ELSE @ \ {"BLINK"}]
      [] a = 25 -> [t EXCEPT !.cursor_attributes = IF f THEN @ \cup {"VISIBLE"} ELSE @ \ {"VISIBLE"}]
      [] a = 117 -> [t EXCEPT !.background_colour_erase = f]
      [] OTHER -> t

\* SM/RM: no flag selects ANSI modes, '?' DEC private modes, others nothing.
SetModes(t, as, f, inter) ==
    FoldLeft(LAMBDA u, a : CASE inter = 0 -> SetMode(u, a, f)
                             [] inter = 63 -> SetPrivateMode(u, a, f)
                             [] OTHER -> u, t, as)

(***************************************************************************)
(* Reports to the keyboard buffer (their text abstracted to a kind and the *)
(* numbers they carry)                                                     *)
(***************************************************************************)
Report(kind, a, b) == [kind |-> kind, a |-> a, b |-> b]

SendDeviceAttributes(t, as, inter) ==
    FoldLeft(LAMBDA u, a :
               CASE a = 0 /\ inter = 0  -> Reply(u, Report("PrimaryDA", 0, 0))
                 [] a = 0 /\ inter = 62 -> Reply(u, Report("SecondaryDA", 0, 0))
                 [] a = 0 /\ inter = 61 -> Reply(u, Report("TertiaryDA", 0, 0))
                 [] OTHER -> u, t, as)

SendDeviceStatusReports(t, as, inter) ==
    FoldLeft(LAMBDA u, a :
               CASE inter = 0 /\ a = 5  -> Reply(u, Report("OperatingStatus", 0, 0))
                 [] inter = 0 /\ a = 6  -> Reply(u, Report("CursorPosition", u.y + 1, u.x + 1))
                 [] inter = 63 /\ a = 6 -> Reply(u, Report("ExtendedCursorPosition", u.y + 1, u.x + 1))
                 [] inter = 63 /\ a = 15 -> Reply(u, Report("PrinterStatus", 0, 0))
                 [] inter = 63 /\ a = 25 -> Reply(u, Report("UDKStatus", 0, 0))
                 [] inter = 63 /\ a = 26 -> Reply(u, Report("KeyboardStatus", 0, 0))
                 [] OTHER -> u, t, as)

(***************************************************************************)
(* Printing                                                                *)
(***************************************************************************)
\* Print: a pending wrap happens first; format characters and non-spacing
\* marks are dropped; an enclosing mark overwrites the current cell; any
\* other glyph is written (after shifting the line right when not in
\* overstrike mode) and the cursor advances, or the wrap is deferred.
\* Mutation of PrintGlyph, for the mutation runs: the pending wrap is
\* dropped instead of performed.
PrintGlyphNoDeferredWrap(t, c) ==
    LET t1 == [t EXCEPT !.advance_pending = FALSE]
        t3 == WriteNCells(t1, t1.w * t1.y + t1.x, 1, Cell(t1, c, t1.background))
    IN  IF c \in OtherFormat \cup MarkNonSpacing \cup MarkEnclosing THEN t1
        ELSE IF WillWrap(t3) THEN [t3 EXCEPT !.advance_pending = TRUE] ELSE Advance(t3)

PrintGlyph(t, c) ==
    LET t1 == IF t.advance_pending
              THEN [IF WillWrap(t) THEN Advance(t) ELSE t EXCEPT !.advance_pending = FALSE]
              ELSE t
        s  == t1.w * t1.y + t1.x
        t2 == IF t1.overstrike THEN t1 ELSE InsertCharacters(t1, 1)
        t3 == WriteNCells(t2, s, 1, Cell(t2, c, t2.background))
    IN  CASE c \in OtherFormat \cup MarkNonSpacing -> t1
          [] c \in MarkEnclosing -> WriteNCells(t1, s, 1, Cell(t1, c, t1.background))
          [] WillWrap(t3) -> [t3 EXCEPT !.advance_pending = TRUE]
          [] OTHER -> Advance([t3 EXCEPT !.advance_pending = FALSE])

(***************************************************************************)
(* Dispatch                                                                *)
(***************************************************************************)
\* The executor's part of ProcessControlCharacter (FF, CR, NEL, IND, LF,
\* VT, RI, TAB, BS, DEL, HTS; the others, BEL included, change nothing).
ControlCharacter(t, c) ==
    CASE c = 12 -> FormFeed(t)
      [] c = 13 -> CarriageReturn(t)
      [] c = 133 -> Index(CarriageReturn(t))
      [] c \in {132, 10, 11} -> Index(t)
      [] c = 141 -> ReverseIndex(t)
      [] c = 9 -> HorizontalTab(t, 1)
      [] c = 8 -> CursorLeft(t, 1)
      [] c = 127 -> DeleteCharacters(t, 1)
      [] c = 136 -> SetTabstop(t)
      [] OTHER -> t

\* Escape1's ESC 6 (back index), ESC 7 (save), ESC 8 (restore), ESC 9.
Escape(t, c) ==
    CASE c = 54 -> ReverseIndex(t)
      [] c = 55 -> SaveAttributes(SaveCursor(t))
      [] c = 56 -> RestoreAttributes(RestoreCursor(t))
      [] c = 57 -> Index(t)

\* Escape2's ESC SP F / ESC SP G (7- or 8-bit C1 replies) and ESC # 8.
Escape2(t, inter, c) ==
    CASE inter = 32 /\ c \in {70, 71} -> Reply(t, Report("Set8BitControl1", c - 70, 0))
      [] inter = 35 /\ c = 56 -> ClearDisplay(t, 69)
      [] OTHER -> t

SumArgs(as) == FoldLeft(LAMBDA s, a : U16(s + a), 0, as)

\* ControlSequence's dispatch on the final character.
ControlSequence(t, f, inter, as) ==
    LET n == OneIfZero(SumArgs(as)) IN
    CASE f = 64 -> InsertCharacters(t, n)
      [] f = 65 -> CursorUp(t, n)
      [] f \in {66, 101} -> CursorDown(t, n)
      [] f \in {67, 97} -> CursorRight(t, n)
      [] f = 68 -> CursorLeft(t, n)
      [] f = 69 -> CursorDown([t EXCEPT !.x = 0], n)
      [] f = 70 -> CursorUp([t EXCEPT !.x = 0], n)
      [] f \in {71, 96} -> GotoX(t, n)
      [] f \in {72, 102} -> GotoYX(t, as)
      [] f = 73 -> HorizontalTab(t, n)
      [] f = 74 -> EraseInDisplay(t, as)
      [] f = 75 -> EraseInLine(t, as)
      [] f = 76 -> InsertLines(t, n)
      [] f = 77 -> DeleteLines(t, n)
      [] f = 80 -> DeleteCharacters(t, n)
      [] f = 88 -> EraseCharacters(t, n)
      [] f = 83 -> ScrollUp(t, n)
      [] f = 84 -> ScrollDown(t, n)
      [] f = 90 -> BackwardsHorizontalTab(t, n)
      [] f = 99 -> SendDeviceAttributes(t, as, inter)
      [] f = 100 -> GotoY(t, n)
      [] f = 103 -> TabClear(t, as)
      [] f \in {104, 108} -> SetModes(t, as, f = 104, inter)
      [] f = 109 -> SetAttributes(t, as)
      [] f = 110 -> SendDeviceStatusReports(t, as, inter)
      [] f = 114 -> SetScrollMargins(t, as)
      [] f = 115 -> SaveCursor(t)
      [] f = 116 -> SetLinesPerPage(t, as)
      [] f = 117 -> RestoreCursor(t)
      [] OTHER -> t

Execute(t, o) ==
    CASE o.kind = "print" -> PrintGlyph(t, o.ch)
      [] o.kind = "ctl" -> ControlCharacter(t, o.ch)
      [] o.kind = "esc" -> Escape(t, o.ch)
      [] o.kind = "esc2" -> Escape2(t, o.inter, o.ch)
      [] o.kind = "csi" -> ControlSequence(t, o.ch, o.inter, o.args)
      [] OTHER -> t

(***************************************************************************)
(* The specification                                                       *)
(***************************************************************************)
\* Memory the constructor leaves uninitialised (saved_attributes,
\* saved_foreground, saved_background) holds whatever it held: one symbolic
\* value stands for all of it.
Indeterminate == <<"indeterminate", 0, 0, 0>>

\* SoftTerm::SoftTerm, including its Resize, ClearAllTabstops,
\* UpdateCursorType and form feed.
Init ==
    /\ Parser!Init
    /\ x = 0 /\ y = 0 /\ saved_x = 0 /\ saved_y = 0
    /\ w = InitialCols /\ h = InitialRows
    /\ top_margin = 0 /\ bottom_margin = InitialRows - 1
    /\ overstrike = TRUE /\ automatic_right_margin = TRUE /\ background_colour_erase = TRUE
    /\ advance_pending = FALSE
    /\ attributes = {} /\ foreground = DefaultForeground /\ background = DefaultBackground
    /\ saved_attributes = {"INDETERMINATE"}
    /\ saved_foreground = Indeterminate /\ saved_background = Indeterminate
    /\ tabstops = {}
    /\ cursor_attributes = {"VISIBLE", "BLINK"}
    /\ cursor_shown = <<0, 0>>
    /\ screen = << [call |-> "WriteNCells", s |-> 0, e |-> InitialCols * InitialRows, n |-> 0,
                    cell |-> [ch |-> Space, attributes |-> {}, fg |-> DefaultForeground,
                              bg |-> DefaultBackground]] >>
    /\ keyboard = << Report("ReportSize", InitialCols, InitialRows) >>

\* SoftTerm::Write of one character from Chars, with any decoder flags.
WriteChar(c, decoder_error, overlong) ==
    /\ Parser!Write(c, decoder_error, overlong, h)
    /\ SetT(Execute(T, op'))
=============================================================================
