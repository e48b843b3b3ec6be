---------------------------- MODULE SoftTermMC ----------------------------
(***************************************************************************)
(* SoftTerm driven by any sequence of characters from a small alphabet.    *)
(* `snapshot` is a history variable kept only for checking: what the last  *)
(* ESC 7 saved, with the position replaced by a later CSI s.               *)
(***************************************************************************)
EXTENDS SoftTerm, FiniteSets

CONSTANTS
    Chars,     \* the code points written
    Flags,     \* the (decoder_error, overlong) pairs written with them
    ArgValues  \* the values an argument may reach while it is accumulated

VARIABLE snapshot

mc_vars == <<vars, snapshot>>

NoSnapshot == [pos |-> <<>>, attrs |-> <<>>]

\* Decoder flag combinations for Flags: clean input only, or every one.
CleanInput == {<<FALSE, FALSE>>}
AnyInput == BOOLEAN \X BOOLEAN

\* Argument values for ArgValues: single digits.
SingleDigits == 0..9

MCInit == Init /\ snapshot = NoSnapshot

IsCsi(o, f) == o.kind = "csi" /\ o.ch = f
IsEsc(o, c) == o.kind = "esc" /\ o.ch = c
IsCtl(o, cs) == o.kind = "ctl" /\ o.ch \in cs

\* The history: ESC 7 saves position and rendition, CSI s the position.
RecordSave ==
    snapshot' = CASE IsEsc(op', 55) -> [pos |-> <<x, y>>, attrs |-> <<attributes, foreground, background>>]
                  [] IsCsi(op', 115) -> [snapshot EXCEPT !.pos = <<x, y>>]
                  [] OTHER -> snapshot

MCNext == \E c \in Chars, f \in Flags : WriteChar(c, f[1], f[2]) /\ RecordSave

MCSpec == MCInit /\ [][MCNext]_mc_vars

ArgBound == \A i \in DOMAIN args : args[i] \in ArgValues

OnScreen == x < w /\ y < h
MarginsValid == top_margin < bottom_margin /\ bottom_margin < h
Glyph(o) == o.kind = "print" /\ o.ch \notin OtherFormat \cup MarkNonSpacing \cup MarkEnclosing

(***************************************************************************)
(* Properties the code satisfies                                           *)
(***************************************************************************)
\* Cursor motion: starting on screen inside valid margins, every command
\* other than absolute positioning (CHA, HPA, CUP, HVP, VPA) and cursor
\* restoration (DECRC, CSI u) leaves the cursor on screen: relative motion,
\* tabs, index, wrap, erase, scroll, resize and mode changes all clamp.
RelativeMotionKeepsCursorOnScreen ==
    [][ /\ OnScreen /\ MarginsValid
        /\ ~(op'.kind = "csi" /\ op'.ch \in {71, 96, 72, 102, 100, 117})
        /\ ~IsEsc(op', 56)
        => x' < w' /\ y' < h' ]_mc_vars

\* Print and Advance (deferred wrap, spec scenario C): with auto-wrap on, a
\* glyph printed in the last column leaves the cursor there with the wrap
\* pending, and the next glyph is written at column 0 of the next row (the
\* same row, after a scroll, at the bottom of the screen).
PendingWrapLandsOnNextLine ==
    [][ Glyph(op') /\ automatic_right_margin /\ OnScreen /\ x = w - 1 =>
          IF advance_pending
          THEN \E call \in ToSet(screen') :
                  /\ call.call = "WriteNCells" /\ call.cell.ch = op'.ch
                  /\ call.s = w * (IF y < h - 1 THEN y + 1 ELSE y)
          ELSE x' = x /\ y' = y /\ advance_pending' ]_mc_vars

\* HorizontalTab and BackwardsHorizontalTab (TAB, CHT, CBT): the cursor
\* lands on the n-th tab stop in the direction of travel, or on the edge
\* of the line when there are fewer than n.
TabCount(o) == IF o.kind = "ctl" THEN 1 ELSE OneIfZero(SumArgs(o.args))
StopsAfter == {p \in tabstops : x < p /\ p < w}
StopsBefore == {p \in tabstops : p < x}

TabStopLanding ==
    [][ x < w =>
          /\ (IsCtl(op', {9}) \/ IsCsi(op', 73)) =>
                x' = IF Cardinality(StopsAfter) >= TabCount(op')
                     THEN SetToSortSeq(StopsAfter, <)[TabCount(op')] ELSE w - 1
          /\ IsCsi(op', 90) =>
                x' = IF Cardinality(StopsBefore) >= TabCount(op')
                     THEN SetToSortSeq(StopsBefore, >)[TabCount(op')] ELSE 0 ]_mc_vars

\* SaveCursor/SaveAttributes and their restores: ESC 8 puts back the
\* position last saved (by ESC 7 or CSI s) and the rendition ESC 7 saved,
\* whatever was done in between.
SaveRestoreRoundTrip ==
    [][ IsEsc(op', 56) /\ snapshot.attrs # <<>> =>
          /\ <<x', y'>> = snapshot.pos
          /\ <<attributes', foreground', background'>> = snapshot.attrs ]_mc_vars

(***************************************************************************)
(* What the specification says of the code and the code does not do        *)
(***************************************************************************)
\* SetScrollMargins and Resize: the scroll region is a valid range of rows
\* of the screen (DECSTBM checks top < bottom but not bottom < h).
ScrollRegionValid == top_margin < bottom_margin /\ bottom_margin < h

=============================================================================
