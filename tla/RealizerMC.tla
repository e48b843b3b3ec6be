----------------------------- MODULE RealizerMC -----------------------------
(***************************************************************************)
(* Model-checking harness for Realizer: a five-key keyboard map, a 2x2    *)
(* cell framebuffer, and buffer file headers on either side of its size.  *)
(***************************************************************************)
EXTENDS Realizer

Act(act, ucs, k, c) == [act |-> act, ucs |-> ucs, k |-> k, c |-> c]
UCS(c) == Act("UCS3", c, 0, 0)
Mod(k, c) == Act("MODIFIER", 0, k, c)

\* A shift key, a caps lock key, a level 3 latch, a letter key whose
\* level 3 gives the dead keys acute (U+0301) and dot below (U+0323), and a
\* function key whose shifted column is a FUNCTION1 action.
MCKeys == {"shift", "caps", "latch3", "a", "f1"}
MCKeymap ==
    [k \in MCKeys |->
        CASE k = "shift" -> [cmd |-> "p", p |-> [i \in 0..15 |-> Mod(KBDMAP_MODIFIER_1ST_LEVEL2, KBDMAP_MODIFIER_CMD_MOMENTARY)]]
          [] k = "caps" -> [cmd |-> "p", p |-> [i \in 0..15 |-> Mod(KBDMAP_MODIFIER_CAPS, KBDMAP_MODIFIER_CMD_LOCK)]]
          [] k = "latch3" -> [cmd |-> "p", p |-> [i \in 0..15 |-> Mod(KBDMAP_MODIFIER_1ST_LEVEL3, KBDMAP_MODIFIER_CMD_LATCH)]]
          [] k = "a" -> [cmd |-> "c", p |-> [i \in 0..15 |->
                            UCS(IF i \div 4 % 2 = 1 THEN (IF i % 2 = 1 THEN \h323 ELSE \h301)
                                ELSE (IF i % 2 = 1 THEN 65 ELSE 97))]]
          [] k = "f1" -> [cmd |-> "f", p |-> [i \in 0..15 |->
                            Act(IF i % 2 = 1 THEN "FUNCTION1" ELSE "FUNCTION", 0, 0, 0)]]]

\* Buffer headers: an empty file (all zero), and a 3x3 buffer, larger
\* than the 2x2 screen, with the cursor in its far corner shown or hidden.
Header(h, w, y, x, v) == [h |-> h, w |-> w, cursor_y |-> y, cursor_x |-> x, cursor_visible |-> v]
MCHeaders == {Header(0, 0, 0, 0, FALSE), Header(3, 3, 2, 2, TRUE), Header(3, 3, 2, 2, FALSE)}

Geometry == [h : 0..65535, w : 0..65535, cursor_y : 0..65535, cursor_x : 0..65535,
             cursor_state : {-1, 0, 1}, visible_y : 0..65535, visible_x : 0..65535,
             visible_h : 0..65535, visible_w : 0..65535, screen_y : 0..65535, screen_x : 0..65535]

TypeOK ==
    /\ pc \in {"top", "wait", "done"}
    /\ sig_pending \subseteq {"USR1", "USR2", "TERM"}
    /\ {usr1_signalled, usr2_signalled, stop_signalled, active, inputs_enabled} \subseteq BOOLEAN
    /\ keyq \in Seq(Keys \X {0, 1, 2}) /\ Len(keyq) <= KeyQueueCap
    /\ held \subseteq Keys
    /\ kbd.shift \cup kbd.latch \cup kbd.lock \subseteq 0..20
    /\ \A i \in DOMAIN dead_keys : UC!IsMarkNonSpacing(dead_keys[i])
    /\ vt \in Geometry
    /\ cursor \in [row : 0..65535, col : 0..65535]
    /\ file_hdr \in Headers /\ shown \in Headers \cup {NoHeader} \cup {LoadedHeader(h) : h \in Headers}

\* Realizer::compose (lines 1278-1285) reads the buffer cells
\* visible_y..visible_y+visible_h-1 by visible_x..visible_x+visible_w-1
\* and pokes them at screen_y.., screen_x..: after every display update
\* the window lies inside the buffer as loaded, however the buffer has
\* shrunk or the cursor moved since the window was placed, and inside the
\* screen.
ComposeInBounds ==
    pc = "wait" =>
        /\ vt.visible_y + vt.visible_h <= vt.h /\ vt.visible_x + vt.visible_w <= vt.w
        /\ vt.screen_y + vt.visible_h <= ScreenRows /\ vt.screen_x + vt.visible_w <= ScreenCols

\* Compositor::move_cursor (lines 691-701) indexes cur_cells with the row
\* and column transfer_cursor_pos hands it: they are on the screen.
CursorOnScreen ==
    pc = "wait" => cursor.row < ScreenRows /\ cursor.col < ScreenCols

\* A rewrite of the buffer file is shown: the EVFILT_VNODE event makes the
\* loop reload the header and ask for a display update (lines 4763-4766),
\* so the display is eventually composed from the file as it then is,
\* unless the realizer stops first.
BufferChangeShown ==
    vnode_pending ~> (shown = LoadedHeader(file_hdr) \/ pc = "done")
=============================================================================
