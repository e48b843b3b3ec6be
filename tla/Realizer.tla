------------------------------- MODULE Realizer -------------------------------
(***************************************************************************)
(* console-fb-realizer: the main loop (lines 4639-4769) that mirrors a    *)
(* virtual terminal's display buffer onto the framebuffer and turns the   *)
(* keyboard's events into input messages.  One iteration is two steps:    *)
(* Top, the work before kevent (leaving on a stop signal, the VT release  *)
(* and acquire flags, the display update), and Wait, the kevent call and  *)
(* the handling of what it returns (signals, keyboard input, a change of  *)
(* the buffer file), then the LED update and the reload.  Signals arrive  *)
(* as EVFILT_SIGNAL events, so handle_signal runs inside the loop and     *)
(* nothing else runs concurrently with it.                                *)
(*                                                                        *)
(* The display buffer's contents are left out: of the buffer file only    *)
(* the header is kept (size, cursor position and visibility), and of the  *)
(* compositor only its cursor.  Coordinates are unsigned short.           *)
(***************************************************************************)
EXTENDS Integers, Sequences, KeyboardModifierState, DeadKeys

CONSTANTS
    Keys,          \* the keys of the keyboard
    Keymap,        \* Keys -> [cmd, p]: the keyboard map's row for each key
    ScreenRows,    \* the framebuffer's height in character cells
    ScreenCols,    \* the framebuffer's width in character cells
    Quadrant,      \* the --quadrant option
    Headers,       \* the buffer file headers the terminal may write
    KeyQueueCap,   \* key events the input device holds before a read
    MaxKeyEvents,  \* bound: key events the user makes
    MaxSwitches,   \* bound: VT release and acquire signals the kernel sends
    MaxBufferChanges \* bound: rewrites of the buffer file

SE == INSTANCE SequencesExt

\* unsigned short arithmetic.
Coord(n) == n % 65536

(***************************************************************************)
(* The display geometry: class VirtualTerminal (lines 816-1001), and the  *)
(* Realizer's position, compose and transfer_cursor_pos (1265-1294).      *)
(***************************************************************************)

\* VirtualTerminal's constructor (lines 861-881): all zero, cursor state -1.
InitialVT == [h |-> 0, w |-> 0, cursor_y |-> 0, cursor_x |-> 0, cursor_state |-> -1,
              visible_y |-> 0, visible_x |-> 0, visible_h |-> 0, visible_w |-> 0,
              screen_y |-> 0, screen_x |-> 0]

\* VirtualTerminal::move_cursor (lines 887-896): clamped to the buffer.
ClampTo(v, n) == IF v >= n THEN Coord(n - 1) ELSE v

\* VirtualTerminal::reload (lines 955-1000): resize to the header's size,
\* move_cursor to its cursor, and cursor_state 0 when the cursor is
\* invisible, else 1 or 2 by shape (the shape is left out: 1).
Reload(vt, hdr) ==
    [vt EXCEPT !.h = hdr.h, !.w = hdr.w,
               !.cursor_y = ClampTo(hdr.cursor_y, hdr.h),
               !.cursor_x = ClampTo(hdr.cursor_x, hdr.w),
               !.cursor_state = IF hdr.cursor_visible THEN 1 ELSE 0]

\* A window never pulled back into a shrunken buffer.
KeepVisibleAreaInBufferOmitted(vt) == vt

\* keep_visible_area_in_buffer (lines 921-927).
KeepVisibleAreaInBuffer(vt) ==
    [vt EXCEPT !.visible_y = IF vt.visible_y + vt.visible_h > vt.h THEN Coord(vt.h - vt.visible_h) ELSE @,
               !.visible_x = IF vt.visible_x + vt.visible_w > vt.w THEN Coord(vt.w - vt.visible_w) ELSE @]

\* keep_visible_area_around_cursor (lines 929-941): only a visible cursor
\* pulls the window after it.
Follow(pos, size, cursor) ==
    IF pos > cursor THEN cursor
    ELSE IF pos + size <= cursor THEN Coord(cursor - size + 1) ELSE pos
KeepVisibleAreaAroundCursor(vt) ==
    IF vt.cursor_state > 0
    THEN [vt EXCEPT !.visible_y = Follow(@, vt.visible_h, vt.cursor_y),
                    !.visible_x = Follow(@, vt.visible_w, vt.cursor_x)]
    ELSE vt

\* set_visible_area (lines 943-952).
SetVisibleArea(vt, new_h, new_w) ==
    KeepVisibleAreaAroundCursor(KeepVisibleAreaInBuffer(
        [vt EXCEPT !.visible_h = IF new_h > vt.h THEN vt.h ELSE new_h,
                   !.visible_w = IF new_w > vt.w THEN vt.w ELSE new_w]))

\* Realizer::position(quadrant) (lines 1265-1276): glue the window to the
\* bottom unless the quadrant has bit 1, to the right in quadrants 1 and
\* 2, then fit the visible area into the rest of the screen.
Position(vt) ==
    LET screen_y == IF Quadrant \div 2 % 2 = 0 /\ vt.h < ScreenRows THEN ScreenRows - vt.h ELSE 0
        screen_x == IF Quadrant \in {1, 2} /\ vt.visible_w < ScreenCols
                    THEN ScreenCols - vt.visible_w ELSE 0
    IN SetVisibleArea([vt EXCEPT !.screen_y = screen_y, !.screen_x = screen_x],
                      ScreenRows - screen_y, ScreenCols - screen_x)

\* Realizer::transfer_cursor_pos (lines 1287-1292): the terminal's cursor
\* in screen coordinates, handed to Compositor::move_cursor (lines
\* 691-701), which indexes cur_cells with it unchecked.
TransferCursorPos(vt) ==
    [row |-> Coord(vt.cursor_y - vt.visible_y + vt.screen_y),
     col |-> Coord(vt.cursor_x - vt.visible_x + vt.screen_x)]

\* What a header shows once loaded, and what the display was last composed
\* from; NoHeader before the first display update.
HeaderOf(vt) == [h |-> vt.h, w |-> vt.w, cursor_y |-> vt.cursor_y,
                 cursor_x |-> vt.cursor_x, cursor_visible |-> vt.cursor_state > 0]
LoadedHeader(hdr) == HeaderOf(Reload(InitialVT, hdr))
NoHeader == [h |-> -1, w |-> -1, cursor_y |-> -1, cursor_x |-> -1, cursor_visible |-> FALSE]

(***************************************************************************)
(* The keyboard: HIDBase::handle_keyboard (lines 2810-2892) and the       *)
(* Realizer's key handlers (2543-2646).  An action of the map is a record *)
(* [act, ...]: UCS3 carries a code point, MODIFIER a modifier number k    *)
(* and command c, and the key actions a code.  The input messages written *)
(* to the terminal are left out; what the keyboard state and the dead     *)
(* keys become is kept.                                                   *)
(***************************************************************************)
KeyActions == {"SCREEN", "SYSTEM", "CONSUMER", "EXTENDED", "FUNCTION", "FUNCTION1"}

\* HIDBase::handle_keyboard(r, row, col, v): the column chosen by the
\* key's command, then the action found there.  Every action but a
\* modifier ignores a release; character input goes through the input
\* method, the other keys discard the held dead keys (ClearDeadKeys) and
\* all of them unlatch the latched modifiers.
HandleKeyboard(st, ev) ==
    LET entry == Keymap[ev[1]]
        v == ev[2]
        o == QueryKbdmapParameter(st.kbd, entry.cmd)
        a == entry.p[o]
    IN IF o >= 16 THEN st
       ELSE CASE a.act = "UCS3" /\ v >= 1 ->
                   [st EXCEPT !.dead_keys = HandleCharacterInput(@, a.ucs).dead_keys,
                              !.kbd = Unlatch(@)]
              [] a.act = "MODIFIER" ->
                   [st EXCEPT !.kbd = Event(@, a.k, a.c, v)]
              [] a.act \in KeyActions /\ v >= 1 ->
                   [st EXCEPT !.dead_keys = <<>>, !.kbd = Unlatch(@)]
              [] OTHER -> st

(***************************************************************************)
(* The main loop.                                                         *)
(***************************************************************************)
VARIABLES
    pc,              \* "top", "wait" (in kevent), or "done"
    sig_pending,     \* signals queued as EVFILT_SIGNAL events
    usr1_signalled, usr2_signalled, stop_signalled,  \* handle_signal's flags
    active,          \* the loop's active
    inputs_enabled,  \* the input device's EVFILT_READ is enabled
    keyq,            \* key events <<key, value>> the device holds unread
    held,            \* the keys the user holds down
    kbd,             \* the keyboard's KeyboardModifierState
    dead_keys,       \* the Realizer's held dead keys
    leds,            \* what the keyboard's LEDs show
    file_hdr,        \* the header of the buffer file as it is now
    vnode_pending,   \* the buffer file has changed (EVFILT_VNODE)
    vt,              \* the VirtualTerminal's geometry
    cursor,          \* the Compositor's cursor_row and cursor_col
    update_needed,   \* the Realizer's update_needed
    shown,           \* history: the header the display was last composed from
    key_events, switches, changes  \* counts of the environment's steps

kbdVars == <<kbd, dead_keys, leds>>
envVars == <<sig_pending, keyq, held, file_hdr, vnode_pending, key_events, switches, changes>>
loopVars == <<pc, usr1_signalled, usr2_signalled, stop_signalled, active, inputs_enabled,
              vt, cursor, update_needed, shown>>
vars == <<kbdVars, envVars, loopVars>>

\* Lines 4639-4642: usr2_signalled is set before the loop so that the
\* first iteration acquires the display; inputs are added disabled; the
\* buffer is loaded once.
Init ==
    /\ pc = "top"
    /\ sig_pending = {}
    /\ usr1_signalled = FALSE /\ usr2_signalled = TRUE /\ stop_signalled = FALSE
    /\ active = FALSE
    /\ inputs_enabled = FALSE
    /\ keyq = <<>> /\ held = {}
    /\ kbd = InitialModifierState
    /\ dead_keys = <<>>
    /\ leds = [num |-> FALSE, caps |-> FALSE, scroll |-> FALSE]
    /\ file_hdr \in Headers
    /\ vnode_pending = FALSE
    /\ vt = Reload(InitialVT, file_hdr)
    /\ cursor = [row |-> 0, col |-> 0]
    /\ update_needed = TRUE
    /\ shown = NoHeader
    /\ key_events = 0 /\ switches = 0 /\ changes = 0

\* handle_signal (lines 78-92), for the signals a kevent returns.
HandleSignals(sigs) ==
    /\ usr1_signalled' = (usr1_signalled \/ "USR1" \in sigs)
    /\ usr2_signalled' = (usr2_signalled \/ "USR2" \in sigs)
    /\ stop_signalled' = (stop_signalled \/ "TERM" \in sigs)

\* The LED update (lines 4668-4674 and 4751-4757): set_LEDs then
\* clean_LEDs when the keyboard says they are dirty.
RefreshLEDs(k) == IF k.dirty_LEDs THEN LEDs(k) ELSE leds
AfterRefresh(k) == IF k.dirty_LEDs THEN CleanLEDs(k) ELSE k

\* A buffer change that reloads without asking for a display update.
ReloadUpdateNeededOmitted(needed, changed) == needed

\* Lines 4763-4766: a change of the buffer file asks for a display update.
ReloadUpdateNeeded(needed, changed) == needed \/ changed

\* The top of the loop (lines 4644-4707).  A stop signal ends the loop.
\* usr1_signalled releases: inputs are disabled and active cleared.
\* usr2_signalled acquires when not active: all cells are painted, the
\* LEDs set, inputs enabled.  Neither flag is ever cleared.  Then, when
\* an update is needed: position, compose, transfer_cursor_pos and, when
\* active, the changed cells painted.
Top ==
    /\ pc = "top"
    /\ IF stop_signalled
       THEN /\ pc' = "done"
            /\ UNCHANGED <<kbdVars, envVars, usr1_signalled, usr2_signalled, stop_signalled,
                           active, inputs_enabled, vt, cursor, update_needed, shown>>
       ELSE LET released == IF usr1_signalled THEN FALSE ELSE active
                acquire == usr2_signalled /\ ~released
                now_active == usr2_signalled \/ released
                placed == IF update_needed THEN Position(vt) ELSE vt
            IN /\ active' = now_active
               /\ inputs_enabled' = CASE acquire -> TRUE
                                      [] usr1_signalled /\ active -> FALSE
                                      [] OTHER -> inputs_enabled
               /\ leds' = IF acquire THEN RefreshLEDs(kbd) ELSE leds
               /\ kbd' = IF acquire THEN AfterRefresh(kbd) ELSE kbd
               /\ vt' = placed
               /\ cursor' = IF update_needed THEN TransferCursorPos(placed) ELSE cursor
               /\ shown' = IF update_needed THEN HeaderOf(placed) ELSE shown
               /\ update_needed' = FALSE
               /\ pc' = "wait"
               /\ UNCHANGED <<dead_keys, envVars, usr1_signalled, usr2_signalled,
                              stop_signalled>>

\* kevent (line 4712) and what follows (lines 4721-4767): it blocks until
\* an event is ready; it returns every queued signal, the buffer file's
\* change, and the keyboard when its events are enabled and waiting, and
\* the device is read to the end (HID::handle_input_events, lines
\* 3521-3570).  Then the LEDs are updated and the buffer reloaded.
Wait ==
    /\ pc = "wait"
    /\ LET keys_ready == inputs_enabled /\ keyq # <<>>
           typed == SE!FoldLeft(HandleKeyboard,
                                [kbd |-> kbd, dead_keys |-> dead_keys],
                                IF keys_ready THEN keyq ELSE <<>>)
       IN /\ sig_pending # {} \/ vnode_pending \/ keys_ready
          /\ HandleSignals(sig_pending)
          /\ keyq' = IF keys_ready THEN <<>> ELSE keyq
          /\ dead_keys' = typed.dead_keys
          /\ leds' = RefreshLEDs(typed.kbd)
          /\ kbd' = AfterRefresh(typed.kbd)
          /\ vt' = IF vnode_pending THEN Reload(vt, file_hdr) ELSE vt
          /\ update_needed' = ReloadUpdateNeeded(update_needed, vnode_pending)
    /\ sig_pending' = {}
    /\ vnode_pending' = FALSE
    /\ pc' = "top"
    /\ UNCHANGED <<held, file_hdr, key_events, switches, changes, active, inputs_enabled,
                   cursor, shown>>

(***************************************************************************)
(* The environment, until the realizer has exited.                        *)
(***************************************************************************)
Running == pc # "done"

\* The user presses a key, or the device repeats a held one, or the user
\* lets it go: an evdev event with value 1, 2 or 0.
KeyEvent(k) ==
    /\ Running
    /\ key_events < MaxKeyEvents
    /\ Len(keyq) < KeyQueueCap
    /\ \/ k \notin held /\ keyq' = Append(keyq, <<k, 1>>) /\ held' = held \cup {k}
       \/ k \in held /\ keyq' = Append(keyq, <<k, 2>>) /\ UNCHANGED held
       \/ k \in held /\ keyq' = Append(keyq, <<k, 0>>) /\ held' = held \ {k}
    /\ key_events' = key_events + 1
    /\ UNCHANGED <<kbdVars, loopVars, sig_pending, file_hdr, vnode_pending, switches, changes>>

\* The kernel asks the realizer to release the VT (SIGUSR1, the release
\* signal given to VT_SETMODE at line 4312) or tells it that it has it
\* again (SIGUSR2).
Switch(sig) ==
    /\ Running
    /\ switches < MaxSwitches
    /\ sig_pending' = sig_pending \cup {sig}
    /\ switches' = switches + 1
    /\ UNCHANGED <<kbdVars, loopVars, keyq, held, file_hdr, vnode_pending, key_events, changes>>

\* SIGTERM, SIGINT or SIGHUP, which handle_signal treats alike.
Stop ==
    /\ Running
    /\ "TERM" \notin sig_pending
    /\ ~stop_signalled
    /\ sig_pending' = sig_pending \cup {"TERM"}
    /\ UNCHANGED <<kbdVars, loopVars, keyq, held, file_hdr, vnode_pending, key_events,
                   switches, changes>>

\* The terminal emulator rewrites the buffer file.
BufferChange(hdr) ==
    /\ Running
    /\ changes < MaxBufferChanges
    /\ file_hdr' = hdr
    /\ vnode_pending' = TRUE
    /\ changes' = changes + 1
    /\ UNCHANGED <<kbdVars, loopVars, sig_pending, keyq, held, key_events, switches>>

Environment ==
    \/ \E k \in Keys : KeyEvent(k)
    \/ \E sig \in {"USR1", "USR2"} : Switch(sig)
    \/ Stop
    \/ \E hdr \in Headers : BufferChange(hdr)

Next == Top \/ Wait \/ Environment

\* When Wait can take a step: kevent has an event to return.  This is
\* ENABLED Wait, written out (every Wait step changes pc).
KeventReady == pc = "wait" /\ (sig_pending # {} \/ vnode_pending \/ (inputs_enabled /\ keyq # <<>>))

\* The loop is the process's only thread: it runs whenever it can, and
\* kevent returns once an event is ready.  The weak fairness of Wait is
\* spelt out with KeventReady for ENABLED.
Fairness == WF_vars(Top) /\ (<>[]KeventReady => []<><<Wait>>_vars)

Spec == Init /\ [][Next]_vars /\ Fairness
=============================================================================
