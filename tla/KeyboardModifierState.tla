------------------------- MODULE KeyboardModifierState -------------------------
(***************************************************************************)
(* class KeyboardModifierState (console-fb-realizer.cpp 351-597): the     *)
(* shift, latch and lock state of a keyboard and the LEDs it shows.  A    *)
(* state is a record of three sets of modifier numbers (the bits of       *)
(* shift_state, latch_state and lock_state) and the dirty_LEDs flag; the  *)
(* member functions are operators on it.                                  *)
(***************************************************************************)
EXTENDS Naturals

\* The modifier numbers of kbdmap.h (lines 28-48).
KBDMAP_MODIFIER_1ST_LEVEL2 == 0
KBDMAP_MODIFIER_1ST_LEVEL3 == 1
KBDMAP_MODIFIER_1ST_GROUP2 == 2
KBDMAP_MODIFIER_1ST_CONTROL == 3
KBDMAP_MODIFIER_1ST_SUPER == 4
KBDMAP_MODIFIER_1ST_ALT == 5
KBDMAP_MODIFIER_2ND_LEVEL2 == 8
KBDMAP_MODIFIER_2ND_LEVEL3 == 9
KBDMAP_MODIFIER_2ND_GROUP2 == 10
KBDMAP_MODIFIER_2ND_CONTROL == 11
KBDMAP_MODIFIER_2ND_SUPER == 12
KBDMAP_MODIFIER_2ND_ALT == 13
KBDMAP_MODIFIER_LEVEL2 == 16
KBDMAP_MODIFIER_LEVEL3 == 17
KBDMAP_MODIFIER_CAPS == 18
KBDMAP_MODIFIER_NUM == 19

\* The modifier commands of kbdmap.h (lines 50-54).
KBDMAP_MODIFIER_CMD_MOMENTARY == 1
KBDMAP_MODIFIER_CMD_LATCH == 2
KBDMAP_MODIFIER_CMD_LOCK == 3

\* The constructor (lines 411-418): nothing held, and the LEDs to be set.
InitialModifierState == [shift |-> {}, latch |-> {}, lock |-> {}, dirty_LEDs |-> TRUE]

\* any and locked_or_latched (lines 420-432).
Any(s, bits) == bits \cap (s.shift \cup s.latch \cup s.lock) # {}
LockedOrLatched(s, bits) == bits \cap (s.latch \cup s.lock) # {}

\* The modifier tests (lines 434-502): either key of a pair, or a lock.
Level2(s) == Any(s, {KBDMAP_MODIFIER_1ST_LEVEL2, KBDMAP_MODIFIER_2ND_LEVEL2})
Level3(s) == Any(s, {KBDMAP_MODIFIER_1ST_LEVEL3, KBDMAP_MODIFIER_2ND_LEVEL3})
Group2(s) == Any(s, {KBDMAP_MODIFIER_1ST_GROUP2, KBDMAP_MODIFIER_2ND_GROUP2})
Control(s) == Any(s, {KBDMAP_MODIFIER_1ST_CONTROL, KBDMAP_MODIFIER_2ND_CONTROL})
Alt(s) == Any(s, {KBDMAP_MODIFIER_1ST_ALT, KBDMAP_MODIFIER_2ND_ALT})
Super(s) == Any(s, {KBDMAP_MODIFIER_1ST_SUPER, KBDMAP_MODIFIER_2ND_SUPER})
Level2Lock(s) == LockedOrLatched(s, {KBDMAP_MODIFIER_LEVEL2})
Level3Lock(s) == LockedOrLatched(s, {KBDMAP_MODIFIER_LEVEL3})
NumLock(s) == LockedOrLatched(s, {KBDMAP_MODIFIER_NUM})
CapsLock(s) == LockedOrLatched(s, {KBDMAP_MODIFIER_CAPS})

\* num_LED, caps_LED and scroll_LED (lines 360-362).
LEDs(s) == [num |-> NumLock(s), caps |-> CapsLock(s) \/ Level2Lock(s), scroll |-> Group2(s)]

\* modifiers() and nolevel_nogroup_noctrl_modifiers() (lines 504-520): the
\* INPUT_MODIFIER flags sent with a key, as a set of their names.
Modifiers(s) ==
    {f \in {"CONTROL", "LEVEL2", "LEVEL3", "GROUP2", "SUPER"} :
        CASE f = "CONTROL" -> Control(s)
          [] f = "LEVEL2" -> Level2Lock(s) \/ Level2(s)
          [] f = "LEVEL3" -> Alt(s) \/ Level3Lock(s) \/ Level3(s)
          [] f = "GROUP2" -> Group2(s)
          [] f = "SUPER" -> Super(s)}
NolevelNogroupNoctrlModifiers(s) == IF Super(s) THEN {"SUPER"} ELSE {}

\* The column of a key's row of actions that a state selects (lines
\* 522-552): level 2 (flipped by the caps or num lock for capsable and
\* numable keys) adds 1, control 2, level 3 (alt for function keys) 4 and
\* group 2 8.
Bit(b, n) == IF b THEN n ELSE 0
HigherBits(s, third) == Bit(Control(s), 2) + Bit(third, 4) + Bit(Group2(s), 8)
ShiftableIndex(s) == Bit(Level2Lock(s) \/ Level2(s), 1) + HigherBits(s, Level3Lock(s) \/ Level3(s))
CapsableIndex(s) ==
    Bit((CapsLock(s) \/ Level2Lock(s)) # Level2(s), 1) + HigherBits(s, Level3Lock(s) \/ Level3(s))
NumableIndex(s) == Bit(NumLock(s) # Level2(s), 1) + HigherBits(s, Level3Lock(s) \/ Level3(s))
FuncableIndex(s) == Bit(Level2Lock(s) \/ Level2(s), 1) + HigherBits(s, Alt(s))

\* query_kbdmap_parameter(cmd) (lines 585-597).  -1U, for an unknown
\* command, is any column past the last.
NoColumn == 16
QueryKbdmapParameter(s, cmd) ==
    CASE cmd = "p" -> 0
      [] cmd = "n" -> NumableIndex(s)
      [] cmd = "c" -> CapsableIndex(s)
      [] cmd = "s" -> ShiftableIndex(s)
      [] cmd = "f" -> FuncableIndex(s)
      [] OTHER -> NoColumn

\* lock_state ^= bits.
Toggle(set, bits) == (set \ bits) \cup (bits \ set)

\* The lock toggled by a press (value 1) only, not by autorepeat (2).
LockToggle(s, bits, v) == IF v = 1 THEN Toggle(s.lock, bits) ELSE s.lock

\* event(k, cmd, v) (lines 554-581): a momentary modifier is held while its
\* key is down, a latch is set by a press or repeat, a lock toggles; then
\* a press of either level 2 key releases the level 2 lock.  Only latches
\* and locks mark the LEDs dirty.
Event(s, k, cmd, v) ==
    LET bits == {k}
        after == CASE cmd = KBDMAP_MODIFIER_CMD_MOMENTARY ->
                        [s EXCEPT !.shift = IF v > 0 THEN @ \cup bits ELSE @ \ bits]
                   [] cmd = KBDMAP_MODIFIER_CMD_LATCH /\ v > 0 ->
                        [s EXCEPT !.latch = @ \cup bits, !.dirty_LEDs = TRUE]
                   [] cmd = KBDMAP_MODIFIER_CMD_LOCK ->
                        [s EXCEPT !.lock = LockToggle(s, bits, v), !.dirty_LEDs = @ \/ v = 1]
                   [] OTHER -> s
    IN IF v = 1 /\ bits \cap {KBDMAP_MODIFIER_1ST_LEVEL2, KBDMAP_MODIFIER_2ND_LEVEL2} # {}
       THEN [after EXCEPT !.lock = @ \ {KBDMAP_MODIFIER_LEVEL2}]
       ELSE after

\* unlatch() (lines 583-590).
Unlatch(s) == [s EXCEPT !.latch = {}, !.dirty_LEDs = @ \/ s.latch # {}]

\* clean_LEDs() (line 373).
CleanLEDs(s) == [s EXCEPT !.dirty_LEDs = FALSE]
=============================================================================
