-------------------------------- MODULE Evdev --------------------------------
(***************************************************************************)
(* class HID of console-fb-realizer.cpp for Linux (lines 3240-3564): an  *)
(* evdev device.  A read gives whole input_event records [type, code,     *)
(* value] (the kernel never returns part of one), at most the sixteen the *)
(* buffer holds; each goes to the Realizer's pointer handlers (Pointer)   *)
(* or, for a key, through the keycode table to handle_keyboard.  Codes    *)
(* and keymap indices are kept as their names: the KBDMAP_INDEX values    *)
(* are defined outside this repository.  The state is a record [ptr,      *)
(* keys]: the pointer, and the <<index, value>> pairs handle_keyboard was *)
(* given, in order.                                                       *)
(***************************************************************************)
EXTENDS Integers, Sequences

LOCAL PT == INSTANCE Pointer

\* sizeof buffer / sizeof *buffer (line 3446).
BufferEvents == 16

\* The maximum handle_mouse_abspos is told every absolute axis has
\* (line 3537); the device's own range is never asked for.
AbsMaximum == 32767

\* linux_evdev_keycode_to_keymap_index (lines 3249-3431), in two halves:
\* the main block, ESC to F24 (3254-3353; KEY_LINEFEED, line 3294, falls
\* through to the bypass), then the editing, keypad and multimedia keys.
MainKeys == [
    KEY_ESC |-> "ESC", KEY_1 |-> "1", KEY_2 |-> "2", KEY_3 |-> "3",
    KEY_4 |-> "4", KEY_5 |-> "5", KEY_6 |-> "6", KEY_7 |-> "7",
    KEY_8 |-> "8", KEY_9 |-> "9", KEY_0 |-> "0", KEY_MINUS |-> "MINUS",
    KEY_EQUAL |-> "EQUALS", KEY_BACKSPACE |-> "BACKSPACE", KEY_TAB |-> "TAB",
    KEY_Q |-> "Q", KEY_W |-> "W", KEY_E |-> "E", KEY_R |-> "R",
    KEY_T |-> "T", KEY_Y |-> "Y", KEY_U |-> "U", KEY_I |-> "I",
    KEY_O |-> "O", KEY_P |-> "P", KEY_LEFTBRACE |-> "LEFTBRACE",
    KEY_RIGHTBRACE |-> "RIGHTBRACE", KEY_ENTER |-> "RETURN", KEY_A |-> "A",
    KEY_S |-> "S", KEY_D |-> "D", KEY_F |-> "F", KEY_G |-> "G",
    KEY_H |-> "H", KEY_J |-> "J", KEY_K |-> "K", KEY_L |-> "L",
    KEY_SEMICOLON |-> "SEMICOLON", KEY_APOSTROPHE |-> "APOSTROPHE",
    KEY_GRAVE |-> "GRAVE", KEY_BACKSLASH |-> "EUROPE1", KEY_Z |-> "Z",
    KEY_X |-> "X", KEY_C |-> "C", KEY_V |-> "V", KEY_B |-> "B",
    KEY_N |-> "N", KEY_M |-> "M", KEY_COMMA |-> "COMMA", KEY_DOT |-> "DOT",
    KEY_SLASH |-> "SLASH", KEY_102ND |-> "EUROPE2", KEY_YEN |-> "YEN",
    KEY_LEFTSHIFT |-> "SHIFT1", KEY_RIGHTSHIFT |-> "SHIFT2",
    KEY_RIGHTALT |-> "OPTION", KEY_LEFTCTRL |-> "CONTROL1",
    KEY_RIGHTCTRL |-> "CONTROL2", KEY_LEFTMETA |-> "SUPER1",
    KEY_RIGHTMETA |-> "SUPER2", KEY_LEFTALT |-> "ALT",
    KEY_CAPSLOCK |-> "CAPSLOCK", KEY_SCROLLLOCK |-> "SCROLLLOCK",
    KEY_NUMLOCK |-> "NUMLOCK", KEY_RO |-> "ROMAJI",
    KEY_KATAKANAHIRAGANA |-> "KATAHIRA",
    KEY_ZENKAKUHANKAKU |-> "HALF_FULL_WIDTH", KEY_HIRAGANA |-> "HIRAGANA",
    KEY_KATAKANA |-> "KATAKANA", KEY_HENKAN |-> "HENKAN",
    KEY_MUHENKAN |-> "MUHENKAN", KEY_HANGEUL |-> "HANGUL_ENGLISH",
    KEY_HANJA |-> "HANJA", KEY_COMPOSE |-> "COMPOSE", KEY_SPACE |-> "SPACE",
    KEY_F1 |-> "F1", KEY_F2 |-> "F2", KEY_F3 |-> "F3", KEY_F4 |-> "F4",
    KEY_F5 |-> "F5", KEY_F6 |-> "F6", KEY_F7 |-> "F7", KEY_F8 |-> "F8",
    KEY_F9 |-> "F9", KEY_F10 |-> "F10", KEY_F11 |-> "F11", KEY_F12 |-> "F12",
    KEY_F13 |-> "F13", KEY_F14 |-> "F14", KEY_F15 |-> "F15",
    KEY_F16 |-> "F16", KEY_F17 |-> "F17", KEY_F18 |-> "F18",
    KEY_F19 |-> "F19", KEY_F20 |-> "F20", KEY_F21 |-> "F21",
    KEY_F22 |-> "F22", KEY_F23 |-> "F23", KEY_F24 |-> "F24"
]
ExtraKeys == [
    KEY_HOME |-> "HOME", KEY_UP |-> "UP_ARROW", KEY_PAGEUP |-> "PAGE_UP",
    KEY_LEFT |-> "LEFT_ARROW", KEY_RIGHT |-> "RIGHT_ARROW",
    KEY_END |-> "END", KEY_DOWN |-> "DOWN_ARROW",
    KEY_PAGEDOWN |-> "PAGE_DOWN", KEY_INSERT |-> "INSERT",
    KEY_DELETE |-> "DELETE", KEY_KPASTERISK |-> "KP_ASTERISK",
    KEY_KP7 |-> "KP_7", KEY_KP8 |-> "KP_8", KEY_KP9 |-> "KP_9",
    KEY_KPMINUS |-> "KP_MINUS", KEY_KP4 |-> "KP_4", KEY_KP5 |-> "KP_5",
    KEY_KP6 |-> "KP_6", KEY_KPPLUS |-> "KP_PLUS", KEY_KP1 |-> "KP_1",
    KEY_KP2 |-> "KP_2", KEY_KP3 |-> "KP_3", KEY_KP0 |-> "KP_0",
    KEY_KPDOT |-> "KP_DECIMAL", KEY_KPENTER |-> "KP_ENTER",
    KEY_KPSLASH |-> "KP_SLASH", KEY_KPJPCOMMA |-> "KP_JPCOMMA",
    KEY_KPCOMMA |-> "KP_THOUSANDS", KEY_KPEQUAL |-> "KP_EQUALS",
    KEY_KPPLUSMINUS |-> "KP_SIGN", KEY_KPLEFTPAREN |-> "KP_LBRACKET",
    KEY_KPRIGHTPAREN |-> "KP_RBRACKET", KEY_PAUSE |-> "PAUSE",
    KEY_SYSRQ |-> "ATTENTION", KEY_STOP |-> "STOP", KEY_AGAIN |-> "AGAIN",
    KEY_PROPS |-> "PROPERTIES", KEY_UNDO |-> "UNDO", KEY_REDO |-> "REDO",
    KEY_COPY |-> "COPY", KEY_OPEN |-> "OPEN", KEY_PASTE |-> "PASTE",
    KEY_FIND |-> "FIND", KEY_CUT |-> "CUT", KEY_HELP |-> "HELP",
    KEY_MUTE |-> "MUTE", KEY_VOLUMEDOWN |-> "VOLUME_DOWN",
    KEY_VOLUMEUP |-> "VOLUME_UP", KEY_CALC |-> "CALCULATOR",
    KEY_FILE |-> "FILE_MANAGER", KEY_WWW |-> "WWW",
    KEY_HOMEPAGE |-> "HOME_PAGE", KEY_REFRESH |-> "REFRESH",
    KEY_MAIL |-> "MAIL", KEY_BOOKMARKS |-> "BOOKMARKS",
    KEY_COMPUTER |-> "COMPUTER", KEY_BACK |-> "BACK",
    KEY_FORWARD |-> "FORWARD", KEY_SCREENLOCK |-> "LOCK",
    KEY_MSDOS |-> "CLI", KEY_NEXTSONG |-> "NEXT_TRACK",
    KEY_PREVIOUSSONG |-> "PREV_TRACK", KEY_PLAYPAUSE |-> "PLAY_PAUSE",
    KEY_STOPCD |-> "STOP_PLAYING", KEY_RECORD |-> "RECORD",
    KEY_REWIND |-> "REWIND", KEY_FASTFORWARD |-> "FAST_FORWARD",
    KEY_EJECTCD |-> "EJECT", KEY_NEW |-> "NEW", KEY_EXIT |-> "EXIT",
    KEY_POWER |-> "POWER", KEY_SLEEP |-> "SLEEP", KEY_WAKEUP |-> "WAKE"
]
\* 0xFFFF: by common convention, bypass.
BYPASS == "BYPASS"
LinuxEvdevKeycodeToKeymapIndex(k) ==
    IF k \in DOMAIN MainKeys THEN MainKeys[k]
    ELSE IF k \in DOMAIN ExtraKeys THEN ExtraKeys[k] ELSE BYPASS

\* The buttons numbered in the kernel's code order.
MouseButtonsInCodeOrder == [BTN_LEFT |-> 0, BTN_RIGHT |-> 1, BTN_MIDDLE |-> 2, BTN_SIDE |-> 3,
                            BTN_EXTRA |-> 4, BTN_FORWARD |-> 5, BTN_BACK |-> 6, BTN_TASK |-> 7]

\* The mouse buttons handled before the keycode table (lines 3551-3558).
MouseButtons == [BTN_LEFT |-> 0, BTN_MIDDLE |-> 1, BTN_RIGHT |-> 2, BTN_SIDE |-> 3,
                 BTN_EXTRA |-> 4, BTN_FORWARD |-> 5, BTN_BACK |-> 6, BTN_TASK |-> 7]

\* TranslateAbsAxis and TranslateRelAxis (lines 3493-3519); -1, an axis
\* handle_mouse_abspos and handle_mouse_relpos do not know, is "NONE".
TranslateAbsAxis(code) ==
    CASE code = "ABS_X" -> "X" [] code = "ABS_Y" -> "Y" [] code = "ABS_Z" -> "Z" [] OTHER -> "NONE"
TranslateRelAxis(code) ==
    CASE code = "REL_WHEEL" -> "V_SCROLL" [] code = "REL_HWHEEL" -> "H_SCROLL"
      [] code = "REL_X" -> "X" [] code = "REL_Y" -> "Y" [] code = "REL_Z" -> "Z" [] OTHER -> "NONE"

InitialState == [ptr |-> PT!InitialPointer, keys |-> <<>>]

\* HIDBase::handle_keyboard(r, index, v) (lines 2895-2904): the bypass
\* index is dropped, any other goes on to the keyboard map.
HandleKeyboard(st, index, v) ==
    IF index = BYPASS THEN st ELSE [st EXCEPT !.keys = Append(@, <<index, v>>)]

\* One pass of the loop (lines 3533-3562); the button's value, an int32,
\* is passed as a bool.  Events of other types (EV_SYN, EV_MSC) are
\* ignored.
HandleEvent(st, e, xres, yres) ==
    CASE e.type = "EV_ABS" ->
           [st EXCEPT !.ptr = PT!HandleMouseAbspos(@, TranslateAbsAxis(e.code), e.value, AbsMaximum, xres, yres)]
      [] e.type = "EV_REL" ->
           [st EXCEPT !.ptr = PT!HandleMouseRelpos(@, TranslateRelAxis(e.code), e.value, xres, yres)]
      [] e.type = "EV_KEY" /\ e.code \in DOMAIN MouseButtons ->
           [st EXCEPT !.ptr = PT!HandleMouseButton(@, MouseButtons[e.code], e.value # 0)]
      [] e.type = "EV_KEY" ->
           HandleKeyboard(st, LinuxEvdevKeycodeToKeymapIndex(e.code), e.value)
      [] OTHER -> st

\* handle_input_events (lines 3521-3564): one read of at most
\* BufferEvents events, which are handled in order; the rest wait in the
\* kernel for the next read.
RECURSIVE HandleEvents(_, _, _, _)
HandleEvents(st, events, xres, yres) ==
    IF events = <<>> THEN st
    ELSE HandleEvents(HandleEvent(st, Head(events), xres, yres), Tail(events), xres, yres)
HandleInputEvents(st, events, xres, yres) ==
    HandleEvents(st, IF Len(events) <= BufferEvents THEN events ELSE SubSeq(events, 1, BufferEvents),
                 xres, yres)
=============================================================================
