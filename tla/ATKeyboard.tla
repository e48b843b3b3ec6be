------------------------------ MODULE ATKeyboard ------------------------------
(***************************************************************************)
(* class ATKeyboard of console-fb-realizer.cpp (lines 3756-3780,          *)
(* 3958-4017): a FreeBSD atkbd device in keycode mode.  Every byte is a    *)
(* key code in its low seven bits and a release in bit 7; the keyboard    *)
(* repeats a held key by sending its code again, and the driver tells a   *)
(* repeat from a press by remembering which codes it saw go down.  The    *)
(* state is a record [pressed, keys]: the pressed array and the <<index,  *)
(* value>> pairs handed to handle_keyboard, in order.                     *)
(***************************************************************************)
EXTENDS Integers, Sequences

\* char buffer[16] (line 3769).
BufferSize == 16

\* The constructor (lines 3958-3968): no code pressed.
InitialState == [pressed |-> [code \in 0..255 |-> FALSE], keys |-> <<>>]

\* bsd_keycode_to_keymap_index is defined outside this repository; the
\* code stands for the keymap index it gives.
BsdKeycodeToKeymapIndex(code) == code

\* A repeat taken for a press: the value of a make code whatever was seen.
KeyValueIgnoringPressed(st, code, bit7) == IF bit7 THEN 0 ELSE 1

\* Line 4011: a release is 0, a make code of a key already down a repeat
\* (2), any other make code a press (1).
KeyValue(st, code, bit7) == IF bit7 THEN 0 ELSE IF st.pressed[code] THEN 2 ELSE 1

\* One pass of the loop (lines 4008-4015): the code, whether it was a
\* release, the pressed array updated, and the key handed on.
HandleByte(st, byte) ==
    LET bit7 == byte >= 128
        code == byte % 128
    IN [st EXCEPT !.pressed[code] = ~bit7,
                  !.keys = Append(@, <<BsdKeycodeToKeymapIndex(code), KeyValue(st, code, bit7)>>)]

\* handle_input_events (lines 3995-4017): one read, of at most the room
\* in the buffer; every byte read is handled, so the buffer is empty
\* after each read and the rest wait in the kernel.
RECURSIVE HandleBytes(_, _)
HandleBytes(st, bytes) ==
    IF bytes = <<>> THEN st ELSE HandleBytes(HandleByte(st, Head(bytes)), Tail(bytes))
HandleInputEvents(st, bytes) ==
    HandleBytes(st, IF Len(bytes) <= BufferSize THEN bytes ELSE SubSeq(bytes, 1, BufferSize))
=============================================================================
