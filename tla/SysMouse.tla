------------------------------- MODULE SysMouse -------------------------------
(***************************************************************************)
(* class SysMouse of console-fb-realizer.cpp (lines 3783-3813, 4045-4163): *)
(* the FreeBSD sysmouse device, read in the Mouse Systems protocol.  A    *)
(* packet is a sync byte holding the three standard buttons, two X and    *)
(* two Y offsets (level 0, 5 bytes), then at level 1 two 7-bit Z offsets  *)
(* and a byte of seven extra buttons (8 bytes).  Button bits are set when *)
(* the button is up.  The driver may switch level under the reader, so    *)
(* each packet's level is guessed from the bytes that follow it.  The     *)
(* state is a record [buffer, stdbuttons, extbuttons, ptr]: the bytes     *)
(* read and not consumed, the buttons last seen, and the Realizer's       *)
(* pointer (Pointer), for a framebuffer of xres by yres pixels.           *)
(***************************************************************************)
EXTENDS Integers, Sequences, Bitwise

LOCAL PT == INSTANCE Pointer

\* From <sys/mouse.h>.
MOUSE_MSC_PACKETSIZE == 5
MOUSE_SYS_PACKETSIZE == 8
MOUSE_SYS_SYNCMASK == 248
MOUSE_SYS_SYNC == 128
MOUSE_SYS_STDBUTTONS == 7
MOUSE_SYS_EXTBUTTONS == 127
MOUSE_MSC_MAXBUTTON == 3
MOUSE_SYS_MAXBUTTON == 10

\* The buffer holds sixteen level 1 packets (line 3795).
BufferSize == MOUSE_SYS_PACKETSIZE * 16

\* IsSync, Extend7to8, GetOffset8 and GetOffset7 (lines 4074-4100).
IsSync(b) == (b & MOUSE_SYS_SYNCMASK) = MOUSE_SYS_SYNC
Extend7to8(v) == (v & 127) | ((v & 64) * 2)
Int8(v) == IF v >= 128 THEN v - 256 ELSE v
GetOffset8(one, two) == Int8(one) + Int8(two)
GetOffset7(one, two) == GetOffset8(Extend7to8(one), Extend7to8(two))

\* TranslateStdButton (lines 4102-4113): the protocol's buttons are right,
\* middle, left; the Realizer's left, middle, right.
TranslateStdButton(button) == CASE button = 0 -> 2 [] button = 1 -> 1 [] button = 2 -> 0 [] OTHER -> -1

\* The constructor (lines 4045-4054): stdbuttons and extbuttons 0, which
\* reads as every button down.
InitialState == [buffer |-> <<>>, stdbuttons |-> 0, extbuttons |-> 0, ptr |-> PT!InitialPointer]

\* The leading bytes that are not a sync byte, dropped one at a time.
RECURSIVE SkipToSync(_)
SkipToSync(b) == IF b # <<>> /\ ~IsSync(Head(b)) THEN SkipToSync(Tail(b)) ELSE b

\* One pass of a button loop: for each of n buttons whose up bit changed,
\* in ascending order, the button is reported, down when its bit is clear.
RECURSIVE Buttons(_, _, _, _, _, _)
Buttons(ptr, old, new, button, n, base) ==
    IF button >= n THEN ptr
    ELSE LET mask == 2 ^ button
             p == IF (old & mask) # (new & mask)
                  THEN PT!HandleMouseButton(ptr, IF base = 0 THEN TranslateStdButton(button) ELSE button + base,
                                            (new & mask) = 0)
                  ELSE ptr
         IN Buttons(p, old, new, button + 1, n, base)

\* A packet taken for level 1 whenever eight bytes are there.
ExtPacketByLength(b) == Len(b) >= MOUSE_SYS_PACKETSIZE

\* Line 4134: the packet is taken for level 1 when the three bytes after
\* its first five are there and none of them is a sync byte.
ExtPacket(b) == Len(b) >= MOUSE_SYS_PACKETSIZE /\ ~IsSync(b[6]) /\ ~IsSync(b[7]) /\ ~IsSync(b[8])

\* The body of the loop (lines 4129-4161) for the packet at the front of
\* b: X, then Y negated, then, when the three bytes after the first five
\* are there and none is a sync byte, Z; the standard buttons; the extra
\* buttons when the packet was taken for level 1.
Packet(st, b, xres, yres) ==
    LET dx == GetOffset8(b[2], b[4])
        dy == GetOffset8(b[3], b[5])
        ext == ExtPacket(b)
        dz == IF ext THEN GetOffset7(b[6], b[7]) ELSE 0
        p1 == IF dx # 0 THEN PT!HandleMouseRelpos(st.ptr, "X", dx, xres, yres) ELSE st.ptr
        p2 == IF dy # 0 THEN PT!HandleMouseRelpos(p1, "Y", -dy, xres, yres) ELSE p1
        p3 == IF dz # 0 THEN PT!HandleMouseRelpos(p2, "V_SCROLL", dz, xres, yres) ELSE p2
        std == b[1] & MOUSE_SYS_STDBUTTONS
        p4 == Buttons(p3, st.stdbuttons, std, 0, MOUSE_MSC_MAXBUTTON, 0)
        extb == IF ext THEN b[8] & MOUSE_SYS_EXTBUTTONS ELSE st.extbuttons
        p5 == IF ext THEN Buttons(p4, st.extbuttons, extb, 0, MOUSE_SYS_MAXBUTTON - MOUSE_MSC_MAXBUTTON,
                                  MOUSE_MSC_MAXBUTTON)
              ELSE p4
        size == IF ext THEN MOUSE_SYS_PACKETSIZE ELSE MOUSE_MSC_PACKETSIZE
    IN [st EXCEPT !.ptr = p5, !.stdbuttons = std, !.extbuttons = extb,
                  !.buffer = SubSeq(b, size + 1, Len(b))]

\* The for (;;) loop: resynchronise, stop short of a level 0 packet.
RECURSIVE Packets(_, _, _)
Packets(st, xres, yres) ==
    LET b == SkipToSync(st.buffer)
    IN IF Len(b) < MOUSE_MSC_PACKETSIZE THEN [st EXCEPT !.buffer = b]
       ELSE Packets(Packet(st, b, xres, yres), xres, yres)

\* handle_input_events (lines 4117-4163): what one read returns, at most
\* the room left in the buffer, is appended and the packets in it handled.
Room(st, bytes) ==
    IF Len(bytes) <= BufferSize - Len(st.buffer) THEN bytes ELSE SubSeq(bytes, 1, BufferSize - Len(st.buffer))
HandleInputEvents(st, bytes, xres, yres) ==
    Packets([st EXCEPT !.buffer = @ \o Room(st, bytes)], xres, yres)
=============================================================================
