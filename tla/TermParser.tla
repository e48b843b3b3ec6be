---------------------------- MODULE TermParser ----------------------------
(***************************************************************************)
(* The input half of SoftTerm (src/source/SoftTerm.cpp): the ECMA-48       *)
(* decoder that turns a stream of UCS-4 code points into printable glyphs, *)
(* control functions, escape sequences and control sequences.              *)
(*                                                                         *)
(* State: SoftTerm::state, intermediate, args[], argc, seen_arg_digit.     *)
(* One step is one call of SoftTerm::Write(character, decoder_error,       *)
(* overlong).  What the step hands to the executing half of SoftTerm is    *)
(* recorded in `op`: the executor (SoftTerm.tla) enacts it in the same     *)
(* step.  Characters are their integer code points.                        *)
(*                                                                         *)
(* args[] is kept as a function on 0..argc: every slot above argc is       *)
(* written (by ResetArgs or FinishArg) before it is read, so the stale     *)
(* values the C++ array holds there are never observable.                  *)
(***************************************************************************)
EXTENDS Naturals, Sequences

CONSTANTS
    ArgCap     \* number of elements of SoftTerm::args (sizeof args/sizeof *args)

ASSUME ArgCap \in Nat /\ ArgCap >= 2

VARIABLES
    pstate,          \* SoftTerm::state
    intermediate,    \* the last intermediate character, 0 for none
    args,            \* args[0..argc]
    argc,
    seen_arg_digit,
    op               \* what this step asks the executor to do

parser_vars == <<pstate, intermediate, args, argc, seen_arg_digit>>

\* Control characters the parser itself interprets or that are named below.
ESC == 27
CAN == 24
CSI == 155
DEL == 127

IsControl(c) == c < 32 \/ (c >= 128 /\ c < 160) \/ c = DEL
IsIntermediateOrParameter(c) == c >= 32 /\ c < 64
IsIntermediate(c) == c >= 32 /\ c < 48
IsDigit(c) == c >= 48 /\ c <= 57
Semicolon == 59

\* The request handed to the executor.  kind: "none", "print" (Print),
\* "ctl" (the rest of ProcessControlCharacter), "esc" (ESC 6/7/8/9),
\* "esc2" (ESC intermediate final), "csi" (a dispatched control sequence).
Op(kind, ch, inter, list) == [kind |-> kind, ch |-> ch, inter |-> inter, args |-> list]
NoOp == Op("none", 0, 0, <<>>)

\* The argument accumulator as a record, so that FinishArg can be chained.
Acc == [args |-> args, argc |-> argc, seen |-> seen_arg_digit]

ResetArgs == [args |-> [i \in {0} |-> 0], argc |-> 0, seen |-> FALSE]

\* Mutations of FinishArg, for the mutation runs: one that never stops
\* growing the array, one that ignores the default of an empty argument.
FinishArgUnbounded(a, d) ==
    [argc |-> a.argc + 1, seen |-> FALSE,
     args |-> [i \in 0..a.argc + 1 |-> IF i <= a.argc THEN a.args[i] ELSE 0]]
FinishArgIgnoringDefault(a, d) ==
    IF a.argc >= ArgCap - 1 THEN [a EXCEPT !.seen = FALSE]
    ELSE [argc |-> a.argc + 1, seen |-> FALSE,
          args |-> [i \in 0..a.argc + 1 |-> IF i <= a.argc THEN a.args[i] ELSE 0]]

\* FinishArg: default an argument without digits; when the array is full
\* shift args[1..argc-1] down by one instead of growing; clear the next slot.
FinishArg(a, d) ==
    LET cur == IF a.seen THEN a.args[a.argc] ELSE d
    IN  IF a.argc >= ArgCap - 1
        THEN [a EXCEPT !.seen = FALSE,
                       !.args = [i \in 0..a.argc |->
                                   IF i + 1 < a.argc THEN a.args[i + 1]
                                   ELSE IF i = a.argc THEN 0 ELSE a.args[i]]]
        ELSE [argc |-> a.argc + 1, seen |-> FALSE,
              args |-> [i \in 0..a.argc + 1 |->
                          IF i < a.argc THEN a.args[i]
                          ELSE IF i = a.argc THEN cur ELSE 0]]

\* args[0..argc-1] as the sequence the dispatched command reads.
ArgList(a) == [i \in 1..a.argc |-> a.args[i - 1]]

SetAcc(a) == args' = a.args /\ argc' = a.argc /\ seen_arg_digit' = a.seen

\* SoftTerm::SoftTerm: argc 0, no digit, state NORMAL.  args[0] is left
\* uninitialised by the constructor but is rewritten by ResetArgs before the
\* first read (only CONTROL reads it, and CONTROL is entered through CSI).
Init ==
    /\ pstate = "NORMAL"
    /\ intermediate = 0
    /\ args = [i \in {0} |-> 0]
    /\ argc = 0
    /\ seen_arg_digit = FALSE
    /\ op = NoOp

\* The parser's part of ProcessControlCharacter: ESC, CSI and CAN change the
\* parser state; every other control is passed on and `stay` is kept
\* (the state the caller left: Write keeps the current one, Escape1 has
\* already set NORMAL).
ProcessControlCharacter(c, stay) ==
    CASE c = ESC -> /\ pstate' = "ESCAPE1" /\ intermediate' = 0
                    /\ UNCHANGED <<args, argc, seen_arg_digit>> /\ op' = NoOp
      [] c = CSI -> /\ pstate' = "CONTROL" /\ intermediate' = 0
                    /\ SetAcc(ResetArgs) /\ op' = NoOp
      [] c = CAN -> /\ pstate' = "NORMAL" /\ op' = NoOp
                    /\ UNCHANGED <<intermediate, args, argc, seen_arg_digit>>
      [] OTHER   -> /\ pstate' = stay /\ op' = Op("ctl", c, 0, <<>>)
                    /\ UNCHANGED <<intermediate, args, argc, seen_arg_digit>>

\* Escape1: ESC Fe is the 7-bit form of the C1 control c + 0x40; an
\* intermediate leads to ESCAPE2; ESC 6/7/8/9 are passed on; ESC c (RIS)
\* and every other final only return to NORMAL.
Escape1(c) ==
    \/ /\ c >= 64 /\ c <= 95
       /\ ProcessControlCharacter(c + 64, "NORMAL")
    \/ /\ IsIntermediate(c)
       /\ pstate' = "ESCAPE2" /\ intermediate' = c /\ op' = NoOp
       /\ UNCHANGED <<args, argc, seen_arg_digit>>
    \/ /\ ~(c >= 64 /\ c <= 95) /\ ~IsIntermediate(c)
       /\ pstate' = "NORMAL"
       /\ op' = IF c \in 54..57 THEN Op("esc", c, 0, <<>>) ELSE NoOp
       /\ UNCHANGED <<intermediate, args, argc, seen_arg_digit>>

\* Escape2: further intermediates replace the kept one; any other character
\* ends the sequence (ESC SP F/G and ESC # 8 are the ones enacted).
Escape2(c) ==
    \/ /\ IsIntermediate(c)
       /\ intermediate' = c /\ op' = NoOp
       /\ UNCHANGED <<pstate, args, argc, seen_arg_digit>>
    \/ /\ ~IsIntermediate(c)
       /\ pstate' = "NORMAL" /\ op' = Op("esc2", c, intermediate, <<>>)
       /\ UNCHANGED <<intermediate, args, argc, seen_arg_digit>>

\* The argument defaults ControlSequence applies for each final character:
\* c g m J K default to 0; H f to 1 and at least two arguments; r to
\* (1, rows); every other final to 1.
FinishFinal(a, c, rows) ==
    CASE c \in {99, 103, 109, 74, 75} -> FinishArg(a, 0)
      [] c \in {72, 102} ->
            LET a1 == FinishArg(a, 1) IN IF a1.argc < 2 THEN FinishArg(a1, 1) ELSE a1
      [] c = 114 ->
            LET a1 == FinishArg(a, IF a.argc < 1 THEN 1 ELSE rows)
            IN  FinishArg(a1, IF a1.argc < 2 THEN rows ELSE 0)
      [] OTHER -> FinishArg(a, 1)

\* ControlSequence: digits accumulate (saturating at 9999 once above 999),
\* ';' finishes an argument, any other parameter byte is a flag only before
\* the first argument and otherwise abandons the sequence; a final
\* character finishes the last argument and dispatches.  `rows` is h.
ControlSequence(c, rows) ==
    \/ /\ IsDigit(c)
       /\ seen_arg_digit' = TRUE
       /\ args' = [args EXCEPT ![argc] = IF @ > 999 THEN 9999 ELSE @ * 10 + (c - 48)]
       /\ op' = NoOp /\ UNCHANGED <<pstate, intermediate, argc>>
    \/ /\ c = Semicolon
       /\ SetAcc(FinishArg(Acc, 0)) /\ op' = NoOp
       /\ UNCHANGED <<pstate, intermediate>>
    \/ /\ IsIntermediateOrParameter(c) /\ ~IsDigit(c) /\ c # Semicolon
       /\ IF argc = 0 /\ ~seen_arg_digit
          THEN intermediate' = c /\ UNCHANGED pstate
          ELSE pstate' = "NORMAL" /\ UNCHANGED intermediate
       /\ op' = NoOp /\ UNCHANGED <<args, argc, seen_arg_digit>>
    \/ /\ ~IsIntermediateOrParameter(c)
       /\ LET a == FinishFinal(Acc, c, rows)
          IN  /\ SetAcc(a)
              /\ op' = Op("csi", c, intermediate, ArgList(a))
       /\ pstate' = "NORMAL" /\ UNCHANGED intermediate

PrintCharacter(c) == op' = Op("print", c, 0, <<>>) /\ UNCHANGED parser_vars

\* SoftTerm::Write.  In CONTROL a decoder error or an overlong sequence only
\* abandons the sequence: the branch that would print the overlong
\* character there is unreachable.
Write(c, decoder_error, overlong, rows) ==
    CASE pstate = "NORMAL" ->
            IF decoder_error \/ overlong \/ ~IsControl(c) THEN PrintCharacter(c)
            ELSE ProcessControlCharacter(c, pstate)
      [] pstate \in {"ESCAPE1", "ESCAPE2"} ->
            CASE decoder_error -> pstate' = "NORMAL" /\ op' = NoOp
                                  /\ UNCHANGED <<intermediate, args, argc, seen_arg_digit>>
              [] overlong -> pstate' = "NORMAL" /\ op' = Op("print", c, 0, <<>>)
                             /\ UNCHANGED <<intermediate, args, argc, seen_arg_digit>>
              [] IsControl(c) -> ProcessControlCharacter(c, pstate)
              [] pstate = "ESCAPE1" -> Escape1(c)
              [] OTHER -> Escape2(c)
      [] pstate = "CONTROL" ->
            CASE decoder_error \/ overlong ->
                    pstate' = "NORMAL" /\ op' = NoOp
                    /\ UNCHANGED <<intermediate, args, argc, seen_arg_digit>>
              [] IsControl(c) -> ProcessControlCharacter(c, pstate)
              [] OTHER -> ControlSequence(c, rows)
=============================================================================
