--------------------------- MODULE TermParserMC ---------------------------
(***************************************************************************)
(* The parser on its own, fed any character of a small alphabet with any   *)
(* combination of the decoder flags (the UTF-8 decoder that sets them is   *)
(* not part of the repository).  The history variable `raw`, kept only    *)
(* for checking, holds the parameter bytes received since the control     *)
(* sequence began.                                                         *)
(***************************************************************************)
EXTENDS TermParser, SequencesExt

CONSTANTS
    Chars,       \* the code points written
    Rows,        \* h, the row count ControlSequence defaults 'r' to
    MaxParams    \* bound on the parameter bytes of one control sequence

VARIABLE raw

vars == <<parser_vars, op, raw>>

MCInit ==
    /\ Init
    /\ raw = <<>>

\* The history: a control sequence begins when the parser enters CONTROL
\* from another state or reads CSI inside one; every parameter byte it
\* keeps is appended.
Record(c) ==
    raw' = IF pstate' = "CONTROL" /\ (pstate # "CONTROL" \/ c = CSI) THEN <<>>
           ELSE IF pstate' = "CONTROL" /\ ~IsControl(c) THEN Append(raw, c)
           ELSE raw

MCNext ==
    \E c \in Chars, de, ol \in BOOLEAN :
        /\ Write(c, de, ol, Rows)
        /\ Record(c)

MCSpec == MCInit /\ [][MCNext]_vars

ParamBound == Len(raw) <= MaxParams

TypeOK ==
    /\ pstate \in {"NORMAL", "ESCAPE1", "ESCAPE2", "CONTROL"}
    /\ intermediate \in 0..63
    /\ argc \in 0..ArgCap - 1
    /\ args \in [0..argc -> 0..9999]
    /\ seen_arg_digit \in BOOLEAN
    /\ op.kind \in {"none", "print", "ctl", "esc", "esc2", "csi"}

(***************************************************************************)
(* The reference decoding of a control sequence's parameter bytes, from    *)
(* the description of the format: optional leading flag bytes (the last    *)
(* one is the intermediate), then ';'-separated decimal fields, each       *)
(* saturating at 9999; an empty field is 0 unless it is the last, which    *)
(* takes the final character's default; CUP/HVP get at least two           *)
(* arguments and DECSTBM the pair (top, bottom) defaulting to (1, rows).   *)
(***************************************************************************)
IsFlag(c) == IsIntermediateOrParameter(c) /\ ~IsDigit(c) /\ c # Semicolon

FlagCount(s) == Len(s) - Len(SelectSeq(s, LAMBDA c : ~IsFlag(c)))

RECURSIVE Decimal(_)
Decimal(ds) == IF ds = <<>> THEN 0
               ELSE Decimal(Front(ds)) * 10 + (Last(ds) - 48)

RECURSIVE Fields(_)
Fields(s) ==
    LET k == SelectInSeq(s, LAMBDA c : c = Semicolon)
    IN  IF k = 0 THEN <<s>>
        ELSE <<SubSeq(s, 1, k - 1)>> \o Fields(SubSeq(s, k + 1, Len(s)))

FinalDefault(f, pos) ==
    CASE f \in {99, 103, 109, 74, 75} -> 0
      [] f = 114 -> IF pos = 1 THEN 1 ELSE Rows
      [] OTHER -> 1

RefInter(s) == IF FlagCount(s) = 0 THEN 0 ELSE s[FlagCount(s)]

RefArgs(s, f) ==
    LET fs  == Fields(SubSeq(s, FlagCount(s) + 1, Len(s)))
        val(i) == IF fs[i] # <<>> THEN IF Decimal(fs[i]) > 9999 THEN 9999 ELSE Decimal(fs[i])
                  ELSE IF i < Len(fs) THEN 0 ELSE FinalDefault(f, i)
        base == [i \in 1..Len(fs) |-> val(i)]
    IN  CASE f \in {72, 102} /\ Len(base) < 2 -> Append(base, 1)
          [] f = 114 /\ Len(base) < 2         -> Append(base, Rows)
          [] OTHER                            -> base

\* How many arguments the sequence finishes, defaults and padding included.
Finishes(s, f) ==
    Len(RefArgs(s, f)) + (IF f = 114 /\ Len(RefArgs(s, f)) >= 2 THEN 1 ELSE 0)

\* ControlSequence/FinishArg: a control sequence that fits the argument
\* array is dispatched with the flag byte and the arguments its parameter
\* bytes spell (DECSTBM: its first two), whatever controls, aborted
\* sequences or restarts came before it.
ArgsMatchReference ==
    [][op'.kind = "csi" /\ Finishes(raw, op'.ch) <= ArgCap - 1 =>
         /\ op'.inter = RefInter(raw)
         /\ IF op'.ch = 114 THEN SubSeq(op'.args, 1, 2) = RefArgs(raw, 114)
            ELSE op'.args = RefArgs(raw, op'.ch)]_vars

=============================================================================
