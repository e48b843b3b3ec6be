------------------------------- MODULE Stream -------------------------------
(***************************************************************************)
(* What a byte relay promises: what the reader has received is always an  *)
(* initial part of what the writer has produced.  Bytes may be held back  *)
(* and may be lost at the end, but are never reordered, duplicated or     *)
(* invented.  The writer appends one item at a time; a delivery hands the *)
(* reader one or more of the next items in order.                         *)
(***************************************************************************)
EXTENDS Sequences, SequencesExt

VARIABLES produced, received

vars == <<produced, received>>

Init == produced = <<>> /\ received = <<>>

\* The writer appends one item.
Produce ==
    /\ Len(produced') = Len(produced) + 1
    /\ IsPrefix(produced, produced')
    /\ UNCHANGED received

\* The reader is handed the next items of what has been produced.
Deliver ==
    /\ IsStrictPrefix(received, received')
    /\ IsPrefix(received', produced)
    /\ UNCHANGED produced

Next == Produce \/ Deliver

Spec == Init /\ [][Next]_vars
=============================================================================
