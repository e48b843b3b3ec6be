------------------------------ MODULE PtyRunMC ------------------------------
(***************************************************************************)
(* Model-checking harness for PtyRun: the relay's promises as refinements *)
(* of Stream, termination, and the exit status pty-run reports.           *)
(***************************************************************************)
EXTENDS PtyRun

TypeOK ==
    /\ pc \in {"top", "poll", "blocked", "interrupted", "finish", "done"}
    /\ stop_flags \subseteq StopSignals /\ forwarded \subseteq StopSignals
    /\ status \in ExitCodes \cup {Killed, Stopped}
    /\ {child_signalled, window_resized, program_continued, ine, oute, stdin_eof}
         \subseteq BOOLEAN
    /\ inb \in Seq(1..NIn) /\ Len(inb) <= BufCap
    /\ outb \in Seq(1..NOut) /\ Len(outb) <= BufCap
    /\ Len(pty_out) <= PtyOutCap /\ Len(pty_in) <= PtyInCap
    /\ child \in {"running", "stopped", "closed", "zombie", "reaped"}
    /\ report \in ExitCodes \cup {Killed, Stopped, None}
    /\ result \in ExitCodes \cup {TempFail, None}
    /\ written \in 0..NOut /\ typed \in 0..NIn /\ taken \in 0..typed

\* The child's output as written, and its input as typed.
ChildOutput == [i \in 1..written |-> i]
TypedInput == [i \in 1..typed |-> i]

OutStream == INSTANCE Stream WITH produced <- ChildOutput, received <- delivered
InStream == INSTANCE Stream WITH produced <- TypedInput, received <- consumed

\* The output relay (master read into outb, partial writes to stdout with
\* the memmove of line 277) hands stdout the child's bytes in order, with
\* nothing duplicated, skipped or invented.
OutputRelayedInOrder == OutStream!Spec

\* The input relay (stdin read into inb, partial writes to the master with
\* the memmove of line 297) hands the child the typed bytes in order.
InputRelayedInOrder == InStream!Spec

\* When pty-run exits after its child ended with an exit code, and no stop
\* signal cut the relay short, standard output has received everything the
\* child wrote: the hangup (line 291) ends the output only after the master
\* read of the same iteration, and the loop of line 172 runs until outl is 0.
OutputComplete ==
    pc = "done" /\ outcome \in ExitCodes /\ stop_flags = {} => delivered = ChildOutput

\* A child that ends with an exit code ends pty-run: the hangup, SIGCHLD
\* and the draining of outb leave the loop of line 172 and the exit path.
NormalExitEndsRelay ==
    (child \in {"zombie", "reaped"} /\ outcome \in ExitCodes) ~> (pc = "done")

\* pty-run exits only after its child has ended, and with the child's
\* exit status (TempFail when it was killed by a signal), as its throw at
\* line 308 intends.
ExitStatusRelayed ==
    pc = "done" => /\ child \in {"zombie", "reaped"}
                   /\ result = ExitStatus(outcome)

=============================================================================
