------------------------------- MODULE PtyRun -------------------------------
(***************************************************************************)
(* pty-run (src/source/pty-run.cpp, the Linux build): the parent side of  *)
(* a pseudo-terminal.  It relays its standard input to the pty master and *)
(* the master's output to its standard output through two buffers, passes *)
(* SIGTERM/SIGINT/SIGHUP on to the child, and exits with the child's exit *)
(* status.  Signals are not blocked: the handler only sets flags, and a   *)
(* signal delivered while poll() sleeps makes it fail with EINTR (the     *)
(* handler is installed without SA_RESTART).                              *)
(*                                                                         *)
(* A byte is an item; items are numbered in the order they are written.   *)
(* The 1024-byte buffers inb and outb hold at most BufCap items and the   *)
(* pty's two queues PtyOutCap and PtyInCap items.  The child process is   *)
(* a writer of NOut items that reads what arrives, may stop, and ends     *)
(* with an exit code or killed by a signal.  Standard output is taken to  *)
(* be always writable, accepting part of a write.                         *)
(***************************************************************************)
EXTENDS Naturals, Sequences, SequencesExt

CONSTANTS
    PassThrough,   \* the --mirror option
    BufCap,        \* capacity of inb and outb
    PtyOutCap,     \* capacity of the pty's slave-to-master queue
    PtyInCap,      \* capacity of the pty's master-to-slave queue
    NOut,          \* items the child writes
    NIn,           \* items typed on standard input
    ExitCodes,     \* exit codes the child may end with (0 included)
    Killed,        \* the child is terminated by a signal
    TempFail,      \* EXIT_TEMPORARY_FAILURE
    Stopped,       \* the wait status of a stopped child
    None           \* no value

ASSUME 0 \in ExitCodes /\ BufCap >= 1 /\ PtyOutCap >= 1 /\ PtyInCap >= 1

StopSignals == {"TERM", "INT", "HUP"}

\* The signals whose handler pty-run installs (lines 99-112).
HandledSignals ==
    StopSignals \cup {"PIPE"} \cup (IF PassThrough THEN {"WINCH", "CONT"} ELSE {})

VARIABLES
    pc,                 \* "top" (loop test), "poll" (after the flag tests, before poll()),
                        \* "blocked" (in poll()), "interrupted" (a signal came while
                        \* blocked), "finish" (after the loop), "done"
    child_signalled, window_resized, program_continued,
    stop_flags,         \* terminate_signalled, interrupt_signalled, hangup_signalled
    status,             \* the wait status: an exit code, Killed or Stopped
    inb, outb, ine, oute,
    result,             \* the status pty-run exits with, None before it does
    child,              \* "running", "stopped", "closed" (its terminal is closed,
                        \* its parent not yet told), "zombie", "reaped"
    outcome,            \* how the child ended
    report,             \* the wait report the kernel holds for pty-run, or None
    written,            \* items the child has written
    pty_out, pty_in,    \* slave-to-master and master-to-slave queues
    consumed,           \* items the child has read
    typed, stdin_eof,   \* items typed on standard input; whether it is closed
    taken,              \* items pty-run has read from standard input
    delivered,          \* items written to standard output
    forwarded           \* signals passed on to the child

ptyrun == <<pc, child_signalled, window_resized, program_continued, stop_flags,
            status, inb, outb, ine, oute, result, forwarded, taken, delivered>>
kid == <<child, outcome, report, written, consumed>>
world == <<typed, stdin_eof>>
vars == <<ptyrun, kid, world, pty_out, pty_in>>

WIFEXITED(s) == s \in ExitCodes
Lesser(a, b) == IF a < b THEN a ELSE b
Asleep(p) == IF p = "blocked" THEN "interrupted" ELSE p
Hungup == child \in {"closed", "zombie", "reaped"}

Init ==
    /\ pc = "top"
    /\ child_signalled = FALSE /\ window_resized = FALSE
    /\ program_continued = TRUE
    /\ stop_flags = {}
    /\ status = 0
    /\ inb = <<>> /\ outb = <<>> /\ ine = FALSE /\ oute = FALSE
    /\ result = None /\ forwarded = {}
    /\ child = "running" /\ outcome = None /\ report = None
    /\ written = 0 /\ consumed = <<>>
    /\ pty_out = <<>> /\ pty_in = <<>>
    /\ typed = 0 /\ stdin_eof = FALSE /\ taken = 0 /\ delivered = <<>>

(***************************************************************************)
(* The child and the kernel.                                               *)
(***************************************************************************)
\* Tells the parent: a wait report and SIGCHLD, which interrupts poll().
Notify(r) ==
    /\ report' = r
    /\ child_signalled' = TRUE
    /\ pc' = Asleep(pc)

ChildWrite ==
    /\ child = "running" /\ written < NOut /\ Len(pty_out) < PtyOutCap
    /\ written' = written + 1
    /\ pty_out' = Append(pty_out, written + 1)
    /\ UNCHANGED <<ptyrun, world, child, outcome, report, consumed, pty_in>>

ChildRead ==
    /\ child = "running" /\ pty_in # <<>>
    /\ consumed' = Append(consumed, Head(pty_in))
    /\ pty_in' = Tail(pty_in)
    /\ UNCHANGED <<ptyrun, world, child, outcome, report, written, pty_out>>

ChildStop ==
    /\ child = "running"
    /\ child' = "stopped"
    /\ Notify(Stopped)
    /\ UNCHANGED <<stop_flags, status, inb, outb, ine, oute, result, forwarded,
                   taken, delivered, window_resized, program_continued,
                   outcome, written, consumed, world, pty_out, pty_in>>

\* The exiting child closes its terminal before its parent is notified.
ChildClose ==
    /\ child = "running"
    /\ \E o \in ExitCodes \cup {Killed} : outcome' = o
    /\ child' = "closed"
    /\ UNCHANGED <<ptyrun, world, report, written, consumed, pty_out, pty_in>>

ChildNotify ==
    /\ child = "closed"
    /\ child' = "zombie"
    /\ Notify(outcome)
    /\ UNCHANGED <<stop_flags, status, inb, outb, ine, oute, result, forwarded,
                   taken, delivered, window_resized, program_continued,
                   outcome, written, consumed, world, pty_out, pty_in>>

UserType ==
    /\ ~stdin_eof /\ typed < NIn
    /\ typed' = typed + 1
    /\ UNCHANGED <<ptyrun, kid, stdin_eof, pty_out, pty_in>>

UserClose ==
    /\ ~stdin_eof
    /\ stdin_eof' = TRUE
    /\ UNCHANGED <<ptyrun, kid, typed, pty_out, pty_in>>

\* handle_signal: a handled signal sets its flag and interrupts poll().
PtySignal(sig) ==
    /\ pc \in {"top", "poll", "blocked", "interrupted"}
    /\ sig \in HandledSignals
    /\ stop_flags' = IF sig \in StopSignals THEN stop_flags \cup {sig} ELSE stop_flags
    /\ window_resized' = (window_resized \/ sig = "WINCH")
    /\ program_continued' = (program_continued \/ sig = "CONT")
    /\ pc' = Asleep(pc)
    /\ UNCHANGED <<child_signalled, status, inb, outb, ine, oute, result,
                   forwarded, taken, delivered, kid, world, pty_out, pty_in>>

(***************************************************************************)
(* The main loop (lines 172-302) and the exit (lines 304-308).            *)
(***************************************************************************)
\* A loop condition that forgets the bytes still in outb.
KeepGoingUntilEof == ~WIFEXITED(status) \/ ~oute

\* The loop condition of line 172.
KeepGoing == ~WIFEXITED(status) \/ ~oute \/ outb # <<>>

LoopExit ==
    /\ pc = "top" /\ ~KeepGoing
    /\ pc' = "finish"
    /\ UNCHANGED <<child_signalled, window_resized, program_continued, stop_flags,
                   status, inb, outb, ine, oute, result, forwarded, taken,
                   delivered, kid, world, pty_out, pty_in>>

\* Lines 173-180: a stop signal is passed on unless the child is known to
\* have exited, and the loop is left.
StopRequested ==
    /\ pc = "top" /\ KeepGoing /\ stop_flags # {}
    /\ forwarded' = IF WIFEXITED(status) THEN forwarded ELSE forwarded \cup stop_flags
    /\ pc' = "finish"
    /\ UNCHANGED <<child_signalled, window_resized, program_continued, stop_flags,
                   status, inb, outb, ine, oute, result, taken, delivered,
                   kid, world, pty_out, pty_in>>

\* Lines 181-193: after SIGCHLD, waitpid(-1, WNOHANG|WUNTRACED) collects the
\* pending report into status; a stopped child is continued unless in
\* pass-through mode.
Reap ==
    IF child_signalled /\ report # None
    THEN /\ status' = report
         /\ report' = None
         /\ child' = CASE report # Stopped -> "reaped"
                       [] PassThrough      -> "stopped"
                       [] OTHER            -> "running"
    ELSE UNCHANGED <<status, report, child>>

\* Lines 173-207 when no stop flag is set: reap, then copy the window size
\* and terminal mode in pass-through mode, and go on to poll().
Prepare ==
    /\ pc = "top" /\ KeepGoing /\ stop_flags = {}
    /\ child_signalled' = FALSE
    /\ Reap
    /\ window_resized' = (window_resized /\ ~PassThrough)
    /\ program_continued' = (program_continued /\ ~PassThrough)
    /\ pc' = "poll"
    /\ UNCHANGED <<stop_flags, inb, outb, ine, oute, result, forwarded, taken,
                   delivered, outcome, written, consumed, world, pty_out, pty_in>>

\* Line 213: the signal-free path into poll().  A signal delivered after the
\* flag tests and before this step only sets its flag.
EnterPoll ==
    /\ pc = "poll"
    /\ pc' = "blocked"
    /\ UNCHANGED <<child_signalled, window_resized, program_continued, stop_flags,
                   status, inb, outb, ine, oute, result, forwarded, taken,
                   delivered, kid, world, pty_out, pty_in>>

\* The revents of lines 239-243.  POLLOUT is requested on stdout only when
\* outl is non-zero and on the master only when inl is (lines 210-211).
StdinReady == typed > taken \/ stdin_eof
StdoutReady == outb # <<>>
MasterInReady == pty_out # <<>>
MasterOutReady == inb # <<>> /\ Len(pty_in) < PtyInCap
MasterHangup == Hungup
AnyReady == StdinReady \/ StdoutReady \/ MasterInReady \/ MasterOutReady \/ MasterHangup

\* Lines 227-228: poll() failed with EINTR.
PollInterrupted ==
    /\ pc = "interrupted" /\ ~AnyReady
    /\ pc' = "top"
    /\ UNCHANGED <<child_signalled, window_resized, program_continued, stop_flags,
                   status, inb, outb, ine, oute, result, forwarded, taken,
                   delivered, kid, world, pty_out, pty_in>>

\* Lines 264-272: read(STDIN_FILENO, inb, sizeof inb) into an empty buffer.
StdinChunk == [i \in 1..Lesser(typed - taken, BufCap) |-> taken + i]

\* A write to stdout that shortens outl without the memmove.
StdoutRestNoMemmove(l) == SubSeq(outb, 1, Len(outb) - l)

\* Lines 273-281: what is left of outb after write() took l items.
StdoutRest(l) == SubSeq(outb, l + 1, Len(outb))

\* A master read that ignores the size of outb.
MasterChunkUnbounded == pty_out

\* Lines 282-290: read(PTY_MASTER_FILENO, outb, sizeof outb).
MasterChunk == SubSeq(pty_out, 1, Lesser(Len(pty_out), BufCap))

\* A write to the master that shortens inl without the memmove.
MasterRestNoMemmove(buf, n) == SubSeq(buf, 1, Len(buf) - n)

\* Lines 293-301: what is left of the input buffer after write() to the
\* master took n items.
MasterRest(buf, n) == SubSeq(buf, n + 1, Len(buf))

\* End of output relying on read() returning 0, as the BSD build's
\* EV_EOF flag and a Linux master's EIO do not give.
OutputEndedNoHangup == oute

\* Lines 291-292: POLLHUP on the master ends the output.
OutputEnded == oute \/ MasterHangup

\* Lines 238-301: poll() returned ready descriptors; the handlers run in
\* the code's order on the readiness poll() reported.
PollReturn ==
    /\ pc \in {"blocked", "interrupted"} /\ AnyReady
    /\ \E l \in IF StdoutReady THEN 1..Len(outb) ELSE {0} :
        LET readin == StdinReady /\ inb = <<>>
            in1    == IF readin THEN StdinChunk ELSE inb
            out1   == IF StdoutReady THEN StdoutRest(l) ELSE outb
            got    == IF MasterInReady /\ out1 = <<>> THEN MasterChunk ELSE <<>>
            n      == IF MasterOutReady /\ in1 # <<>>
                      THEN Lesser(Len(in1), PtyInCap - Len(pty_in)) ELSE 0
        IN /\ taken' = taken + (IF readin THEN Len(StdinChunk) ELSE 0)
           /\ ine' = (ine \/ (readin /\ StdinChunk = <<>>))
           /\ delivered' = delivered \o SubSeq(outb, 1, l)
           /\ outb' = out1 \o got
           /\ pty_out' = SubSeq(pty_out, Len(got) + 1, Len(pty_out))
           /\ oute' = OutputEnded
           /\ pty_in' = pty_in \o SubSeq(in1, 1, n)
           /\ inb' = MasterRest(in1, n)
    /\ pc' = "top"
    /\ UNCHANGED <<child_signalled, window_resized, program_continued, stop_flags,
                   status, result, forwarded, kid, world>>

\* The thrown exit status of line 308.
ExitStatus(s) == IF WIFEXITED(s) THEN s ELSE TempFail

\* Lines 306-308: waitpid(child, &status, 0) when the status is not an exit;
\* it blocks until the child ends, and fails, leaving status, once the child
\* has been reaped.
Finish ==
    /\ pc = "finish"
    /\ \/ /\ WIFEXITED(status)
          /\ UNCHANGED <<status, kid>>
       \/ /\ ~WIFEXITED(status)
          /\ child \in {"zombie", "reaped"}
          /\ status' = IF child = "zombie" THEN outcome ELSE status
          /\ child' = "reaped" /\ report' = None
          /\ UNCHANGED <<outcome, written, consumed>>
    /\ result' = ExitStatus(status')
    /\ pc' = "done"
    /\ UNCHANGED <<child_signalled, window_resized, program_continued, stop_flags,
                   inb, outb, ine, oute, forwarded, taken, delivered, world,
                   pty_out, pty_in>>

\* pty-run has exited.
Exited == pc = "done" /\ UNCHANGED vars

PtyRunStep ==
    LoopExit \/ StopRequested \/ Prepare \/ EnterPoll \/ PollInterrupted
    \/ PollReturn \/ Finish

Environment ==
    \/ ChildWrite \/ ChildRead \/ ChildStop \/ ChildClose \/ ChildNotify
    \/ UserType \/ UserClose \/ \E sig \in HandledSignals : PtySignal(sig)

Next == PtyRunStep \/ Environment \/ Exited

\* pty-run is always scheduled, and the kernel finishes an exit it began.
Fairness == WF_vars(PtyRunStep) /\ WF_vars(ChildNotify)

Spec == Init /\ [][Next]_vars /\ Fairness
=============================================================================
