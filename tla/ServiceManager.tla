-------------------------- MODULE ServiceManager --------------------------
(***************************************************************************)
(* service-manager (src/source/service-manager.cpp), the Linux build: one  *)
(* process supervising services, each with a control FIFO, a status file   *)
(* and at most one child (the start, run, restart or stop program).        *)
(*                                                                         *)
(* One step of the manager is one iteration of its main loop, which is     *)
(* atomic with respect to signals: they are masked except inside ppoll, so *)
(* the handlers only set child_signalled and stop_signalled there.  The    *)
(* other steps are the environment: children exiting, clients writing to   *)
(* control FIFOs and to input-activation pipes, RPC messages arriving on   *)
(* the listening socket, and SIGTERM arriving.                             *)
(*                                                                         *)
(* A service is a record.  Its manager-side fields are the members of      *)
(* struct service; `mem` is the status block in memory (the encore        *)
(* status byte, as the activity it encodes, the want flag and the pause    *)
(* flag) and `file` what write_status last put in supervise/status.  The   *)
(* kernel-side fields are the child's real state `kp`, the wait status     *)
(* not yet collected `rep`, whether that child has been sent SIGTERM and   *)
(* whether its SIGCHLD is still pending.  Pids, times, names and the exit  *)
(* status slots of the status block are not kept.                          *)
(***************************************************************************)
EXTENDS Naturals, Sequences, SequencesExt

CONSTANTS
    Svc,           \* the service directories clients may load
    ForkOutcomes   \* {TRUE}, or {TRUE, FALSE} when open_exec_at/fork may fail

Activities == {"NONE", "START", "RUN", "RESTART", "STOP"}
Wants == {"", "u", "o", "O", "d"}
ExitStatuses == {"exit0", "exit1", "signal"}

VARIABLES
    svc,              \* Svc -> the service record (loaded or not)
    poll_table,       \* the pollfd vector: a sequence of descriptors
    rpc,              \* messages queued on the listening socket
    ctlq,             \* Svc -> bytes queued in the control FIFO
    pipe_data,        \* Svc -> the input-activation pipe is readable
    child_signalled,
    stop_signalled,
    sigterm,          \* a SIGTERM (HUP, INT, QUIT) to the manager is pending
    in_shutdown,
    running           \* the main loop has not returned

vars == <<svc, poll_table, rpc, ctlq, pipe_data, child_signalled,
          stop_signalled, sigterm, in_shutdown, running>>

\* Descriptors in the poll table.
Listen == [kind |-> "listen", s |-> "none"]
CtlFd(s) == [kind |-> "ctl", s |-> s]
PipeFd(s) == [kind |-> "pipe", s |-> s]

\* service::service: nothing running, nothing wanted, no pipe.
Fresh ==
    [loaded |-> FALSE, act |-> "NONE", want |-> "", paused |-> FALSE,
     unload |-> FALSE, roe |-> FALSE, pipe |-> FALSE, ia |-> FALSE,
     procs |-> FALSE, cps |-> "none",
     mem |-> [act |-> "NONE", want |-> "", pause |-> FALSE],
     file |-> [act |-> "NONE", want |-> "", pause |-> FALSE],
     kp |-> "none", rep |-> "none", termed |-> FALSE, chld |-> FALSE]

StampActivity(r) == [r EXCEPT !.mem.act = r.act, !.mem.pause = r.procs /\ r.paused]
StampPendingCommand(r) == [r EXCEPT !.mem.want = r.want]
WriteStatus(r) == [r EXCEPT !.file = r.mem]

\* is_failure: any signal, or a non-zero exit status.
IsFailure(st) == st \in {"exit1", "signal"}

\* kill(2) of the service's process: STOP and CONT change the child's state
\* and queue a wait status; KILL ends it; TERM is remembered (the child may
\* then exit at any time); other signals have no effect the manager sees.
\* A child that has already exited (a zombie) is unaffected.
Signal(r, sig) ==
    IF ~r.procs \/ r.kp = "none" THEN r
    ELSE CASE sig = "STOP" /\ r.kp = "running" ->
                 [r EXCEPT !.kp = "stopped", !.rep = "stopped", !.chld = TRUE]
           [] sig = "CONT" /\ r.kp = "stopped" ->
                 [r EXCEPT !.kp = "running", !.rep = "continued", !.chld = TRUE]
           [] sig = "KILL" ->
                 [r EXCEPT !.kp = "none", !.rep = "signal", !.chld = TRUE]
           [] sig = "TERM" -> [r EXCEPT !.termed = TRUE]
           [] OTHER -> r

\* service::killall and service::killtop: with one process they coincide.
KillAll(r, sig) == Signal(r, sig)
KillTop(r, sig) == Signal(r, sig)

\* enter_state after its early return and status stamping: fork the
\* program; a failure of open_exec_at or fork is logged and leaves the
\* service without a process.
Fork(r, ok) ==
    IF ok THEN WriteStatus([r EXCEPT !.procs = TRUE, !.kp = "running", !.termed = FALSE])
    ELSE r

\* Mutant: enter_state(NONE) returns without write_status.
EnterStateNoneUnwritten(r, ok) ==
    CASE r.procs -> r
      [] r.act = "NONE" -> r
      [] r.act \in {"START", "RUN", "RESTART"} -> Fork(WriteStatus(r), ok)
      [] r.act = "STOP" -> Fork(r, ok)

\* service::enter_state.  START, RUN and RESTART reset their exit status
\* slots and write the status file before forking; STOP does not.
EnterState(r, ok) ==
    CASE r.procs -> r
      [] r.act = "NONE" -> WriteStatus(r)
      [] r.act \in {"START", "RUN", "RESTART"} -> Fork(WriteStatus(r), ok)
      [] r.act = "STOP" -> Fork(r, ok)

\* The table of service::change_state_if_necessary: the next activity and
\* want flag from the current ones, the process set, run_on_empty and the
\* last wait status.
Transition(r) ==
    LET go(a) == [r EXCEPT !.act = a]
        goClear(a) == [r EXCEPT !.act = a, !.want = ""]
        clear == [r EXCEPT !.want = ""]
        after == IF IsFailure(r.cps) THEN "STOP" ELSE "RUN"
    IN  CASE r.act = "NONE" ->
                CASE r.want \in {"O", "d"} -> clear
                  [] r.want \in {"o", "u"} -> go("START")
                  [] OTHER -> r
          [] r.act = "START" /\ ~r.procs ->
                CASE r.want = "u" -> goClear("RUN")
                  [] r.want = "d" -> go("STOP")
                  [] OTHER -> go("RUN")
          [] r.act = "RUN" /\ r.procs ->
                IF r.want = "u" THEN clear ELSE r
          [] r.act = "RUN" /\ r.roe ->
                CASE r.want = "u" -> clear
                  [] r.want = "d" -> go("RESTART")
                  [] OTHER -> r
          [] r.act = "RUN" ->
                IF r.want = "u" THEN goClear("RESTART") ELSE go("RESTART")
          [] r.act = "RESTART" /\ ~r.procs ->
                CASE r.want \in {"O", "o", "d"} -> go("STOP")
                  [] r.want = "u" -> goClear(after)
                  [] OTHER -> go(after)
          [] r.act = "STOP" /\ ~r.procs ->
                CASE r.want \in {"O", "o", "d"} -> goClear("NONE")
                  [] r.want = "u" -> go("START")
                  [] OTHER -> go("NONE")
          [] OTHER -> r

\* service::change_state_if_necessary: move, stamp, then enter the new
\* state or just rewrite the status file.
ChangeState(r, ok) ==
    LET n == StampPendingCommand(StampActivity(Transition(r)))
    IN  IF n.act # r.act THEN EnterState(n, ok) ELSE WriteStatus(n)

\* The signal each kill command of enact_control_message sends.
CommandSignal(c) ==
    CASE c \in {"k", "K"} -> "KILL"
      [] c \in {"t", "T"} -> "TERM"
      [] c = "p" -> "STOP"
      [] c = "c" -> "CONT"
      [] OTHER -> "OTHER"

KillTopCommands == {"H", "K", "T"}
KillAllCommands == {"1", "2", "a", "c", "h", "i", "k", "p", "q", "t", "w", "z"}

\* Mutant: 'd' continues the processes but does not send them SIGTERM.
EnactControlMessageNoTerm(r, c, ok) ==
    CASE c = "d" ->
            ChangeState(KillAll(WriteStatus(StampPendingCommand(
                [r EXCEPT !.want = "d"])), "CONT"), ok)
      [] c \in {"_", "u", "o", "O"} ->
            ChangeState(WriteStatus(StampPendingCommand(
                [r EXCEPT !.want = IF c = "_" THEN "d" ELSE c])), ok)
      [] c \in KillTopCommands -> KillTop(r, CommandSignal(c))
      [] c \in KillAllCommands -> KillAll(r, CommandSignal(c))
      [] c = "x" -> [r EXCEPT !.unload = TRUE]
      [] OTHER -> r

\* service::enact_control_message(signals, command).
EnactControlMessage(r, c, ok) ==
    CASE c = "d" ->
            ChangeState(KillAll(KillAll(WriteStatus(StampPendingCommand(
                [r EXCEPT !.want = "d"])), "TERM"), "CONT"), ok)
      [] c \in {"_", "u", "o", "O"} ->
            ChangeState(WriteStatus(StampPendingCommand(
                [r EXCEPT !.want = IF c = "_" THEN "d" ELSE c])), ok)
      [] c \in KillTopCommands -> KillTop(r, CommandSignal(c))
      [] c \in KillAllCommands -> KillAll(r, CommandSignal(c))
      [] c = "x" -> [r EXCEPT !.unload = TRUE]
      [] OTHER -> r

\* Mutant: no early return for a stop or continue; every wait status is
\* taken for an exit.
ServiceReapNoEarlyReturn(r, st, ok) ==
    ChangeState(WriteStatus([r EXCEPT !.procs = FALSE, !.cps = st]), ok)

\* service::reap: a stop or continue only flips `paused`; an exit removes
\* the process (del_process), writes the status and moves on.
ServiceReap(r, st, ok) ==
    CASE st = "continued" -> WriteStatus(StampActivity([r EXCEPT !.paused = FALSE]))
      [] st = "stopped" -> WriteStatus(StampActivity([r EXCEPT !.paused = TRUE]))
      [] OTHER -> ChangeState(WriteStatus([r EXCEPT !.procs = FALSE, !.cps = st]), ok)

\* service::unloadable.
Unloadable(r) == r.unload /\ r.act = "NONE" /\ ~r.procs

\* services.erase and service::~service: the record is gone, its FIFO and
\* pipe closed; the kernel's view of its children is what it was.
Erased(r) == [Fresh EXCEPT !.kp = r.kp, !.rep = r.rep, !.termed = r.termed, !.chld = r.chld]

WithoutFds(table, S) == SelectSeq(table, LAMBDA f : f.s \notin S)

\* reap (the free function) for one collected wait status: a service's
\* process goes to service::reap, then the service is erased if that made
\* it unloadable; a stopped stranger is continued.
Reap(r, ok) ==
    LET st == r.rep
        c  == [r EXCEPT !.rep = "none"]
    IN  IF c.procs
        THEN LET n == ServiceReap(c, st, ok) IN IF Unloadable(n) THEN Erased(n) ELSE n
        ELSE c

\* stop_and_unload_all, for one service.
StopAndUnload(r, ok) ==
    LET n == [EnactControlMessage(r, "d", ok) EXCEPT !.unload = TRUE]
    IN  IF Unloadable(n) THEN Erased(n) ELSE n

(***************************************************************************)
(* The RPC handlers of control_message.  A message names its command and   *)
(* the service whose supervise directory it passes; PLUMB only changes     *)
(* which descriptors a child inherits and is not modelled.                 *)
(***************************************************************************)
\* load: open the FIFOs and status file, stamp and write the status.  The
\* lookup uses the service directory's identity and the insertion the
\* supervise directory's, so a second LOAD is stopped only by the lock file
\* (open_lockfile_at, not in this repository); it is taken to fail there.
Load(r) ==
    IF r.loaded THEN r
    ELSE WriteStatus(StampPendingCommand(StampActivity([Erased(r) EXCEPT !.loaded = TRUE])))

\* Mutant: set_unload erases the service without asking unloadable.
SetUnloadUnchecked(r) == Erased([r EXCEPT !.unload = TRUE])

SetUnload(r) ==
    LET n == [r EXCEPT !.unload = TRUE] IN IF Unloadable(n) THEN Erased(n) ELSE n

MakeInputActivated(r) == IF r.pipe THEN [r EXCEPT !.ia = TRUE] ELSE r
MakePipeConnectable(r) == IF r.pipe THEN r ELSE [r EXCEPT !.pipe = TRUE]
MakeRunOnEmpty(r) == [r EXCEPT !.roe = TRUE]

RpcCommands == {"LOAD", "UNLOAD", "MAKE_INPUT_ACTIVATED", "MAKE_PIPE_CONNECTABLE",
                "MAKE_RUN_ON_EMPTY"}

\* control_message for one message.
HandleRpc(m) ==
    LET s == m.s
        r == svc[s]
        n == CASE m.cmd = "LOAD" -> Load(r)
                [] ~r.loaded -> r
                [] m.cmd = "UNLOAD" -> SetUnload(r)
                [] m.cmd = "MAKE_INPUT_ACTIVATED" -> MakeInputActivated(r)
                [] m.cmd = "MAKE_PIPE_CONNECTABLE" -> MakePipeConnectable(r)
                [] m.cmd = "MAKE_RUN_ON_EMPTY" -> MakeRunOnEmpty(r)
    IN  /\ svc' = [svc EXCEPT ![s] = n]
        /\ poll_table' =
              CASE n.loaded /\ ~r.loaded -> Append(poll_table, CtlFd(s))
                [] r.loaded /\ ~n.loaded -> WithoutFds(poll_table, {s})
                [] m.cmd = "MAKE_INPUT_ACTIVATED" /\ n.ia -> Append(poll_table, PipeFd(s))
                [] OTHER -> poll_table
        /\ ctlq' = IF r.loaded /\ ~n.loaded THEN [ctlq EXCEPT ![s] = <<>>] ELSE ctlq
        /\ pipe_data' = IF r.loaded /\ ~n.loaded THEN [pipe_data EXCEPT ![s] = FALSE] ELSE pipe_data

(***************************************************************************)
(* The main loop of service_manager, one iteration per action.             *)
(***************************************************************************)
Loaded == {s \in Svc : svc[s].loaded}
Finished == in_shutdown /\ Loaded = {}
SignalsPending == sigterm \/ \E s \in Svc : svc[s].chld

\* Services whose erasure in this step closes their descriptors.
Dropped(new) == {s \in Svc : svc[s].loaded /\ ~new[s].loaded}

\* The loop returns once shutdown was requested and no service is left.
ExitLoop ==
    /\ running /\ Finished
    /\ running' = FALSE
    /\ UNCHANGED <<svc, poll_table, rpc, ctlq, pipe_data, child_signalled,
                   stop_signalled, sigterm, in_shutdown>>

\* child_signalled: reaper collects every wait status there is.
Reaper ==
    /\ running /\ ~Finished /\ child_signalled
    /\ \E ok \in [Svc -> ForkOutcomes] :
         LET new == [s \in Svc |-> IF svc[s].rep # "none" THEN Reap(svc[s], ok[s]) ELSE svc[s]]
         IN  /\ svc' = new
             /\ poll_table' = WithoutFds(poll_table, Dropped(new))
             /\ ctlq' = [s \in Svc |-> IF s \in Dropped(new) THEN <<>> ELSE ctlq[s]]
             /\ pipe_data' = [s \in Svc |-> pipe_data[s] /\ s \notin Dropped(new)]
    /\ child_signalled' = FALSE
    /\ UNCHANGED <<rpc, stop_signalled, sigterm, in_shutdown, running>>

\* stop_signalled: stop_and_unload_all, then shutdown.
StopAll ==
    /\ running /\ ~Finished /\ ~child_signalled /\ stop_signalled
    /\ \E ok \in [Svc -> ForkOutcomes] :
         LET new == [s \in Svc |-> IF svc[s].loaded THEN StopAndUnload(svc[s], ok[s]) ELSE svc[s]]
         IN  /\ svc' = new
             /\ poll_table' = WithoutFds(poll_table, Dropped(new))
             /\ ctlq' = [s \in Svc |-> IF s \in Dropped(new) THEN <<>> ELSE ctlq[s]]
             /\ pipe_data' = [s \in Svc |-> pipe_data[s] /\ s \notin Dropped(new)]
    /\ stop_signalled' = FALSE /\ in_shutdown' = TRUE
    /\ UNCHANGED <<rpc, child_signalled, sigterm, running>>

\* Whether a descriptor of the poll table has input.
Readable(f) ==
    CASE f.kind = "listen" -> rpc # <<>>
      [] f.kind = "ctl" -> ctlq[f.s] # <<>>
      [] f.kind = "pipe" -> pipe_data[f.s]

AnyReadable == \E k \in DOMAIN poll_table : Readable(poll_table[k])

\* ppoll unmasks the signals.  The kernel's do_poll reports ready
\* descriptors before it looks at pending signals, so only when nothing is
\* readable do the pending ones run their handlers and ppoll fail with EINTR.
PollInterrupted ==
    /\ running /\ ~Finished /\ ~child_signalled /\ ~stop_signalled
    /\ SignalsPending /\ ~AnyReadable
    /\ child_signalled' = \E s \in Svc : svc[s].chld
    /\ stop_signalled' = sigterm
    /\ sigterm' = FALSE
    /\ svc' = [s \in Svc |-> [svc[s] EXCEPT !.chld = FALSE]]
    /\ UNCHANGED <<poll_table, rpc, ctlq, pipe_data, in_shutdown, running>>

\* ppoll returns descriptors, whatever signals are pending (they stay
\* pending, masked again); only the first readable one in table order is
\* handled before the loop starts over.
PollReady ==
    /\ running /\ ~Finished /\ ~child_signalled /\ ~stop_signalled
    /\ \E k \in DOMAIN poll_table :
         /\ Readable(poll_table[k])
         /\ \A j \in 1..k - 1 : ~Readable(poll_table[j])
         /\ LET f == poll_table[k] IN
            CASE f.kind = "listen" ->
                    /\ HandleRpc(Head(rpc)) /\ rpc' = Tail(rpc)
              [] f.kind = "pipe" ->
                    \* input_ready_event on an input-activated pipe
                    \E ok \in ForkOutcomes :
                      /\ svc' = [svc EXCEPT ![f.s] =
                                   EnactControlMessage([@ EXCEPT !.ia = FALSE], "u", ok)]
                      /\ poll_table' = SelectSeq(poll_table, LAMBDA g : g # f)
                      /\ UNCHANGED <<rpc, ctlq, pipe_data>>
              [] f.kind = "ctl" ->
                    \* input_ready_event on a control FIFO: read one byte
                    \E ok \in ForkOutcomes :
                      /\ svc' = [svc EXCEPT ![f.s] = EnactControlMessage(@, Head(ctlq[f.s]), ok)]
                      /\ ctlq' = [ctlq EXCEPT ![f.s] = Tail(@)]
                      /\ UNCHANGED <<poll_table, rpc, pipe_data>>
    /\ UNCHANGED <<child_signalled, stop_signalled, sigterm, in_shutdown, running>>

Manager == ExitLoop \/ Reaper \/ StopAll \/ PollInterrupted \/ PollReady

(***************************************************************************)
(* The environment.                                                        *)
(***************************************************************************)
\* A running child exits or is killed by a signal of its own.
ChildExit(s, st) ==
    /\ running /\ svc[s].kp = "running"
    /\ svc' = [svc EXCEPT ![s].kp = "none", ![s].rep = st, ![s].chld = TRUE]
    /\ UNCHANGED <<poll_table, rpc, ctlq, pipe_data, child_signalled,
                   stop_signalled, sigterm, in_shutdown, running>>

\* A client (svc, the service command) writes a byte to a loaded service's
\* control FIFO.
ClientControl(s, c) ==
    /\ running /\ svc[s].loaded
    /\ ctlq' = [ctlq EXCEPT ![s] = Append(@, c)]
    /\ UNCHANGED <<svc, poll_table, rpc, pipe_data, child_signalled,
                   stop_signalled, sigterm, in_shutdown, running>>

\* A client (system-control, service-dt-scanner) sends an RPC message.
ClientRpc(m) ==
    /\ running
    /\ rpc' = Append(rpc, m)
    /\ UNCHANGED <<svc, poll_table, ctlq, pipe_data, child_signalled,
                   stop_signalled, sigterm, in_shutdown, running>>

\* A producer writes into a service's input-activation pipe.
PipeWrite(s) ==
    /\ running /\ svc[s].pipe /\ ~pipe_data[s]
    /\ pipe_data' = [pipe_data EXCEPT ![s] = TRUE]
    /\ UNCHANGED <<svc, poll_table, rpc, ctlq, child_signalled,
                   stop_signalled, sigterm, in_shutdown, running>>

\* SIGTERM, SIGHUP, SIGINT or SIGQUIT is sent to the manager.
Terminate ==
    /\ running /\ ~sigterm
    /\ sigterm' = TRUE
    /\ UNCHANGED <<svc, poll_table, rpc, ctlq, pipe_data, child_signalled,
                   stop_signalled, in_shutdown, running>>

Init ==
    /\ svc = [s \in Svc |-> Fresh]
    /\ poll_table = <<Listen>>
    /\ rpc = <<>>
    /\ ctlq = [s \in Svc |-> <<>>]
    /\ pipe_data = [s \in Svc |-> FALSE]
    /\ child_signalled = FALSE /\ stop_signalled = FALSE
    /\ sigterm = FALSE /\ in_shutdown = FALSE
    /\ running = TRUE

\* A child that must end: the start, restart and stop programs are expected
\* to finish; the run program only once it has been sent SIGTERM.
MustExit(s) == svc[s].kp = "running" /\ (svc[s].termed \/ svc[s].act # "RUN")

\* The manager is never blocked while it has work (its loop only waits in
\* ppoll), and a child that must end does.
Fairness ==
    /\ WF_vars(Manager)
    /\ \A s \in Svc : WF_vars(MustExit(s) /\ \E st \in ExitStatuses : ChildExit(s, st))
=============================================================================
