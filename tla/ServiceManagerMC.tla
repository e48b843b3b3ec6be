------------------------- MODULE ServiceManagerMC -------------------------
(***************************************************************************)
(* service-manager with a bounded environment: at most MaxInputs client    *)
(* inputs (control bytes, RPC messages, pipe writes and stop signals),     *)
(* drawn from Commands and Messages.  Children exit at any time.           *)
(***************************************************************************)
EXTENDS ServiceManager

CONSTANTS
    Commands,     \* control FIFO bytes clients write
    RpcCmds,      \* RPC commands clients send
    MaxInputs     \* bound on client inputs

VARIABLE inputs

mc_vars == <<vars, inputs>>

Messages == [cmd : RpcCmds, s : Svc]

MCInit == Init /\ inputs = 0

\* One client input, counted.
Input ==
    /\ inputs < MaxInputs /\ inputs' = inputs + 1
    /\ \/ \E s \in Svc, c \in Commands : ClientControl(s, c)
       \/ \E m \in Messages : ClientRpc(m)
       \/ \E s \in Svc : PipeWrite(s)
       \/ Terminate

MCNext ==
    \/ Manager /\ UNCHANGED inputs
    \/ \E s \in Svc, st \in ExitStatuses : ChildExit(s, st) /\ UNCHANGED inputs
    \/ Input

MCSpec ==
    /\ MCInit /\ [][MCNext]_mc_vars
    /\ WF_mc_vars(Manager /\ UNCHANGED inputs)
    /\ \A s \in Svc :
          WF_mc_vars(MustExit(s) /\ \E st \in ExitStatuses : ChildExit(s, st) /\ UNCHANGED inputs)

Record(r) ==
    /\ r.act \in Activities /\ r.want \in Wants
    /\ {r.loaded, r.paused, r.unload, r.roe, r.pipe, r.ia, r.procs, r.termed, r.chld} \subseteq BOOLEAN
    /\ r.cps \in ExitStatuses \cup {"none"}
    /\ r.kp \in {"none", "running", "stopped"}
    /\ r.rep \in ExitStatuses \cup {"none", "stopped", "continued"}
    /\ \A b \in {r.mem, r.file} : b.act \in Activities /\ b.want \in Wants /\ b.pause \in BOOLEAN

TypeOK ==
    /\ \A s \in Svc : Record(svc[s])
    /\ \A i \in DOMAIN poll_table : poll_table[i] \in {Listen} \cup {CtlFd(s) : s \in Svc} \cup {PipeFd(s) : s \in Svc}
    /\ \A s \in Svc : \A i \in DOMAIN ctlq[s] : ctlq[s][i] \in Commands
    /\ {child_signalled, stop_signalled, sigterm, in_shutdown, running} \subseteq BOOLEAN
    /\ inputs \in 0..MaxInputs

(***************************************************************************)
(* Properties                                                              *)
(***************************************************************************)
\* write_status after change_state_if_necessary, reap and load: between
\* two iterations of the main loop, supervise/status of every loaded
\* service shows the activity it is in and the command it is pursuing.
StatusFileCurrent ==
    \A s \in Loaded : svc[s].file.act = svc[s].act /\ svc[s].file.want = svc[s].want

\* unloadable and services.erase: a service is only destroyed once its
\* process has been reaped, so no pid in active_services ever refers to a
\* destroyed service (the map holds raw pointers).
NoUnloadWithLiveProcess ==
    \A s \in Svc : ~svc[s].loaded => svc[s].kp = "none" /\ svc[s].rep = "none"

\* enact_control_message('d') and change_state_if_necessary: once a loaded
\* service is told to go down, it eventually reaches NONE, is unloaded, or
\* is told something else -- unless a client pauses its process ('p'),
\* which nothing then makes end.
DownCommandStops ==
    \A s \in Svc :
       (svc[s].loaded /\ svc[s].want = "d")
          ~> (\/ ~svc[s].loaded \/ svc[s].act = "NONE" \/ svc[s].want # "d"
              \/ svc[s].kp = "stopped")

\* stop_and_unload_all and the in_shutdown test: once the manager has been
\* asked to stop, its main loop eventually returns.
ShutdownCompletes == in_shutdown ~> ~running
=============================================================================
