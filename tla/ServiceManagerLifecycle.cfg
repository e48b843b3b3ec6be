\* One service, clients that load, activate, unload and command it, and
\* SIGTERM to the manager; children exit at any time; open_exec_at and fork
\* always succeed.  '_' is left out: it asks for down without signalling,
\* so a run program may keep its service up for ever.
CONSTANTS
    Svc = {s1}
    ForkOutcomes = {TRUE}
    Commands = {"u", "d", "o", "x", "p", "k"}
    RpcCmds = {"LOAD", "UNLOAD", "MAKE_PIPE_CONNECTABLE", "MAKE_INPUT_ACTIVATED", "MAKE_RUN_ON_EMPTY"}
    MaxInputs = 4
SPECIFICATION MCSpec
CHECK_DEADLOCK FALSE
INVARIANT TypeOK
INVARIANT StatusFileCurrent
INVARIANT NoUnloadWithLiveProcess
PROPERTY DownCommandStops
