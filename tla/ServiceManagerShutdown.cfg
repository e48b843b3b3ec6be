\* One service, a client that loads it and writes 'o' to its control FIFO,
\* and SIGTERM to the manager: a control byte handled after
\* stop_and_unload_all takes the service back up, and shutdown never ends.
CONSTANTS
    Svc = {s1}
    ForkOutcomes = {TRUE}
    Commands = {"o"}
    RpcCmds = {"LOAD"}
    MaxInputs = 4
SPECIFICATION MCSpec
CHECK_DEADLOCK FALSE
PROPERTY ShutdownCompletes
