\* The exit status pty-run throws at line 308.
CONSTANTS
    PassThrough = FALSE
    BufCap = 2
    PtyOutCap = 3
    PtyInCap = 1
    NOut = 3
    NIn = 2
    ExitCodes = {0, 1}
    Killed = Killed
    TempFail = TempFail
    Stopped = Stopped
    None = None
SPECIFICATION Spec
\* pty-run can block for ever in waitpid (pty-run.cpp:307) on a child that
\* was stopped when a stop signal broke the loop.
CHECK_DEADLOCK FALSE
INVARIANT ExitStatusRelayed
