--------------------------- MODULE SystemStateChange ---------------------------
(***************************************************************************)
(* system-state-change.cpp: the system-control commands that ask the      *)
(* service manager to change the system state by sending it signals:      *)
(* reboot/poweroff/halt (and their fast and boot names), emergency/rescue/ *)
(* normal, and init with its System V runlevel arguments.  Each command   *)
(* is an operator from what it is given to its outcome, a record [sent,   *)
(* exit]: the <<target, signal>> pairs kill() delivered, in order, and    *)
(* how the command ends ("SUCCESS", "FAILURE", or "update" when init      *)
(* chains to the update command).  Program names and arguments are       *)
(* strings; options are the set of option letters given ("help" for     *)
(* --help, which stops popt).  A build is a record [linux, halt,          *)
(* poweroff]: the platform and whether FORCE_HALT_SIGNAL and              *)
(* FORCE_POWEROFF_SIGNAL are defined.  fail is the number of the kill()   *)
(* that fails, 0 for none.                                                *)
(***************************************************************************)
EXTENDS Integers, Sequences

\* stripfast (lines 21-29): a leading "fast" taken off the name.
Stripfast(prog) ==
    IF Len(prog) >= 4 /\ SubSeq(prog, 1, 4) = "fast"
    THEN [fast |-> TRUE, prog |-> SubSeq(prog, 5, Len(prog))]
    ELSE [fast |-> FALSE, prog |-> prog]

\* prog[0]: the first character, or the empty string for an empty name.
First(prog) == IF prog = "" THEN "" ELSE Head(prog)

\* query_user_manager_pid (lines 37-41) is getsid(0), the caller's session
\* leader; in system mode the target is process 1.
Target(user) == IF user THEN "getsid(0)" ELSE "pid 1"

\* send_signal_to_manager_process (lines 43-63) for each signal in turn:
\* a failing kill() throws EXIT_FAILURE, after the signals before it went.
SendSignals(user, signals, fail) ==
    LET failed == fail \in 1..Len(signals)
        sent == IF failed THEN SubSeq(signals, 1, fail - 1) ELSE signals
    IN [sent |-> [i \in 1..Len(sent) |-> <<Target(user), sent[i]>>],
        exit |-> IF failed THEN "FAILURE" ELSE "SUCCESS"]

\* emergency, rescue, normal, reboot, halt and poweroff (lines 65-120).
Emergency == <<"EMERGENCY_SIGNAL">>
Rescue == <<"SYSINIT_SIGNAL", "RESCUE_SIGNAL">>
Normal == <<"SYSINIT_SIGNAL", "NORMAL_SIGNAL">>
Reboot(force) == <<IF force THEN "FORCE_REBOOT_SIGNAL" ELSE "REBOOT_SIGNAL">>
Halt(force) == <<IF force THEN "FORCE_HALT_SIGNAL" ELSE "HALT_SIGNAL">>
Poweroff(force) == <<IF force THEN "FORCE_POWEROFF_SIGNAL" ELSE "POWEROFF_SIGNAL">>

\* A popt error (an option the table lacks) and a stop (--help): nothing
\* is sent.
Failure == [sent |-> <<>>, exit |-> "FAILURE"]
Stopped == [sent |-> <<>>, exit |-> "SUCCESS"]

\* reboot_poweroff_halt_command (lines 127-170): "fast" forces, "boot" is
\* reboot, -f forces, -u targets the per-user manager; the action is
\* chosen by the first letter of the name.
RebootPoweroffHaltCommand(build, name, opts, fail) ==
    LET s == Stripfast(name)
        prog == IF s.prog = "boot" THEN "reboot" ELSE s.prog
        force == s.fast \/ "f" \in opts
        user == "u" \in opts
    IN CASE ~(opts \subseteq {"u", "f", "help"}) -> Failure
         [] "help" \in opts -> Stopped
         [] First(prog) = "r" -> SendSignals(user, Reboot(force), fail)
         [] First(prog) = "h" /\ build.halt -> SendSignals(user, Halt(force), fail)
         [] First(prog) = "p" /\ build.poweroff -> SendSignals(user, Poweroff(force), fail)
         [] OTHER -> Failure

\* The switch without its case 's' (single).
EmergencyRescueNormalCommandNoSingle(name, opts, fail) ==
    LET user == "u" \in opts
    IN CASE ~(opts \subseteq {"u", "help"}) -> Failure
         [] "help" \in opts -> Stopped
         [] First(name) = "e" -> SendSignals(user, Emergency, fail)
         [] First(name) = "r" -> SendSignals(user, Rescue, fail)
         [] First(name) \in {"d", "n"} -> SendSignals(user, Normal, fail)
         [] OTHER -> Failure

\* emergency_rescue_normal_command (lines 172-209): by the first letter,
\* e is emergency, s (single) and r rescue, d (default) and n normal.
EmergencyRescueNormalCommand(name, opts, fail) ==
    LET user == "u" \in opts
    IN CASE ~(opts \subseteq {"u", "help"}) -> Failure
         [] "help" \in opts -> Stopped
         [] First(name) = "e" -> SendSignals(user, Emergency, fail)
         [] First(name) \in {"s", "r"} -> SendSignals(user, Rescue, fail)
         [] First(name) \in {"d", "n"} -> SendSignals(user, Normal, fail)
         [] OTHER -> Failure

\* enum Action (lines 217-230), lowest precedence first; HALT and
\* POWEROFF exist only where their signals are defined.
Actions(build) ==
    SelectSeq(<<"NORMAL", "HALT", "REBOOT", "POWEROFF", "UPDATE", "RESCUE", "EMERGENCY">>,
              LAMBDA a : (a = "HALT" => build.halt) /\ (a = "POWEROFF" => build.poweroff))
Rank(build, a) == CHOOSE i \in 1..Len(Actions(build)) : Actions(build)[i] = a

\* "if (action < a) action = a".
Raise(build, action, a) == IF Rank(build, action) < Rank(build, a) THEN a ELSE action

\* init's options (lines 232-273): -s is rescue on Linux (where -b is
\* emergency) and emergency elsewhere; -o is update; -a, -f and -z are
\* accepted and ignored.
InitOptions(build) == {"u", "s", "o", "a", "f", "z", "help"} \cup (IF build.linux THEN {"b"} ELSE {})
OptionAction(build, opts) ==
    LET emergency == IF build.linux THEN "b" \in opts ELSE "s" \in opts
        rescue == build.linux /\ "s" \in opts
        a1 == IF emergency THEN Raise(build, "NORMAL", "EMERGENCY") ELSE "NORMAL"
        a2 == IF rescue THEN Raise(build, a1, "RESCUE") ELSE a1
    IN IF "o" \in opts THEN Raise(build, a2, "UPDATE") ELSE a2

\* The action a runlevel argument asks for (lines 277-328), "NONE" for one
\* that is warned about and ignored: a one-character argument by the
\* switch, a longer (or empty) one by name.
RunlevelAction(build, p) ==
    IF Len(p) = 1
    THEN CASE p \in {"B", "b"} -> "EMERGENCY"
           [] p \in {"1", "S", "s"} -> "RESCUE"
           [] p \in {"H", "h"} /\ build.halt -> "HALT"
           [] p = "0" /\ build.poweroff -> "POWEROFF"
           [] p = "6" -> "REBOOT"
           [] p \in {"2", "3", "4", "5", "m"} -> "NORMAL"
           [] OTHER -> "NONE"
    ELSE CASE p = "emergency" -> "EMERGENCY"
           [] p \in {"rescue", "single"} -> "RESCUE"
           [] p = "update" -> "UPDATE"
           [] p \in {"auto", "default", "normal", "multi"} -> "NORMAL"
           [] OTHER -> "NONE"

\* A runlevel argument that overrides whatever came before it.
ApplyRunlevelLastWins(build, action, p) ==
    IF RunlevelAction(build, p) = "NONE" THEN action ELSE RunlevelAction(build, p)

\* One pass of the loop over the arguments (lines 275-329).
ApplyRunlevel(build, action, p) ==
    IF RunlevelAction(build, p) = "NONE" THEN action ELSE Raise(build, action, RunlevelAction(build, p))

RECURSIVE ApplyRunlevels(_, _, _)
ApplyRunlevels(build, action, args) ==
    IF args = <<>> THEN action ELSE ApplyRunlevels(build, ApplyRunlevel(build, action, Head(args)), Tail(args))

\* The action init takes: from the options, then from each argument.
InitAction(build, opts, args) == ApplyRunlevels(build, OptionAction(build, opts), args)

\* The switch on the action (lines 331-361): update chains to the update
\* command and sends nothing; the others signal, never forced.
ActionOutcome(build, action, user, fail) ==
    CASE action = "EMERGENCY" -> SendSignals(user, Emergency, fail)
      [] action = "RESCUE" -> SendSignals(user, Rescue, fail)
      [] action = "UPDATE" -> [sent |-> <<>>, exit |-> "update"]
      [] action = "POWEROFF" -> SendSignals(user, Poweroff(FALSE), fail)
      [] action = "REBOOT" -> SendSignals(user, Reboot(FALSE), fail)
      [] action = "HALT" -> SendSignals(user, Halt(FALSE), fail)
      [] OTHER -> SendSignals(user, Normal, fail)

\* init (lines 211-363): options and runlevel arguments intermixed.
InitCommand(build, opts, args, fail) ==
    CASE ~(opts \subseteq InitOptions(build)) -> Failure
      [] "help" \in opts -> Stopped
      [] OTHER -> ActionOutcome(build, InitAction(build, opts, args), "u" \in opts, fail)
=============================================================================
