# TLA+ models of nosh

The models cover seven parts of nosh:

- `SoftTerm`, the software terminal emulator in `src/source/SoftTerm.cpp`;
- the Unicode range tables it classifies characters with, in `src/source/UnicodeClassification.cpp`;
- `service-manager`, the process supervisor in `src/source/service-manager.cpp`;
- `pty-run`, which runs a program on a pseudo-terminal and relays its I/O, in `src/source/pty-run.cpp`;
- `console-fb-realizer`, which shows a terminal's display buffer on the framebuffer and turns keyboard and mouse input into input messages, in `src/source/console-fb-realizer.cpp`;
- the machine ID file format, its UUID text forms and `validate`, in `src/source/machine_id.cpp`;
- the system state change commands of `system-control` (`reboot`, `halt`, `poweroff`, `emergency`, `rescue`, `normal`, `init`), which signal the service manager, in `src/source/system-state-change.cpp`.

Clients of `SoftTerm` write UCS-4 code points into it. It decodes them as ECMA-48 and drives two sinks:

- a `ScreenBuffer`, through `WriteNCells`, `ScrollUp`, `ScrollDown`, `SetCursorPos` and the cursor type;
- a `KeyboardBuffer`, through replies to device attribute and status requests.

`console-fb-realizer` is the other end of such a terminal. It reads the display buffer file the terminal writes and copies it to the framebuffer. It writes key, mouse and character input messages to the terminal's input FIFO. `SoftTerm` holds all the state here that can go wrong in ways a test hardly reaches:

- a parser whose state carries over from one call to the next;
- a cursor, margins and a deferred wrap that every command must keep consistent;
- saved state that outlives the commands that changed it.

The realizer has its own such state:

- a kevent loop that owns the display only between the kernel's VT release and acquire signals;
- a window onto a buffer whose size changes under it;
- keyboard modifier state and held dead keys;
- on the BSDs, a HID report parser and a byte buffer that reports are assembled in.

## The system's parts

| Part | Source | Status |
|---|---|---|
| SoftTerm input parser (`Write`, `ProcessControlCharacter`, `Escape1`, `Escape2`, `ControlSequence`, `ResetArgs`, `FinishArg`) | SoftTerm.cpp | modelled: `TermParser` |
| SoftTerm executor (cursor motion, scrolling, erasure, tabs, margins, modes, SGR, save/restore, reports, `Print`) | SoftTerm.cpp | modelled: `SoftTerm` |
| `Map256Colour` | SoftTerm.cpp | modelled: `Colour256` |
| UnicodeClassification (combining/format range tables) | UnicodeClassification.cpp | modelled: `UnicodeClassification` (`SoftTerm` still takes the classes as constant sets) |
| service-manager: main loop, service state machine, RPC handlers | service-manager.cpp | partly modelled: `ServiceManager` (Linux loop; PLUMB and the kqueue loop are not) |
| service-manager's clients (`system-control`, `svc`, `service`) | service.cpp wraps `system-control`; the clients are not in this repository | the environment of `ServiceManager`: RPC messages, control bytes, pipe input, SIGTERM |
| pty-run: signal flags, relay loop, exit | pty-run.cpp | partly modelled: `PtyRun` (the Linux loop; not option parsing, fork or the BSD kqueue loop) |
| console-fb-realizer: main loop, VT switching, display geometry, reload | console-fb-realizer.cpp | partly modelled: `Realizer` (not the cells, fonts or painting) |
| console-fb-realizer: keyboard modifiers, dead keys and their three rule tables | console-fb-realizer.cpp, kbdmap.h | modelled: `KeyboardModifierState`, `DeadKeys` |
| console-fb-realizer: mouse pointer, HID report fields, BSD HID descriptor parser and report loop | console-fb-realizer.cpp | modelled: `Pointer`, `HidFields`, `HidDescriptor`, `HidReports`, `HidOpenBSD`, `SysMouse`, `Evdev`, `ATKeyboard` (not the ioctls) |
| machine_id: file line format, UUID text forms, `validate` | machine_id.cpp | partly modelled: `MachineId` (not `uuid_generate` or the fallback sources) |
| system-state-change: `reboot`/`poweroff`/`halt`, `emergency`/`rescue`/`normal`, `init` | system-state-change.cpp | modelled: `SystemStateChange` (popt, outside this repository, is taken as the set of options it parsed) |
| keyboard maps, nmount, login-banner, enable-disable-preset, convert-systemd-units | the rest of src/source | not modelled: tables, text conversion or one-shot I/O with no state a model checker would explore |

## Modules

- **TermParser.tla** models the decoder.
  - Variables: `pstate` (`SoftTerm::state`), `intermediate`, `args` (a function on `0..argc`), `argc` and `seen_arg_digit`.
  - One step is one `Write(character, decoder_error, overlong)`. `op` records what the step hands to the executing half: a print, a control, ESC 6–9, an ESC with an intermediate, or a dispatched control sequence with its flag and argument list.
  - `FinishArg`, `ResetArgs` and the final-character defaults (`FinishFinal`) are operators on an accumulator record. This lets `ControlSequence` chain them the way the C++ calls them one after the other.
- **TermParserMC.tla** drives the parser with any character of a small alphabet and any combination of the decoder flags. It keeps one history variable, used only for checking: `raw`, the parameter bytes of the current sequence.

  It also holds `RefArgs`, a reference decoding of a parameter string written from the format's description. `Decimal` and `Fields` are RECURSIVE operators.
- **SoftTerm.tla** instantiates `TermParser` and adds the executor's state: `x`, `y`, `saved_x`, `saved_y`, `w`, `h`, the margins, the modes, `advance_pending`, the rendition and its saved copy, `tabstops`, `cursor_attributes`, `cursor_shown`.
  - Every member function is an operator from a record `T` of that state to a new one. A command that calls several members composes them in the C++ order, and one `WriteChar` step applies the whole call.
  - `screen` and `keyboard` are the sink calls made in the current step. A `WriteNCells` or scroll is the record of its start, end, count and fill cell; the cells themselves are not kept.
  - `saved_attributes`, `saved_foreground` and `saved_background` are never initialised by the constructor. Until the first save they hold the marker `Indeterminate`.
  - Coordinates are `uint16_t` and are wrapped with `U16` where the code's arithmetic can underflow.
- **SoftTermMC.tla** feeds `SoftTerm` characters from `Chars`. It bounds each argument to `ArgValues` and keeps `snapshot`, a history of what the last DECSC and CSI s saved.
- **Colour256.tla** models the 256-colour table as a pure operator.
- **UnicodeClassification.tla** transcribes the four range tables (`Mn`, `Me`, `Cf`, `CC`) as sequences of `<<first, last>>` (and rank) tuples. It models `ClosedRange::Contains` and `operator<` as `RangeContains` and `RangeLess`, and `std::lower_bound` as the RECURSIVE `LowerBoundFrom`, halving the count as libstdc++ does. `Contains`, `Rank` and the four public functions are built on those.
- **ServiceManager.tla** models the Linux build of service-manager.
  - `svc` maps each service directory to a record. It holds the members of `struct service` (`act`, `want` = `pending_command`, `paused`, `unload`, `roe`, `procs` = `has_processes()`, `cps` = `current_process_status`), `mem` (the status block's activity, want and pause bytes) and `file` (what `write_status` last wrote). It also holds the kernel's view of the child: `kp` (running, stopped, gone), `rep` (the wait status not yet collected), `termed` (sent SIGTERM) and `chld` (SIGCHLD pending).
  - The other variables are `poll_table`, the socket's message queue `rpc`, each FIFO's bytes `ctlq`, `pipe_data`, the two signal flags, a pending `sigterm`, `in_shutdown` and `running`.
  - SIGHUP, SIGTERM, SIGINT, SIGTSTP, SIGCHLD and SIGPIPE are masked everywhere except inside `ppoll` (lines 1201-1215), so one main-loop iteration is one atomic action: `ExitLoop`, `Reaper`, `StopAll`, `PollInterrupted` or `PollReady`. `PollReady` serves only the first readable descriptor in table order. Linux's `do_poll` reports ready descriptors before pending signals, so `PollInterrupted` (EINTR) happens only when nothing is readable.
  - SIGQUIT is not in that mask: `sig_quit` may set `stop_signalled` at any point of an iteration. The model delivers it, like the others, only at `ppoll`. The flag is read only at the top of the loop, so an earlier delivery acts at the same point, except that a SIGQUIT landing between that test and `ppoll` is not acted on until `ppoll` returns for another reason. That window is not modelled.
  - The member functions are operators on a record, composed in the C++ call order. For example, `EnactControlMessage('d')` is stamp, write, SIGTERM, SIGCONT, then `ChangeState`. `ChangeState` is the `change_state_if_necessary` table followed by `EnterState` or `WriteStatus`.
  - A SIGKILL, or an exit, replaces a stop report the reaper has not yet collected, as `waitpid` does.
- **ServiceManagerMC.tla** adds `inputs`, a count of client inputs bounded by `MaxInputs`. It draws control bytes from `Commands` and RPC messages from `RpcCmds` × `Svc`. Children exit at any time.

- **PtyRun.tla** models the Linux build of pty-run.
  - The loop is a program counter `pc`:
    - `top` is the test of line 172;
    - `poll` is after the flag tests and before `poll()`;
    - `blocked` is inside `poll()`;
    - `interrupted` means a handled signal arrived while blocked;
    - `finish` is lines 304–308.
  - The signal flags are kept as in the code. `stop_flags` holds the three termination flags.
  - `status` is the `int status(0)` of line 167. An exit code, `Killed` and `Stopped` stand for the wait statuses.
  - `inb` and `outb` are sequences of at most `BufCap` items. The child's bytes are numbered, so the relay's order can be checked.
  - The steps are `LoopExit`, `StopRequested` (lines 173–180), `Prepare`, `EnterPoll`, `PollInterrupted` (EINTR), `PollReturn` and `Finish`:
    - `Prepare` is the reaping of lines 181–193 with its SIGCONT, the pass-through flags, and the POLLOUT toggles.
    - `PollReturn` runs the five handlers of lines 264–301 in the code's order, on the readiness `poll()` reported.
  - The environment is:
    - the child: writes, reads, stops, and exit. Exit is `ChildClose` (the terminal is closed, which raises POLLHUP) and then `ChildNotify` (the wait report and SIGCHLD), in the kernel's order.
    - typing and EOF on stdin;
    - every signal pty-run handles.
  - A signal only sets its flag, and wakes `poll()` only when it comes at `blocked`: pty-run does not block signals, and `sa_flags` is 0.
- **Stream.tla** is the abstract specification of a byte relay. What the reader received is always a prefix of what the writer produced, and a delivery appends the next items in order.
- **PtyRunMC.tla** maps each direction of pty-run onto it:
  - `OutStream`: the child's writes to what stdout received;
  - `InStream`: what was typed to what the child read.

  Both use `INSTANCE Stream WITH`, with the abstract `Spec` checked as a property. It also states termination, completeness and exit-status properties.

- **Realizer.tla** models the main loop of console-fb-realizer (lines 4639–4769), with its display geometry and keyboard.
  - One iteration is two actions:
    - `Top` is the work before `kevent`: leave on a stop signal, then release the VT on `usr1_signalled`, acquire it on `usr2_signalled`, and update the display when `update_needed` is set.
    - `Wait` is the `kevent` call and what follows it: the signals it returns are handled, the input device is read to the end, the LEDs are refreshed and the buffer file is reloaded.
  - Signals arrive as `EVFILT_SIGNAL` events, so `handle_signal` runs inside the loop. Nothing runs concurrently with it.
  - `vt` is the `VirtualTerminal`'s geometry: the loaded header, the visible window and where it sits on the screen. `Reload`, `KeepVisibleAreaInBuffer`, `KeepVisibleAreaAroundCursor`, `SetVisibleArea`, `Position` and `TransferCursorPos` model the member functions of lines 816–1001 and 1265–1294. The cells themselves are left out.
  - Key events are `<<key, value>>` pairs that the device queues (`keyq`). `Wait` folds `HandleKeyboard` (`HIDBase::handle_keyboard`) over them. That fold picks the keymap column from the modifier state, then sends character input through `DeadKeys` and modifier actions through `KeyboardModifierState`. Any other key clears the dead keys and unlatches.
  - The environment has four actions:
    - `KeyEvent`: a press, a repeat or a release;
    - `Switch`: SIGUSR1 or SIGUSR2 from the kernel's VT switching;
    - `Stop`: SIGTERM, SIGINT or SIGHUP;
    - `BufferChange`: the terminal rewrites the buffer file, which raises `EVFILT_VNODE`.
- **RealizerMC.tla** gives `Realizer` a five-key map, three buffer headers and the properties:
  - the five keys are shift, caps lock, a level-3 latch, a letter whose level 3 holds two dead keys, and a function key;
  - the headers are an all-zero file and a 3×3 buffer, larger than the 2×2 screen, with its cursor shown or hidden.
- **KeyboardModifierState.tla** models the class of that name (lines 351–597):
  - the shift, latch and lock bit sets;
  - the LED and modifier queries;
  - the keymap column index for each kind of key (`QueryKbdmapParameter`);
  - `Event`, for momentary, latch and lock keys;
  - `Unlatch`.
- **DeadKeys.tla** models the input method (lines 1414–2594):
  - the three rule tables, transcribed;
  - `Combine`, the binary search over them;
  - the pairwise merging of dead keys;
  - the stable sort by combining class;
  - `HandleCharacterInput`, which maps the held dead keys and a typed character to the new held dead keys and the code points sent.
- **Pointer.tla** models the mouse pointer:
  - `handle_mouse_relpos`, `handle_mouse_abspos` and `handle_mouse_button`;
  - `adjust_mickeys`, in unsigned arithmetic;
  - the compositor's `change_pointer_row` and `change_pointer_col`.

  A state is a record of the pixel position, the pointer cell and the input messages sent.
- **HidFields.tla** models `GetUnsignedField` and `GetSignedField` (lines 2928–3018), which read a bit field of a HID report.
- **HidDescriptor.tla** models `USBHIDBase::read_description` (lines 3029–3176) and its `ParserContext` (2685–2731). It takes a report descriptor, a sequence of byte values, and gives each report ID's input and output layout:
  - variable fields, with their usage, position, size, relative flag and logical range;
  - array fields;
  - the report's size.

  `Step` is one pass of the item loop. `MainItem`, `GlobalItem` and `LocalItem` are its three cases, and the global stack follows Push and Pop.
- **HidReports.tla** models `HID::handle_input_events` of the BSD HID drivers (lines 3857–3956). The bytes of a read are appended to a buffer, and every whole report in the buffer is taken apart by the layout `read_description` made. The report ID byte comes first when the device uses report IDs. Its fields go to the mouse and key handlers (lines 3178–3237). After a read that saw key fields, `KeyEvents` sends releases and repeats of the old keys, then presses of the new ones.
- **SysMouse.tla** models class `SysMouse` (lines 3783–3813, 4045–4163), the FreeBSD sysmouse device read in the Mouse Systems protocol. A packet is a sync byte holding the three standard buttons, two X and two Y offsets (level 0, 5 bytes); at level 1 two 7-bit Z offsets and a byte of seven extra buttons follow (8 bytes). Its state is a record of the unconsumed bytes, the button bits last seen and the `Pointer` state. `HandleInputEvents` is one read: at most the room left in the 128-byte buffer is appended, then the loop drops bytes up to a sync byte (`SkipToSync`), stops short of five bytes, and handles one packet (`Packet`): X, Y negated, the wheel, the standard buttons, then the extra buttons. Since the driver may change level under the reader, a packet's level is guessed from the three bytes after its first five (`ExtPacket`, line 4134).
- **Evdev.tla** models class `HID` for Linux (lines 3240–3564), an evdev device. A read gives whole `input_event` records, at most the 16 the buffer holds (the kernel never returns part of one, so the byte offset of the C++ loop always returns to 0). `HandleEvent` is one pass of the loop: an absolute or relative axis goes through `TranslateAbsAxis` or `TranslateRelAxis` to the `Pointer` handlers, with 32767 as every absolute axis's maximum; one of the eight mouse buttons goes to `handle_mouse_button`; any other key goes through `linux_evdev_keycode_to_keymap_index` (`MainKeys` and `ExtraKeys`, the 172 entries of the switch) to `handle_keyboard`, which drops the bypass index. Codes and keymap indices are kept as their names, since the `KBDMAP_INDEX_` values are defined outside this repository. The state is the pointer and the sequence of <<index, value>> pairs given to `handle_keyboard`, which is what `Realizer`'s key events stand for.
- **HidOpenBSD.tla** models class `HID` for OpenBSD (lines 3565–3729). Its report loop (3630–3729) is the same text as the FreeBSD one, so its operators are those of `HidReports`. What differs lies around the loop: the descriptor comes from an ioctl, and `set_LEDs` is a TODO.
- **ATKeyboard.tla** models class `ATKeyboard` (lines 3756–3780, 3958–4017), a FreeBSD atkbd device in keycode mode. A byte is a key code in its low seven bits, with bit 7 marking a release. The keyboard repeats a held key by sending its make code again, and `KeyValue` tells a repeat (2) from a press (1) by the `pressed` array, which `HandleByte` then updates. `bsd_keycode_to_keymap_index` is defined outside this repository, so the code stands for its index. The state is `pressed` and the <<index, value>> pairs handed to `handle_keyboard`.
- **MachineId.tla** models the machine ID file line that `write_one_line` writes and `read_first_line_machine_id` reads, and `validate`, which makes an ID an RFC 4122 UUID. It also models the UUID text forms: `uuid_to_guid`/`guid_to_uuid` (the three integer fields of `uuid_t` byte-swapped between network and host order), `human_readable_form` (`uuid_unparse` on Linux, `uuid_to_string` on the BSDs), `human_readable_form_compact`, `write_one_line_hostuuid`, `read_uuid` and `read_first_line_uuid` (the 37-byte `getline`). The libuuid and BSD uuid string calls are modelled by what they do: the BSD ones print and parse time_low, time_mid and time_hi_and_version as host integers, so the host byte order (`ByteOrders`, little or big) is a parameter of every BSD operator. The fields are handled as bytes, most significant first, because a 32-bit time_low is outside TLC's integer range.
- **SystemStateChange.tla** models `system-state-change.cpp`. Each command is an operator from its program name, options (the set of option letters popt parsed, `help` for a stop) and arguments to a record `[sent, exit]`. `sent` lists the `<<target, signal>>` pairs `kill()` delivered, in order. `exit` is `SUCCESS`, `FAILURE` or `update`, the last when `init` chains to the update command. The operators are `stripfast`, `reboot_poweroff_halt_command` (with the `boot` name and `-f`), `emergency_rescue_normal_command`, and `init`. For `init` they cover its options, the `Action` enum's precedence, the loop over runlevel arguments and the final switch. A build is a record `[linux, halt, poweroff]`: the platform (which decides whether `-s` means rescue or emergency) and whether `FORCE_HALT_SIGNAL` and `FORCE_POWEROFF_SIGNAL` are defined, which adds HALT and POWEROFF to the enum. `fail` names the `kill()` that fails, so the two-signal commands can fail after their first signal.
- **TablesMC.tla** checks the pure operators. Its variables never change after Init. They hold one probe, and `index` says what kind it is:
  - 0–255 and the Unicode range boundaries: the colour table, the range tables, and the machine ID built from that byte;
  - −1: a typing sequence for `DeadKeys`;
  - −2: a sequence of mouse events for `Pointer`;
  - −3: report bytes for `HidFields`;
  - −4: two boot mouse reports and the offsets at which the reads split their bytes;
  - −5: the item widths and Push/Pop choice of a boot mouse report descriptor encoding;
  - −6: two sysmouse packets of either level and the offsets at which the reads split their bytes;
  - −7: a physical mouse button, 1 to 8;
  - −8: up to four AT keyboard bytes (make and break codes of caps lock and left shift, and the make code of A) and the offsets at which the reads split them;
  - −9: up to two `init` runlevel arguments (`b`, `s`, `h`, `0`, `6`, `2`, `update` and an unknown word) and a build; the properties range over the mode options and over a failing `kill()` themselves.

## Runs

Passing runs:

| Run | Checks | What it shows |
|---|---|---|
| parser_args | `TypeOK`, `ArgsMatchReference` | After any mix of controls, aborted sequences, restarts and flag bytes, a dispatched sequence that fits the array carries exactly the reference decoding's flag and arguments. This includes defaults, CUP's padding and DECSTBM's (1, rows). |
| tables | `SystemColoursDistinct`, `RampsIncrease`, `ClassificationMatchesScan`, `DeadKeyOrderIrrelevant`, `UnicodeRulesApply`, `IdLineRoundTrip`, `ValidateYieldsRfc4122`, `UuidFormsAgree`, `PointerTracksPixel`, `HidFieldsMatchReference`, `DescriptorEncodingsAgree`, `BootMouseReportsDecoded`, `SysMousePacketsDecoded`, `ButtonNumbersAgree`, `ATModifiersFollowKeys` | Colours: the 16 system colours are distinct (index 8's substitution is what makes them so), and the cube and grey ramps rise strictly. Unicode tables: at each of the 1,454 code points on or beside a range end, the binary searches answer what a scan of the table answers. This holds only if every table is sorted and disjoint under `operator<`. Dead keys: every rule of `unicode_combinations` applies when its dead key and base are typed, and two dead keys of different combining classes give the same result in either order. Machine ID: an ID survives its line format, in either case and with or without the newline, and `validate` always yields an RFC 4122 UUID that it then leaves alone. UUID forms: on Linux and on the BSDs, with a little- or big-endian host, the readable form of every sample ID is its compact hex form in 8-4-4-4-12 groups. That form, the hostuuid line (with or without its newline) and their upper-case versions all read back through `read_first_line_uuid` as the same ID. This is what makes the BSDs' `uuid_to_guid` swap of all three integer fields necessary; the mutant that leaves time_mid in network order breaks it on a little-endian host. Pointer: after up to three mouse events the pointer cell is on screen, and it is the cell under the pixel whenever that cell is on screen. HID fields: aligned fields and single bits read as their bits. HID descriptor: every encoding of the boot mouse descriptor parses to the boot layout. This covers item widths 0, 1, 2 and 4, and a Push/Pop pair. HID reports: two boot mouse reports, split across reads at any one or two byte offsets, give after every read the pointer and buttons that decoding the boot layout directly gives. Sysmouse: two packets of level 0 or 1 (with sign bits, a wheel move and extra buttons), split across reads at any one or two byte offsets, move the pointer and the standard buttons after every read as decoding the packets received so far directly does; when every read ends at a packet boundary, the wheel and extra buttons agree too. Mouse buttons: a press and release of each of eight physical buttons reaches `handle_mouse_button` as a press and release of the same Realizer button through the Linux evdev loop, the BSD HID button handler and the sysmouse decoder. Each driver has its own translation (evdev's `case BTN_*`, HID's `TranslateStdButton` swapping 2 and 3, sysmouse's swapping bits 0 and 2). The physical button is encoded as the kernels encode it: Linux's hid-input gives HID usage n the code `BTN_MOUSE + n - 1`, and sysmouse has left, middle and right in bits 2, 1 and 0 and button 4 on in the eighth byte. AT keyboard: any stream of make and break codes, split across reads, is fed through `ATKeyboard` and a keyboard map of caps lock (a lock), left shift (momentary) and A into `KeyboardModifierState`. After every read, the caps lock is on exactly when its key has gone down (a make code with no make code of the same key since its last break) an odd number of times. Level 2 is held exactly when the shift key's last code was a make code. The BSD HID boot mouse probe also runs the OpenBSD copy of the loop, which must agree. System state change: on each of the eight builds, with any subset of `-u`, `-s`, `-b` and `-o` and any order of up to two runlevel arguments (enough for any pair to come in either order), `init` does what the request of highest precedence asks. The reference takes the maximum over the set of requests, so the order cannot matter, which it would if one case assigned instead of raising. `init`'s runlevel words (`emergency`, `rescue`, `single`, `normal`, `default`, and `6`, `0` and `h` where defined) send the same signals to the same process as the dedicated commands, and fail the same way when a `kill()` fails. |
| term_motion | `RelativeMotionKeepsCursorOnScreen`, `PendingWrapLandsOnNextLine` | From any reachable on-screen state with valid margins, every command except absolute positioning and cursor restore keeps the cursor on screen. A glyph printed in the last column defers its wrap, and the next one lands at the start of the next row. |
| term_tabs | `TabStopLanding` | TAB, CHT and CBT land on the n-th stop in their direction, or at the line edge, after any HTS and TBC sequence. |
| term_save | `SaveRestoreRoundTrip` | DECRC restores the position of the latest DECSC or CSI s and the rendition of the latest DECSC, whatever happened in between. |
| sm_lifecycle | `TypeOK`, `StatusFileCurrent`, `NoUnloadWithLiveProcess`, `DownCommandStops` | Under any interleaving of LOAD, UNLOAD, the pipe and run-on-empty requests, the control bytes u d o x p k, pipe input, child exits and SIGTERM: supervise/status shows each loaded service's activity and want between iterations; no service is destroyed while its process is unreaped; a service told 'd' reaches NONE or is unloaded unless a client pauses its process. |
| pty_relay | `TypeOK`, `OutputComplete`, `OutputRelayedInOrder`, `InputRelayedInOrder`, `NormalExitEndsRelay` | Under any interleaving of child output and input, typing, EOF, short writes, stops, exits and signals: both directions refine `Stream`, so nothing is reordered or duplicated. A child that exits with a code has all of its output on stdout when pty-run exits, unless a stop signal cut the relay short. pty-run then ends. |
| realizer | `TypeOK`, `ComposeInBounds`, `BufferChangeShown` | The run interleaves key presses, repeats and releases, VT release and acquire signals, stop signals and rewrites of the buffer file to a smaller or larger size. Under all of them, every display update composes only cells inside the buffer as loaded and inside the screen, and only combining marks are ever held as dead keys. Under the loop's fairness, every rewrite of the buffer file is eventually shown unless the realizer stops first. 159,576 states, about 100 s. |

Violation runs. Each records a disagreement between the code and the specification or its comments; PROJECT.json lists them as findings.

| Run | Property | What TLC finds |
|---|---|---|
| term_margins | `ScrollRegionValid` | DECSTBM accepts a bottom margin past the last row. |
| sm_shutdown | `ShutdownCompletes` | LOAD, 'o', SIGTERM, 'o': `stop_and_unload_all` sets want 'd' once. An 'o' read afterwards replaces it, the service goes START → RUN with a run program nobody signals, and the loop waits for an empty `services` for ever. |
| pty_exit_status | `ExitStatusRelayed` | SIGTERM first, before the child has changed state. `status` is still the initial 0, which `WIFEXITED` takes for "exited with 0", so line 174 does not pass the signal on and line 306 does not wait. pty-run exits 0 and leaves its child running. The same initial value lets a POLLHUP seen before SIGCHLD end the loop with status 0, whatever the child exits with. |
| realizer_cursor | `CursorOnScreen` | An all-zero buffer file header, which is what an empty or not yet written file reads as, makes `VirtualTerminal::move_cursor` (line 892) clamp the cursor to `h - 1` in unsigned short, which is 65535. `transfer_cursor_pos` passes that on, and `Compositor::move_cursor` indexes `cur_at(65535, 65535)`. A hidden cursor outside the visible window gets there too, because `keep_visible_area_around_cursor` does not follow it. |

Building the model turned up more disagreements with the specification's text. They are not kept as runs. Each can be read directly off the operator that models the code:

- service-manager, line 216. LOAD, 'o', 'p', 'k', 'o': the start program is stopped, then killed. `paused` is never reset, because the kernel reports only the kill, so the run program that follows is shown paused while it runs. TLC found this with a property `PauseFlagMeansStopped`, no longer kept as a run.
- pty-run, line 172. A child killed by a signal never has an exit status, so the loop never ends. POLLHUP makes every `poll()` return at once, and pty-run spins for ever instead of reaching the `EXIT_TEMPORARY_FAILURE` of line 308. TLC found this with a property `KilledChildEndsRelay`, no longer kept as a run.
- console-fb-realizer, lines 1028 and 1359: the stuck pointer.
  - `adjust_mickeys` clamps the pixel position to `xres`, not `xres - 1`.
  - It also tests `max - d < pos` in unsigned long, so a move larger than the screen wraps the difference and is not clamped at all.
  - At or past the edge, `pixel_to_column` gives a column `change_pointer_col` refuses, so the pointer cell stays where it was. On a 40-pixel-wide screen, one relative X move of 60 leaves the pointer in column 0 while its pixel is at 60.
  - `PointerTracksPixel` states only what holds: the cell is on screen, and it is under the pixel whenever that cell is on screen.
- console-fb-realizer, line 1272. `position` glues the window to the right in quadrants 1 and 2 using `query_visible_w()`, which is the width the previous call set (0 at first). In those quadrants `screen_x` stays at the full width and `visible_w` at 0, so the terminal is never shown. The runs use the default quadrant 3.
- console-fb-realizer, line 4647. `usr1_signalled` and `usr2_signalled` are never cleared. Once both have been seen, every iteration releases and reacquires the display. `VT_RELDISP` is never called to acknowledge a release.
- `KeyboardModifierState::event`, line 567. A press of a level-2 key clears the LEVEL2 lock, and a momentary GROUP2 key changes the scroll LED, without setting `dirty_LEDs`. The LEDs then disagree with the state until a latch or lock sets the flag.
- `peculiar_combinations2`, line 1531. Its last entry, {0x338, 0xB0}, is out of order for the binary search of `Combine`, so it is never found.
- `peculiar_combinations2`, line 2583. 21 entries have result 0. A dead key with no spacing form then sends U+0000 when a base character flushes it, or when it is typed before a space.
- `KBDMAP_ACTION_UCS3` is used by `handle_keyboard` but not defined in this repository. The model names the action `"UCS3"`.
- `read_description`, line 3124. An array field records its usage minimum and maximum without the usage page. A boot keyboard's key array (Usage Minimum 0 on page 7) therefore yields usages 0..101, which `handle_key` ignores. Only the modifier keys, which are variable fields, reach the keyboard map. With the `HidDescriptor` and `HidReports` operators, a boot keyboard report of left shift and 'a' gives only the event <<458977, 1>>.
- `handle_input_events`, line 3879. It takes the report ID byte off before looking the report up. At an ID with no input report, it stops with that report's data at the front of the buffer. Such an ID could be a composite keyboard's consumer-control collection, which `read_description` never enables. Later reads are then parsed out of step: in the model, a shift press that follows is lost and the buffer is left as <<0, 1, 2>>.
- system-state-change.cpp, lines 43–89. `rescue` and `normal` send two signals, `SYSINIT_SIGNAL` then the mode's. When the second `kill()` fails, the command exits with `EXIT_FAILURE` after the manager has already received `SYSINIT_SIGNAL`; nothing undoes it. `SendSignals` models this, and `RunlevelWordsAgree` checks that `init` and the dedicated commands fail alike.
- system-state-change.cpp, line 40. In per-user mode the signal goes to `getsid(0)`, the caller's session leader, which is usually its login shell and not the per-user manager; the code's own FIXME says the mechanism cannot work. The model names the target `getsid(0)`.
- system-state-change.cpp, lines 277–328. `init reboot`, `init halt` and `init poweroff` are not runlevel words: they are warned about and ignored, and `init` with nothing else requests NORMAL. Only `6`, `0` and `h` reach those actions.
- `handle_mouse_button`, line 3205. `stdbuttons` is a `uint16_t`, so the bits of buttons 17 to 32 are lost. Such a button is reported pressed on every report and never released.
- `handle_input_events`, line 3937. The keys of all the reports of one read are merged before the events are made. A key pressed and released within one read is not reported until a later read.
- `SysMouse::handle_input_events`, line 4134. A level 1 packet whose read ends within its last three bytes is taken for level 0: its wheel move is lost, its extra-button change waits for the next level 1 packet, and its last three bytes are later skipped as garbage. This is why `SysMousePacketsDecoded` compares the wheel and extra buttons only when reads end at packet boundaries. The comment at line 4120 calls the level race unavoidable; a read that splits a packet makes it happen with no level change at all.
- `handle_input_events` (BSD HID, FreeBSD line 3881 and OpenBSD line 3654), with report IDs. The report ID byte is taken off the buffer (line 3875) before `offset < report.bytes` breaks out to wait for the rest of a report. The report is then completed without its ID, and the next read takes its first data byte as the ID. With the boot mouse layout under report ID 1, the reads <<1, 1>> and <<5, 0, 1, 0, 0, 0>> give the left and right buttons down and Y + 1. Read whole, they give a left click and X + 5. Every later report is misparsed, and the unknown ID 0 leaves <<0, 0>> in the buffer. `BootMouseReportsDecoded` uses a device without report IDs, where the split is handled correctly.
- `SysMouse::SysMouse`, line 4051. `stdbuttons` and `extbuttons` start at 0, which in this protocol (a set bit means up) reads as every button down. The first packet therefore reports the release of every button that is up, none of which was pressed. The reference decoding in `TablesMC` starts from the same state, so the invariant does not flag it.
- `HID::handle_input_events` (Linux), line 3537. Every absolute axis is scaled as if its range were 0 to 32767; the device's range (`EVIOCGABS`) is never asked for. A touch screen reporting 0 to 4095 reaches only the first eighth of each axis, a small top-left corner of the screen; and a negative value, converted to `unsigned long`, wraps. TLC's 32-bit integers cannot hold the wrapped value, so the probes keep absolute values in range.
- `handle_mouse_movement`, line 3191. An absolute axis is scaled by `max - min + 1` without subtracting `min` from the position.
- `handle_input_events`, line 3934. A report of 0 bytes never advances the loop.
- `FinishArg`, SoftTerm.cpp:109. With the array full, it shifts `args[1..argc-1]` down but leaves `args[argc-1]`. With three slots, `CSI ;7;m` dispatches <<7, 7>>: the next-to-last argument is duplicated and the newest is lost. The description says the oldest is dropped.
- `Index` and `CursorDown`, SoftTerm.cpp:365 and :491. With the cursor below the bottom margin they take the scroll branch, which sets `y` to the bottom margin, so LF, VT, IND, NEL and CUD move the cursor up.
- CNL and CPL, SoftTerm.cpp:1133. They set `x = 0` and call `CursorDown` or `CursorUp`, which call `UpdateCursorPos` only when `y` moves. At the margin, the screen keeps showing the cursor at its old column.
- pty-run, lines 213 and 307. TLC found both with temporary properties; no run is kept for them.
  - A SIGTERM delivered between the flag tests and `poll()` waits for the next I/O, because it sets only its flag.
  - A child is stopped, then a stop signal breaks the loop before its SIGCHLD is handled. No SIGCONT is sent, and `waitpid(child, &status, 0)` waits for ever for a stopped child that cannot act on the SIGTERM it was sent. This is why `PtyRunRelay.cfg` says `CHECK_DEADLOCK FALSE`: that wait is the one state where the model stops without exiting.
- `Write`, SoftTerm.cpp:993. In CONTROL, `decoder_error || overlong` is tested first, so the branch that would print an overlong character is dead. An overlong character inside a control sequence is dropped.
- `Map256Colour`, line 585. Cube level 5 is 7 × 32 = 224, so index 196 is (224, 0, 0) rather than full red.
- `GotoX`, `GotoY` and `GotoYX`, lines 413–451. They do not clamp. This is why `RelativeMotionKeepsCursorOnScreen` leaves them out.
- `DeleteLines` and `InsertLines`, lines 204–220. They scroll from the cursor row to the bottom margin even when the cursor is outside the region.
- `CursorUp`, line 475. From inside the region it can pass the top margin.
- `EraseCharacters`, line 184. It clamps n to `w - 1 - x`, one cell short of the line end.
- `ClearDisplay`, line 141. It fills with the current background even when background colour erase is off.
- `RestoreAttributes`, SoftTerm.cpp:683. DECRC before any DECSC copies `saved_attributes` and the saved colours, which the constructor never initialises. The model holds them as `Indeterminate` until the first save.
- `enter_state`, service-manager.cpp:527–545. `STOP` does not write the status before it forks, and a failed `open_exec_at` or `fork` just returns. With `ForkOutcomes = {TRUE, FALSE}`, `StatusFileCurrent` fails: the start program fails to exec, 'd' moves the service to STOP, and the stop program fails too. The service is then wedged in STOP with no process, while supervise/status still says START.
- `load`, service-manager.cpp:814. It looks services up by the service directory's identity but inserts them under the supervise directory's. Only the lock file stops a second LOAD from reinitialising a loaded service. `open_lockfile_at` is not in this repository, and the model takes the lock to fail.

Each property of a passing run has a mutant in PROJECT.json: a plausible bug in the operator that models the code, which TLC must catch under the run's configuration.

`SoftTermMC` has no type invariant. Every SoftTerm coordinate is an unsigned 16-bit value and every colour channel is reduced modulo 256 before it is stored, so no slip in the code can take a field out of its type's range. A missing clamp wraps around instead, to 65535 for example. `RelativeMotionKeepsCursorOnScreen` is the property that catches such a wrap. In `RealizerMC`, the part of `TypeOK` a code slip can break is that `dead_keys` holds only combining marks. Its mutant inverts the enclosing-mark test of `handle_character_input`, and TLC then finds the letter 'a' held as a dead key.

## Bounds

- Screens are 3×4 (2×2 in `term_save`), and DECSLPP may pick 4 or 5 columns. These sizes are large enough to have an interior row and column, a scroll region strictly inside the screen, and a margin at both ends.
- `ArgCap` is 4, so an array can both fit and overflow within `MaxParams` parameter bytes.
- Arguments stay in `ArgValues`: single digits, or the SGR and mode numbers a run needs (41, 117).
- Each run's alphabet holds only the finals and controls its question needs. This keeps every run under five minutes.
- `ServiceManager` runs use one service and at most 4 client inputs. That covers a full load → start → run → down → unload cycle, a shutdown that races a control byte, and pipe activation (LOAD, MAKE_PIPE_CONNECTABLE, MAKE_INPUT_ACTIVATED, a pipe write). Children exit at any point with any status, which makes every activity and every table row of `change_state_if_necessary` reachable. Two services made the lifecycle run take more than five minutes. Every property here is about one service and the manager's shared loop, so a second service adds only interleavings of independent records.
- `sm_lifecycle` leaves out '_': it asks for down without signalling, so a run program may legitimately keep its service up.

- `PtyRun` runs have:
  - 2-item buffers, so a write can be short and the memmove matters;
  - a 3-item output queue, more than a buffer, so the relay must read more than once after a hangup;
  - a 1-item input queue, so a write to the master can be short;
  - 3 items of child output and 2 typed items;
  - exit codes {0, 1} and a kill.
  - pass-through off. In pass-through mode a stopped child is never continued by pty-run, and the terminal-mode flags carry no data in the model.

  The relay run takes about 100 s.

- `Realizer` runs have:
  - a 2×2 cell screen in quadrant 3;
  - buffer headers of 0×0 and 3×3, one smaller and one larger than the screen, so a reload can both shrink and grow the buffer under the window;
  - five keys, enough for a shift, a lock, a latch, dead keys and a non-character key;
  - at most 3 key events, enough for a press, a repeat and a release, with a device queue of 1. A read then holds one event; `Wait`'s fold over a longer queue applies the same `HandleKeyboard` to each event in turn;
  - one VT switch signal and one buffer rewrite, besides any number of stop signals (at most one pending).

  Each further switch or rewrite multiplies the state space. Every property is about one reload or one switch relative to the loop's two steps. The realizer run takes about 100 s.
- The `tables` run has no bounds of its own. It enumerates its probes:
  - every colour index;
  - every Unicode range boundary;
  - all 256 values of the validated bytes;
  - every pair of letter marks before every ASCII letter;
  - up to three mouse events from a set at and past the screen's edges and the absolute range;
  - report bytes with the sign bits set at field positions and lengths on either side of byte boundaries;
  - descriptor encodings at every item width;
  - two boot mouse reports cut at any one or two of the five inner byte offsets;
  - AT keyboard byte streams of up to four codes, in one to three reads: enough for a press, a repeat and a release of one key, or two keys interleaved;
  - two sysmouse packets, from level 0 and level 1 packets with negative offsets, a wheel move and extra buttons, cut at any one or two inner offsets (up to 15 cut points).

Every violation TLC reports lies within these bounds. The passing properties compare states against each other, so a larger screen adds no new case.

## Fairness

The `SoftTerm` runs check no liveness property and assume no fairness. The terminal acts only when a client writes to it, so every step is an unconstrained environment input.

`ServiceManagerMC` assumes:

- weak fairness of the manager's loop. It never blocks while it has work: every enabled iteration (a pending flag, a readable descriptor, a pending signal) is taken.
- weak fairness of `ChildExit` for a child that must end, `MustExit`: a start, restart or stop program, or a run program that has been sent SIGTERM. A run program that was never signalled may run for ever, and a stopped process never exits.

Client inputs have no fairness.

`PtyRun.Spec` assumes:

- weak fairness of pty-run's own steps. It is a single-threaded process that is always runnable when it is not inside `poll()` or `waitpid()`, and it is never enabled in those calls unless the call would return.
- weak fairness of `ChildNotify`. A child that has closed its terminal while exiting is reported to its parent.

The child's writes and reads, and the user, have no fairness.

`Realizer.Spec` assumes:

- weak fairness of `Top`. The loop is the process's only thread.
- that `Wait` is taken infinitely often when `kevent` has an event ready from some point on. This is weak fairness of `Wait`, with `KeventReady` written out for `ENABLED`.

Both follow from a single-threaded loop that blocks only inside `kevent`, which returns once an event is queued. The keyboard, the kernel's signals and the terminal have no fairness. Standard output is taken to be always writable: a reader that stops reading would block pty-run, and no property here is about that.

## Not modelled

- Cell contents. The model records the `WriteNCells` and scroll calls, not the glyphs stored on the screen.
- The Unicode classification inside `SoftTerm`: `Print` takes format and combining characters as constant sets. `UnicodeClassification` checks the tables on their own.
- The bell, RIS and `CSI x`, which only log a TODO.
- Logging.
- `SumArgs` wrapping at 65536, which needs seven arguments of 9999.
- In service-manager:
  - PLUMB, and which descriptors a child inherits;
  - pids, times and the four exit status slots of the status block;
  - processes a child forks itself (one process per service, so `killtop` and `killall` coincide);
  - strangers' wait statuses;
  - the BSD kqueue loop;
  - the sleep(1) after a failed fork.
- In pty-run:
  - option parsing and the fork;
  - the BSD kqueue loop;
  - window sizes and terminal modes (their flags are kept);
  - children other than its own (line 184 stores a stranger's status too);
  - the blocking mode of the master descriptor, which is opened outside this repository. The model writes what fits.
- In console-fb-realizer:
  - the cells, fonts and painting. The display is kept as geometry and the header it was composed from.
  - the framebuffer and keyboard ioctls, and the console's mode switching (`VT_SETMODE`, `KDSETMODE`), which are calls to the kernel;
  - the composition of the keyboard drivers with the main loop: `Realizer` takes keyboard map keys as its key events, which is what `Evdev` hands to `handle_keyboard`; the two are not composed into one run;
  - `HID::set_LEDs` (the evdev LED output events), a write to the device;
  - the sysmouse level switch (`save_and_set_sysmouse_level`, `restore`), which is terminal ioctls;
  - the use of HID output reports (a HID keyboard's LEDs); `read_description`'s layout of them is modelled;
  - the input messages' byte encoding;
  - `usb_ident_to_keymap_index` and the keyboard map files, which are defined outside the sources and taken as the identity and as `MCKeymap`.
- The keyboard maps. `kbdmap_default.cpp` is written with the `SIMPLE`, `SHIFTABLE` and `CAPSABLE` macros of `kbdmap_entries.h`, which is not in this repository, so what its entries hold cannot be read off the source. `keycode_to_keymap_index` (`keycode_to_map.cpp`) and the wscons tables are called from nowhere in this repository; the realizer calls `bsd_keycode_to_keymap_index` and `linux_evdev_keycode_to_keymap_index`, which are defined elsewhere. The models take the map as `MCKeymap` and a keycode as its own index.
- In system-state-change: popt's parsing itself (it is not in this repository), the messages printed, and the signal numbers, which are defined in a header outside it; signals are named.
- In machine_id: `uuid_generate` (a random ID), the syntax-only model of the uuid string parsers (the results of strings outside the 8-4-4-4-12 hex shape are not modelled further), and the fallback sources (`/etc`, `/var`, the host UUID, a random ID), which are file and kernel I/O.

## Plan

Later modules will add:

- in `ServiceManager`: PLUMB, a service's child forking its own children (killtop vs killall), and the fork-failure case as a run of its own;
- `SoftTerm` composed with `UnicodeClassification`, once a run's alphabet includes marks;
- in `Realizer`: the mouse and the HID report loop composed into the main loop, a boot keyboard run of `HidReports` that shows the usage page defect, and a check of the LEDs against the modifier state.
