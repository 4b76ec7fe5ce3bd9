# A TLA+ model of the Pound-Drever-Hall locking system

The repository is a laser lock on a Red Pitaya: FPGA logic (`core/hw/rtl`), a TCP
server on its processor (`core/sw`) and a Python client with a GUI (`client`).
This directory models the protocols between those parts and the state machines
in them, checks them with TLC and proves what matters most with TLAPS. Paths
below are relative to `src/`.

## The system

| component | state | operations | talks to |
|---|---|---|---|
| DMA engine, `dma_controller.sv` | state, burst address, beat, data register; enable synchroniser | address, data and response phase of an AXI3 burst; retry; reset | BRAM read port, HP0 slave and DDR, orchestrator |
| BRAM capture, `bram_controller.sv` + `dc_bram.sv` | state, address, decimation counter and code, memory | start, capture an edge, reset | orchestrator (enable, ready), DMA engine (read port) |
| Command port, `pdh_core.sv` 108-305, 666-746 | three synchroniser words, strobe detector, latched command, about 40 registers, callback, interrupt | latch, execute, answer, reset | server through two GPIO words |
| Orchestrator, `pdh_core.sv` 636-664, 804-911 | ARMED / RUN_BRAM / RUN_AXI / STALE, ready synchronisers | run a capture, run a transfer, raise the interrupt | capture, DMA engine, UIO |
| FIR filter, `fir.sv`, `fir_tap.sv` | coefficient memory, tap registers, adder tree | write a coefficient, commit, filter | command port |
| PID, `pid_core.sv`, with `cmd_set_pid` | copies of eleven coefficients, integral sum, average of the error, decimation counter and stages of an update | update at one edge in `dec`, write one coefficient, reset | command port, ADC, DAC |
| NCO, IQ demodulator, routing, DAC | pipelines and phase words | one sample per edge | command port, ADC, DAC |
| Server, `server.c`, `control.c`, `hw_common.c` | one connection, one command context, UIO descriptor, CSV files | accept, parse, one of 14 handlers, reply | command port, UIO, DDR, client |
| Client API, `pdh_api/api.py`, `types.py`, `fir_design.py` | `_api_lock`, the address of the server, local CSV files; enumerations and column labels | one call per command, SFTP fetch, lock point, metrics | server |
| GUI, `gui.py` | fields and buttons of eleven panels, event loop, timers, one thread per call | starts calls, shows results, autolock and persistent autolock, Reset Connection | client API |

What is hard about it: words and flags cross three clock domains without
handshakes; ready flags are levels read through synchronisers of several edges,
and only the right edge of the right flag means "done"; the AXI slave stalls,
refuses and is not reset with its master; the server reads callbacks on a timing
assumption, and waits for one interrupt among others that nobody drains; a
client call that times out leaves its request with the server; files are
shared by threads outside the lock, and so is the address of the server; an
autolock is three commands and a fetch with no lock across them, and its timers
outlive their ids; and every selection and column passes by number or position
through lists in three languages. Pipelines whose stages disagree in depth by
one edge are the other source of trouble. `PROJECT.json` lists the hazards at
their lines.

What makes each part correct: the engine fills exactly its buffer, never
answers ready over a hole, and agrees with its slave on beats; the capture holds
known samples at known addresses; a strobed command is executed once, whole and
in order, and its answer is its own; a frame is from one capture under one
routing, and a call gets its own; the filter's taps hold a set somebody asked
for; calls are executed in the order of the lock, and neither the lock nor the
server is held for ever; what a panel or a script was told has succeeded is in
force, in the registers and on the signals named, and is shown as it is; a curve
shows the signal its legend names; an autolock rests on the feature that was
there to lock on, on one device, whole. The PID works with the coefficients it was last given, its numbers
stay in their widths, and its integral is not stuck at a rail.

## Modules

    DmaTransfer    <-- implemented by --  DmaController   <-- DmaProofs
                                          BramController  <-- FrameProofs
    CommandQueue   <-- implemented by --  CommandPort     <-- PortProofs
    FramePath  uses the actions of CommandQueue (its port)
               and DmaTransfer (its engine)               <-- FrameProofs
    FirLoad    uses the actions of CommandQueue           <-- FirProofs
    PidCore    one word of the port at a time             <-- PidProofs, MCPidCore (its requests)
    Session    stands alone: above the handlers           <-- SessionProofs
    Types <- Columns <- Handlers <- Client                <-- ClientProofs, MCClient (entries, plants)
                        Analysis <- Client
    Gui        stands alone: the threads and timers above the API   <-- GuiProofs

* **DmaController** - one step is one edge of `aclk` (or the assertion of
  reset). One action per state and outcome of the RTL: `Idle`, `Start`,
  `AddrWait`/`AddrAck`, `DataWait`/`DataAck`, `RespWait`/`RespOkay`/`RespError`,
  `ResetAssert`/`ResetEdge`. Every action contains what every edge does besides:
  the registered read of the BRAM (`ReadBram`) and the enable synchroniser.
  Words are named by their BRAM address, so that the contents of DDR show which
  word landed where. The slave is external: it stalls, answers with OKAY or an
  error, in order.
* **DmaTransfer** - the promise: bursts land in order, a refused burst is taken
  back and moved again, `busy` falls only when all have landed.
* **BramController** - one step is one edge of `pdh_clk`. A sample is the number
  of edges since the capture began. The counter keeps its width (`DEC_MOD`), as
  code 0 runs through all of it. Its definitions are named `Capture...` where
  `FramePath` has the same name, as `FrameProofs` is about both.
* **CommandPort** - the handler's two writes and its read at one end, the RTL at
  the other. The first flip-flop samples each changed field old or new at the
  edge after a write (`Sampled`): for a field of several bits, any value. The
  registers of five commands stand for all: `set_led` for the handlers of one
  word, `set_rot` for staging and commit, `config_io` with the reset bit of its
  uninitialised word, `reset_fpga`. `DWELL` and `READ_DELAY` are the edges a word
  is held and the edges before a read, which the code leaves to the bus. With
  `DWELL = 1` or `READ_DELAY = 6` the properties fail: 2 and 7 are tight.
* **CommandQueue** - the promise: words become the command once, in order.
* **FramePath** - `cmd_get_frame` step by step, the orchestrator's four states,
  capture and engine as above but shortened, the interrupt with UIO's counting
  and masking. `pdh_clk`, `aclk` and server steps interleave freely, so every
  ratio of clocks is covered. Samples are named by the call whose codes routed
  them; `ddr` holds sets of names per burst, so that mixtures show. Two guards
  carry durations: a capture and a transfer are 2^14 long and outlast the
  synchronisers they are seen through (`CaptureMayEnd`, `TransferMayEnd`), and
  the server's timer outlasts the port and its own capture (`TimedOut`).
* **FirLoad** - `cmd_set_fir` as a program of words, the FIR registers and
  memory, the tap registers.
* **PidCore** - one step is one edge of `clk` (`Disabled` or `Enabled`), alone
  (`Clk`) or with the write of one register (`Coefficient`); `Sample` changes the
  input between edges. The arithmetic is the code's at widths that are constants:
  wrapping (`ToSigned`) and saturating (`ToRange`) are told apart everywhere, and
  shifts round down. `Fixed` is the request after `lrintf` and the handler's limits,
  `Kept` what the register keeps of a payload (the bias negated, of the enable bit 0
  only), `Copied` what `pid_core` makes of the registers. Three histories go along:
  `ideal` is the error, the average and the products of a controller that computes in
  integers, with no width but the saturation of its error, and is what the output is
  compared with; `lowered` and `strained` say that a shift of the limit was lowered
  under the running loop, or that an error left half the range of its width.
* **Session** - `execute_cmd` and `api_get_frame` in threads, the accept loop.
  Calls are numbered in the order of the lock. A call is a `get_frame`, any other
  command, or a `cut` one: a request longer than the server's buffer, for which
  `dispatch_command` finds too few arguments and runs no handler, and which `main`
  answers with the 0 that `func_status` starts with (`DispatchFails`).
  Histories: `executed`, `alone`.
* **Types**, **Columns** - `types.py` as it is written, and the lists it must agree
  with: the word `pdh_core.sv` packs, the structure `hw_common.h` lays over it bit by
  bit, the fields `cmd_get_frame` prints. `Holds` computes which signal, if a whole
  one, a printed number is.
* **Handlers** - each handler of `control.c` as an operator that gives the set of its
  outcomes: registers, status, answer, file. Limits, rounding to even, unsigned
  readings of negative numbers, widths of fields and the folding of the NCO's shift
  are the code's. `Handle` is `load_context` and `dispatch_command`. Behind the
  selections stand the multiplexers of `pdh_core.sv`, as lists of signals.
* **Analysis** - what the client computes from columns: lock point, angle,
  correlation lag. Quotients are kept as numerator and denominator, a denominator of
  0 being what numpy gives for it.
* **Client** - one call at a time: `Enter` (the panel's checks), `Exchange` or
  `Unreached`, `Raise`, `Return` or `Fetch`, `Show`; `FindLock` between the commands
  of an autolock. A late answer is the execution of the command with its answer lost.
* **Gui** - the event loop. `Click`, `Edit`, `Callback`, the timers (`Fires`,
  `OrphanFires`) and `Start`/`Stop` are its turns; a thread goes by `execute_cmd`,
  `Fetch`, `Post`. Commands are one step, as `_api_lock` makes them; between them
  anything may happen. A file that is fetched while another thread is at its sweep
  may be `Partial`. The gains of the PID panel are in range, no number, which raises, or
  past the end of their range, which an autolock does not look at and `cmd_set_pid`
  limits without an error (`Held`). A lock point is named by its sweep and channel, so that a lock
  made of two shows. History: `alone`, the threads no other came between.

Constants carry named assumptions (`DmaAssumption`, ...), each evaluated by the
runs. Definitions called *mutants* in comments are plausible bugs: `PROJECT.json`
names for each property one that breaks it.

## Runs

| run | question | size |
|---|---|---|
| `dma_engine` | engine against a stalling, refusing slave: 7 properties | 3 bursts of 4 beats |
| `dma_fidelity` | is DDR a copy of the BRAM? **no** | 2 bursts of 4 |
| `bram_capture` | which sample is at which address | 6 words, codes 0 1 2 3 7 of a 3-bit counter |
| `command_port` | is the port a queue, are answers the command's own | 2 payloads, all handlers in any order |
| `frame_path` | own, whole, unmixed frames; a quiet call is woken | 2 calls, 2 bursts, 2 code pairs |
| `fir_load` | does success mean loaded, is the first load atomic | 2 taps, lists of 1 to 3 of 3 values |
| `pid_loop` | coefficients in force, integral in its width, output faithful, integral leaves a rail | words of 5 bits, samples of 3, shifts 4 to 5, samples -4 and 3, 3 requests in any order |
| `pid_windup` | does anti-windup freeze outward for every sign? **no** | same, one request with a negative output gain |
| `session` | order, answers, undisturbed frames, progress | 3 calls of 3 kinds, backlog 2, 2 pieces |
| `client` | in force, shown, labelled, locked on the feature | 2 calls of any operation, sweeps of 8 points, one in unequal steps, 3 plants, 4 traces |
| `gui_lock` | is a lock whole and on its host, do the panels agree | 2 hosts, 2 channels, 5 buttons, 4 kinds of gains, 2 threads, 1 edit |
| `gui_persist` | one relock at a time, buttons come back, relocking goes on | 1 chain of lost timers, 1 edit, 1 reset, 1 hang |

Bounds, and why they are enough. Three bursts have a first, a middle and a last
one; four beats are more than the read pipeline is deep, so both lags of
`BeatLag` occur; `HP0_BASE_ADDR = 4` is not 0. Six words and codes 0, 1, 2, 3
and the largest of a 3-bit counter reach every branch of the counter. Two
payloads are enough to tell an old word from a new one. Two calls of
`cmd_get_frame` with any number of other commands and resets between give one
call that leaves something behind and one that meets it. Three coefficients for
two taps wrap the address; loads and resets repeat without bound. Three client
calls give a call given up, one in the server and one queued. The PID's words are narrow but keep
the relations of the code's widths (`B > DAC`, a sum of `B + 4` bits, a least shift
of `B - 1`); the two samples are the ends of the converter, and `Extreme` puts every
coefficient at or past the end of its register, so every saturation and every wrap
of differences occurs. Input gains of 1.0 and 2.0 take the errors through half their
range to its ends, where the difference of error and average needs all its bits, and
3.5 takes them beyond, where it wraps and kp = -1.0 meets the lowest error: without
`strained` the run fails, and a difference of one bit less is found.

Two calls of the client are one that leaves routing, files or registers behind and
one that meets them; the entries hold the ends of every range and what lies past
them, every enumeration, angles on both sides of each quadrant, lists of coefficients
shorter and longer than the taps and requests too long for the buffer (64 bytes and
8 floats stand for 1024 and 64). Of the plants one has its maximum first, one its
minimum, one a peak and nothing dispersive; sweeps run up, down and over no range.
The threads of `gui_lock` are two, enough for one to come between the steps of the
other; `gui_persist` has a timer chain besides the one in order, and with it three
sources of ticks. Calls, edits and resets run out, which is why `Session`, `Client`
and `Gui` are checked with `CHECK_DEADLOCK FALSE`; nothing else is.

### What the violated runs show

* **Data are late in every burst** (`dma_fidelity`). `bram_addr_o` is the beat
  being sent; the word passes the BRAM's output register and `data_r`. With no
  stall slots 0..15 of a burst get words 0,0,0,1,..,13 (or the first from the
  burst before). `BeatLag` is the exact statement of what does hold.
* **Anti-windup by the sum's own direction** (`pid_windup`): the freeze compares the
  next sum with the present one and the output with its rails, and no gain. With a
  negative `ki` or output gain the directions are swapped: the sum winds up further,
  and freezes when it ought to unwind. `LeavesRail` says what holds for a positive
  loop.

Two hypotheses of what holds were found with TLC and are kept as they are:

* A reset in the middle of a burst (`MidBurstReset = TRUE`) leaves the slave owed
  beats; the next frame has holes though reported ready (`ReadyMeansWritten` fails).
* `OutputFaithful` is limited to output gains of 5.0 either way. From about 5.2 the
  scaled sum may be at the end of its 20 bits, and adding the offset of 8191 wraps.
  It is limited to errors within half of their 16 bits, too. With 14-bit samples and
  input gains up to 1.0 they always are; a higher gain can take them beyond, and then
  the difference of error and average may wrap (`pid_core.sv:135`), which turns the
  derivative term round and pulls the average away from the error. At the lowest error
  kp = -1.0 gives a proportional term of +1.0, which is -1.0 in 16 bits (line 143).

### What the restrictions of the other properties say

A hypothesis of a property marks a place where the code does less than its
documents say; each of these was found as a counterexample and kept as a condition.

* `FreshFrame` needs a quiet path: one earlier command leaves an interrupt that
  nobody drains, and wakes the next `select` before its transfer (`README.md:137`
  has the interrupt mean that the transfer is done).
* `FirstLoadAtomic` is about the first load after a reset: `CHAIN_WRITE_EN` is never
  cleared, and later loads go live coefficient by coefficient (`README.md:178` calls
  every load atomic).
* `AloneGetsOwn` needs a call nobody overlapped: the CSV is fetched outside the
  lock, and another thread's frame may be in it (`api.py:98`, `api.py:359`).
* `LockIsWhole` needs a thread nobody came between. Two autolocks at once, one of
  them the persistent one's, can leave the routing of one and the lock point of
  the other, both reported as locked; a click after the address was changed sends
  the rest of an autolock to the new host.
* `Documented` limits `OkMeansInForce` to what the docstrings allow where a handler
  clamps silently: rotations beyond 180 degrees, which the GUI does not check, DAC
  voltages and PID values past their ends, and a negative NCO frequency, of which the
  handler takes the size. A list of coefficients longer than the
  request buffer loses its `U` line, and the call reports status 0 though nothing
  was loaded (`api_set_fir_coeffs`).
* `OkMeansExecuted` excepts cut requests, and says of them that they are not executed:
  status 0 tells the client nothing there (`server.c:268-275`). The same call is the long
  list of coefficients above.
* `PanelsAgree` compares the panel with the device through the limits of `cmd_set_pid`:
  an autolock sends the gains of the PID panel without the checks of its Apply button
  (`gui.py:1461-1471`), and after a lock with kp at 2.0 the panel shows 2.0 and the
  device holds the end of the range, which nothing reports.
* `RoutingFollows` says nothing after an error: a sweep that cannot open its file
  leaves DAC 1 on its register.
* `LocksOnFeature` is about a strictly monotone feature within `peak_pts`, and a sweep
  whose steps are equal after they are cut to whole codes. Two points
  at one voltage make the slope infinite or no number, which passes both checks of
  `_autolock_bg`. Over unequal steps `np.gradient` weights the two differences at a
  point, and the steepest derivative may be less steep than the chord: steps of 1, 2, 1,
  2, 1 codes with slopes of 1 and 50 in turn give 17.3 in the middle where the chord has 29.
  An input gain that rounds to the end of its register, one bit below `EGAIN_LIMIT`, may
  miss by a whole bit instead of a half.
* `ButtonComesBack` and `KeepsRelocking` except a transfer that hangs: SFTP has no
  timeout, and the persistent autolock, which Reset Connection does not reach, then
  waits for ever.

Seen on the way, and not made properties: both ends of the shift range, which the
docstring of `api_set_nco` and the GUI accept, are refused, as the float of 180
degrees lies above `M_PI`; the two IQ inputs of the filter, which the GUI offers,
are refused by `cmd_set_fir`; a sweep of DAC 2 whose source is not the register
drives nothing (`api.py:401`); `_persist_tick` checks no range, only that its fields
parse; the doc of `compute_lockpoint` speaks of a zero crossing where the middle of
the steepest run is taken.

Two more observations: the interrupt of a command precedes its callback by two edges,
which is harmless as nobody waits for it there; and a call of `cmd_set_pid` with an
enable other than 0 or 1 is reported as failed after it has disabled or enabled the
controller (`OkMeansInForce`).

## Fairness

`DmaController`: the clock runs, the slave accepts what stays offered, and does
not refuse for ever (strong fairness of `RespOkay`: with weak fairness a slave
that always answers with errors keeps the engine retrying for ever, as the code
would). `BramController`: the clock runs. `FramePath`: both clocks run, a strobed
word is latched, capture and transfer end (shown by the other two modules), the
interrupt is delivered, the server goes on with its call. *No* fairness on
`TimedOut`, on new calls or on other commands: `WakesUp` holds without the timer.
`PidCore`: the clock runs and a call of
`cmd_set_pid` goes on; none on samples, on new requests or on resets, and the two
liveness properties are about loops that are left alone from some time on.
`Session`: a call goes on or times out (`CMD_TIMEOUT_S` bounds both connect and
recv), the server goes on with what it has; no fairness on SFTP or restarts.
`Gui`: callbacks are run, timers fire, commands end and files arrive unless they hang;
nothing is assumed of the user, and a transfer that hangs stays so. `Client` has
no liveness.

## Proofs

`DmaProofs`, from `DmaAssumption` only, so for every address, burst length,
frame size and depth of the slave:

* `Typing` (`IType`): typing, with what ties registers to the state - the address
  past the end occurs in IDLE only, the beat past the end in AWAIT_RESP only - and
  gives `StaysInFrame` (`AddressInFrame`), with resets at any moment and BRESP
  driven or not.
* `LagBounded` (`BeatLag`): `ILag` adds where the BRAM's output register is in
  every state, since what is offered now was fetched under the registers of two
  edges ago.
* `Agreement`, `Complete`, `Refines`: under no reset in the middle of a transfer
  and BRESP driven. `IFill` says that the slave's queues mirror the master's state
  and that exactly the slots below the present burst and beat are written; from
  it `BurstAgreement`, `ReadyMeansWritten`, and the step simulation of
  `DmaTransfer` follow. The two hypotheses are needed: without the first
  (`MidBurstReset = TRUE`) TLC finds a counterexample; without the second a refused
  burst passes.
* `Held` (`HeldUntilAccepted`) needs typing only.

`PortProofs`, for any payloads. A word crosses three flip-flops, and the first may
sample each changed field old or new at the edge after a write, so the level of the
strobe says nothing about the other fields.

* `PortIsQueue` (`ImplementsQueue`), where a word is held two edges: the refinement of
  `CommandQueue`. `ISettled` gives, by the edges since the last write, how far the level
  of the strobe has come; a strobe-low word differs from the next strobed one in the
  strobe alone, which is why a first sample is either the old word or the new.
  `ISent` then computes the queue from the flip-flops: the words at whose place the
  strobe rises (`InFlight`), two at most. A reset (`IReset`) empties everything and
  covers the write that ends it.
* `RegistersAreTheCalls` (`RegistersFollow`) and `EveryReadAnswers` (`EchoMatches`), where
  a read waits seven edges besides. `IFollow` compares two predictions: the registers once all
  words in flight are latched, and the registers after the words the call has behind
  it. `IAnswer` says when the execution and the callback have caught up.

Both times are tight (see CommandPort above). `EchoMatches` is a property of steps: a
good call that is not the resetting one stays good at every read. As an invariant over
the calls under way it would leave out the last read of each.

`FrameProofs`, for any number of bursts, of calls and of code pairs: `NeverMixed`
(`NoMixing`), `OwnFrameFresh` (`FreshFrame`), `LeftQuiet` (`StaysQuiet`). `IHardware`
says for each state of the orchestrator in which of its stages capture and engine are
and what the synchronisers they are seen through can hold: full, empty, filling or
draining. From it the edge that ends a stage is that of the capture, then of the
transfer, that the stage began, and never one left over. `IFresh` adds what a call
may rely on that began on a quiet path: its word is on its way, or the orchestrator
works for it, or its frame is in memory with its interrupt the only one.

The same module has what `FramePath` takes of the capture. `BramTyping` and `Timed`
(`SampleTimes`) hold for every depth, counter width and set of codes: `ICapture` gives
`age` as a function of address and counter and fixes the samples already behind; its
inductive step is arithmetic over `Period`. `Lasts` adds how long a capture takes, and
`CaptureRefines` that, a capture being longer than the synchronisers, every edge of
`BramController` is through enable and ready one that `BramEdge` of `FramePath` allows.

`FirProofs`, for any number of taps and any lists: `Loaded` (`OkMeansLoaded`) and
`AtomicLoad` (`FirstLoadAtomic`). The program of a load has two words for each
coefficient, one before and two after; everything is stated by how many words have been
read back, latched, taken into the registers and taken into the memory, each at most one
behind the other. While `MEM_WRITE_EN` is set the memory is written at every edge, with
a new address and the coefficient of before; `IMemory` says that this is the next
place to be filled, and that the address left over between loads is harmless. A list
longer than the taps is caught by the address it reads back (`IFail`).

`PidProofs`, for any widths, samples and requests (integers, which is what `lrintf`
leaves; `PidAssumption`): `InForce` (`OkMeansInForce`), `IntegralInBits` (`IntegralFits`)
and `OutputIsSum` (`OutputFaithful`). `IWritten` follows the eleven words of a call;
`ISum` keeps the sum within the limit of the shift in force, and `IIntegral` follows
from the width of `ki`. `IIdeal` says that, until an error has left half its range, the
registers are those of the controller without widths: the difference of sample and
setpoint fits (`ErrorFits`), that of error and average fits as both are within half,
the average stays between the two (`Between`), and the products are of numbers whose
quotients fit (`Terms`). The sum needs `GUARD >= 4`: with its product with a gain of
at most 5.0 it keeps room for the offset of 8191 only because the
code leaves four bits above the widths of the terms, as it does. `OutputIsSumUpToOne`
discharges the hypothesis about errors: with the two bits the code has between a sample
and a coefficient, and input gains up to 1.0, none ever leaves half its range. What powers of two do
(they grow, double, and divide) is proved from counting subsets, which needs no
induction over the exponent.

`SessionProofs`, for any number of calls, backlog and pieces, with timeouts and restarts
at any moment: `Ordered` (`InCallOrder`), `OkExecuted` (`OkMeansExecuted`), `OwnFrame`
(`AloneGetsOwn`). `ILine` puts all calls in one increasing line: executed, in execution,
waiting, still to connect. `IReply` says that nobody is told of success before he has
been served, and by a handler unless his request was cut, `IRemote` whose frame the server's file holds, `IAlone` that a call nobody
overlapped has the local file to itself.

`GuiProofs`, for any hosts, channels, buttons and slots, and whatever the bounds on
resets, edits, hangs and lost timers.

* `OnlyOne` (`OnePersist`) and `Bounded` (`CallsPerButton`). Neither is inductive: a
  callback in the event loop could belong to a thread that has ended, or be there
  twice, and enable a button or clear `pbusy` for a call it is not of. `IEvents` says
  that the queue holds each posted thread once; each action then changes the calls of
  one button by one, or of none, and the count follows.
* `Whole` (`LockIsWhole`) and `Agree` (`PanelsAgree`). `IAlone` says what a thread that no
  other came between finds: the address it was started for, and beside it captures
  only, which change neither registers nor the sweep. `IStages` follows such a lock: the
  last sweep of its device is its own, the file it fetched is of that sweep, the device
  has its routing, the device has its settings; and what the lock takes from the
  panels (the source of DAC 2, the gains) is what they still show, unless a field was edited
  since; what the device has of the gains is what its limits leave of them. Hosts, other threads and failing commands are arbitrary.

`ClientProofs`, for any entries, plants, traces and number of calls: `SettingsInForce`
(`OkMeansInForce`), `FeedbackHeld` (`ShownIsHeld`), `RoutingKept` (`RoutingFollows`),
`AutolockEngages` (the part `LockEngaged` of `LocksOnFeature`) and `AutolockRests` (the
whole of it). For each operation one
lemma follows a request through `Handle` and its handler and says that an outcome of
status 0 is `Granted`: the registers hold what was entered, and the answer is what they
hold. `Consistent` carries that from the handler to the end of the call, and `asked` over
commands whose answers are lost; `Engaging` says what of the routing and of the PID is
done at each stage of an autolock. `AutolockRests` goes from the sweep to the registers:

* `Sweeping` follows the file of the sweep, on the server and fetched, the lock point
  found in it, and the device settled on that. `Sweeps` says that the file holds, under
  the label of the channel, what the plant showed at the voltages of the sweep, all of
  them in range.
* `FeatureFinds`: for a feature within `peak_pts`, the extremes that are found are
  those of the whole sweep. `Derivatives`: between them `np.gradient` over equal steps
  gives derivatives of one sign. `MeanValue`: their widest bound bounds the chord, since
  neighbouring differences telescope; so the steepest of them (`SteepEnough`) is at
  least as steep as the chord.
* `GainTurns` and `BiasRests`: the rounding of the gain and of the bias, through
  `float_to_q15`, the clamps and the code that a sweep writes for a voltage.

Arguments that go along a column are inductions; `Climb` states induction for a set of
numbers in place of an operator, from the well-foundedness of `<`, so that it can be cited.

The assumptions are about entries (`Entered`):
selections are named, numbers are integers in their unit, an autolock sweeps DAC 1
without the demodulator (as `_autolock_bg` has it), and a list of coefficients the
GUI made fits the request buffer with its 24 characters at most for each (`str` of a
Python float; 32 * 25 + 18 < 1024). `HandlersAssumption` asks that the buffers hold the
requests of fixed length, `PlantAssumption` that a plant shows an integer at every code
of the DAC, `AnalysisAssumption` that the limit of the gain is within what `cmd_set_pid`
accepts. Two things came out in proving: some `CASE` arms of the
model overlapped, and `cmd_set_nco` takes the size of a negative frequency without an
error (`control.c:626`), which the docstring does not allow and `Documented` now leaves
out.

Assumed throughout: the named assumptions on constants, which the runs evaluate, and
the hypotheses stated in the theorems.

Model-checked only:

* liveness (`TransferCompletes`, `WakesUp`, `LeavesRail`, `LockComesFree`,
  `ServerComesBack`, `ButtonComesBack`, `KeepsRelocking`), which the prover cannot treat;
* `LabelsNameSignals`: lists of the code compared with one another. No constant is in
  it but the plant, and TLC compares all of them;
* `AngleOrients` and `DelayFound`: sums over whole columns, folds whose value for every
  input would need an induction over the data that goes through the library's folds;
* the two statements that are violated.

## Not modelled

The arithmetic of signals: the pipelines of the NCO, the demodulator and its filter,
the products of the FIR. In `nco.sv` the sign of a sample is taken from a later phase
than its ROM word; which sample comes out then is a question of every phase step, and
the model stops at the registers and what they mean for the second output (`Lead`).
Of the client: the spectra of `api_psd` and all of `api_control_metrics` but the
correlation and its lag (RMS, percentiles, settling, overshoot are floating point),
the window of `design_lowpass`, plotting, the building of widgets and their style.
A request as text: tokens, number formats. The scripts of simulation and test
(`core/hw/sim`, `test.py`, `test_resources`) and the physics under `sim` are not the
program. Clocking, pins, device tree; MATLAB and PCB.
On the board BRESP is not connected (`pdh_top.sv` 206-207): every response reads
OKAY and the retry that `DmaController` models is dead code there;
`BrespConnected = FALSE` is that board.

## Plan

1. Done: DMA engine, capture, command port, frame path, FIR load, PID, session;
   handlers, types and columns, client, autolock and persistent autolock.
2. Done: proofs of every safety property of the engine, capture, port, frame path, FIR
   load, PID, session and GUI that the runs check, and of what the client's calls leave
   in the registers.
3. Proofs left: of `Client`, the angle and the delay, which are sums over columns.
4. `Nco`: the sampled sine from phase, quadrant and ROM pipelines.
