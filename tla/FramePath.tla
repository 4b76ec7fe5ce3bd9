---- MODULE FramePath ----
(***************************************************************************)
(* The path of a captured frame: cmd_get_frame of the server              *)
(* (core/sw/control/control.c), the orchestrator of pdh_core.sv, the       *)
(* capture controller, the DMA engine, and the interrupt that comes back.  *)
(*                                                                         *)
(* pdh_clk, aclk and the server interleave freely.  The command port is    *)
(* what CommandPort shows of it: every word strobed is latched once, in    *)
(* order, some edges later.  BramController and DmaController are reduced  *)
(* to what they promise: a capture that lasts a while, a DmaTransfer.      *)
(*                                                                         *)
(* A sample is named by the call whose codes routed it, 0 standing for the *)
(* codes after reset.  bram_mem and every burst of ddr hold the set of the *)
(* names that went into them, so that a mixture shows.                     *)
(***************************************************************************)
EXTENDS Integers, Sequences

CONSTANTS
  MAX_CALLS,    \* bound: calls of cmd_get_frame in a behaviour
  BURSTS,       \* bursts of a frame
  Codes,        \* pairs of a frame code and a decimation code
  ResetCode     \* the pair after reset

ASSUME FrameAssumption ==
  /\ MAX_CALLS \in Nat \ {0}
  /\ BURSTS \in Nat \ {0}
  /\ ResetCode \in Codes

Calls == 0 .. MAX_CALLS
Bursts == 0 .. BURSTS - 1

VARIABLES
  pc, calls, code, sel, out,      \* server: step, call, its codes, select's answer, CSV
  clean, run,                     \* history: the call found the path quiet; the call
                                  \* whose word started the orchestrator's present run
  port,                           \* words strobed and not latched yet
  cmd,                            \* axi_from_ps_r
  frame_code_r,                   \* frame_code_r and dma_decimation_code_r
  dma_data_r, callback_r,
  dma_state_r, dma_enable_r, bram_enable_r, bram_edge_acquired_r,
  ready_ff,                       \* dma_ready_1ff, 2ff, 3ff and the detector's prev_D
  bram_ff,                        \* bram_ready_r and the detector's prev_D
  bram_busy, bram_prev, bram_mem, \* bram_controller.sv
  enable_ff,                      \* dma_controller.sv: enable_1ff, 2ff, 3ff, prev_D
  dma_busy, dma_landed, ddr,
  irq,                            \* a pulse of irq_o on its way to the processor
  uio                             \* /dev/uio/pdh_uio

server == <<pc, calls, code, sel, out, clean>>
regs == <<cmd, frame_code_r, dma_data_r, callback_r>>
ctrl == <<run, dma_state_r, dma_enable_r, bram_enable_r, bram_edge_acquired_r, ready_ff, bram_ff>>
bram == <<bram_busy, bram_prev, bram_mem>>
dma == <<enable_ff, dma_busy, dma_landed, ddr>>
vars == <<server, port, regs, ctrl, bram, dma, irq, uio>>

Word(op, id, c) == [op |-> op, id |-> id, code |-> c]
Words == [op : {"IDLE", "GET_FRAME", "OTHER"}, id : Calls, code : Codes]
IdleWord == Word("IDLE", 0, ResetCode)
OtherWord == Word("OTHER", 0, ResetCode)
GetWord == Word("GET_FRAME", calls, code)

Port == INSTANCE CommandQueue WITH queue <- port, ResetWord <- IdleWord, DEPTH <- 2

All(v) == [ff1 |-> v, ff2 |-> v, ff3 |-> v, prev |-> v]
Shift(ff, d) == [ff1 |-> d, ff2 |-> ff.ff1, ff3 |-> ff.ff2, prev |-> ff.ff3]
Rises(ff) == ff.ff3 /\ ~ff.prev

----------------------------------------------------------------------------
(* One edge of pdh_clk. *)

dma_ready_edge == Rises(ready_ff)
bram_ready_edge == bram_ff.r /\ ~bram_ff.prev

\* The command port latches the next word or not; the registers and the callback
\* follow the word that was latched before.
Latch(strobe_edge) == IF strobe_edge THEN Port!Latch ELSE UNCHANGED <<port, cmd>>

Registers ==
  /\ frame_code_r' = IF cmd.op = "GET_FRAME" THEN [id |-> cmd.id, code |-> cmd.code] ELSE frame_code_r
  /\ dma_data_r' = frame_code_r.id
  /\ callback_r' = [op |-> cmd.op, code |-> frame_code_r.code]

\* Mutant: GET_FRAME raises its interrupt at once.
InterruptOnGet(strobe_edge) ==
  irq' = \/ irq
         \/ dma_ready_edge
         \/ strobe_edge /\ Head(port).op /= "IDLE"

\* irq_o pulses as a word other than IDLE and GET_FRAME is latched, and when
\* dma_ready comes back, whatever brought it back.
Interrupt(strobe_edge) ==
  irq' = \/ irq
         \/ dma_ready_edge
         \/ strobe_edge /\ Head(port).op \notin {"IDLE", "GET_FRAME"}

\* A capture of 2^14 samples outlasts the synchronisers it is seen through.
CaptureMayEnd == enable_ff = All(FALSE) /\ bram_ff = [r |-> FALSE, prev |-> FALSE]

BramEdge ==
  /\ bram_prev' = bram_enable_r
  /\ \/ ~bram_busy /\ (bram_enable_r => bram_prev) /\ UNCHANGED <<bram_busy, bram_mem>>
     \/ ~bram_busy /\ bram_enable_r /\ ~bram_prev /\ bram_busy' = TRUE /\ bram_mem' = {}
     \/ bram_busy /\ bram_mem' = bram_mem \cup {dma_data_r} /\ UNCHANGED bram_busy
     \/ bram_busy /\ bram_mem' = bram_mem \cup {dma_data_r} /\ CaptureMayEnd /\ bram_busy' = FALSE

Edge(strobe_edge) ==
  /\ Latch(strobe_edge)
  /\ Registers
  /\ Interrupt(strobe_edge)
  /\ BramEdge
  /\ ready_ff' = Shift(ready_ff, ~dma_busy)
  /\ bram_ff' = [r |-> ~bram_busy, prev |-> bram_ff.r]
  /\ UNCHANGED <<server, dma, uio>>

Enables(dma_enable, bram_enable) == dma_enable_r' = dma_enable /\ bram_enable_r' = bram_enable

Armed ==
  /\ dma_state_r = "ARMED"
  /\ dma_state_r' = IF bram_ff.r /\ cmd.op = "GET_FRAME" THEN "RUN_BRAM" ELSE "ARMED"
  /\ run' = IF dma_state_r' = "RUN_BRAM" THEN cmd.id ELSE run
  /\ Enables(FALSE, FALSE) /\ bram_edge_acquired_r' = FALSE

\* Mutant: the transfer is started without waiting for the capture.
RunBramEarly ==
  /\ dma_state_r = "RUN_BRAM"
  /\ dma_state_r' = IF ready_ff.ff3 THEN "RUN_AXI" ELSE "RUN_BRAM"
  /\ UNCHANGED run
  /\ Enables(FALSE, TRUE) /\ bram_edge_acquired_r' = (bram_ready_edge \/ bram_edge_acquired_r)

RunBram ==
  /\ dma_state_r = "RUN_BRAM"
  /\ dma_state_r' = IF bram_edge_acquired_r /\ ready_ff.ff3 THEN "RUN_AXI" ELSE "RUN_BRAM"
  /\ UNCHANGED run
  /\ Enables(FALSE, TRUE) /\ bram_edge_acquired_r' = (bram_ready_edge \/ bram_edge_acquired_r)

RunAxi ==
  /\ dma_state_r = "RUN_AXI"
  /\ dma_state_r' = IF dma_ready_edge THEN "STALE" ELSE "RUN_AXI"
  /\ UNCHANGED run
  /\ Enables(TRUE, FALSE) /\ bram_edge_acquired_r' = FALSE

\* Mutant: only reset re-arms.
StaleStays ==
  /\ dma_state_r = "STALE"
  /\ Enables(FALSE, FALSE) /\ bram_edge_acquired_r' = FALSE
  /\ UNCHANGED <<run, dma_state_r>>

StaleState ==
  /\ dma_state_r = "STALE"
  /\ dma_state_r' = IF cmd.op /= "GET_FRAME" THEN "ARMED" ELSE "STALE"
  /\ UNCHANGED run
  /\ Enables(FALSE, FALSE) /\ bram_edge_acquired_r' = FALSE

PdhClk ==
  /\ Armed \/ RunBram \/ RunAxi \/ StaleState
  /\ \E strobe_edge \in BOOLEAN : Edge(strobe_edge)

----------------------------------------------------------------------------
(* One edge of aclk: the DMA engine and the memory behind it. *)

Transfer == INSTANCE DmaTransfer WITH busy <- dma_busy, landed <- dma_landed

Aclk ==
  /\ enable_ff' = Shift(enable_ff, dma_enable_r)
  /\ UNCHANGED <<server, port, regs, ctrl, bram, irq, uio>>

DmaStart ==
  /\ Rises(enable_ff)
  /\ Transfer!Begin
  /\ Aclk /\ UNCHANGED ddr

DmaWait ==
  /\ ~Rises(enable_ff) \/ dma_busy
  /\ Aclk /\ UNCHANGED <<dma_busy, dma_landed, ddr>>

DmaLand ==
  /\ \E b \in Bursts :
       /\ Transfer!Land(b)
       /\ ddr' = [ddr EXCEPT ![b] = bram_mem]
  /\ Aclk

\* A transfer of 2^14 beats outlasts the synchronisers it is seen through.
TransferMayEnd == ready_ff = All(FALSE)

DmaFinish ==
  /\ Transfer!Finish /\ TransferMayEnd
  /\ Aclk /\ UNCHANGED ddr

----------------------------------------------------------------------------
(* The interrupt controller and the UIO device (uio_pdrv_genirq): an        *)
(* interrupt is counted and masks its source; one that comes while masked   *)
(* is kept by the controller, and counted when the source is unmasked.      *)

Counted == [unread |-> TRUE, masked |-> TRUE, latched |-> FALSE]

DeliverIrq ==
  /\ irq /\ irq' = FALSE
  /\ uio' = IF uio.masked THEN [uio EXCEPT !.latched = TRUE] ELSE Counted
  /\ UNCHANGED <<server, port, regs, ctrl, bram, dma>>

uio_wait_irq(u) == [u EXCEPT !.unread = FALSE]
uio_ack_irq(u) == IF u.latched THEN Counted ELSE [u EXCEPT !.masked = FALSE]

----------------------------------------------------------------------------
(* The server.  A system call, or a request of the client, outlasts the     *)
(* command port: whatever was strobed before has been latched and answered. *)

PortIdle == port = <<>> /\ callback_r.op = cmd.op /\ (cmd.op = "GET_FRAME" => frame_code_r.id = cmd.id)

\* Nothing is under way that could disturb a new call.
Quiet ==
  /\ ~uio.unread /\ ~uio.latched /\ ~irq
  /\ \/ dma_state_r = "ARMED" /\ cmd.op /= "GET_FRAME"
     \/ dma_state_r = "STALE"
  /\ ready_ff = All(TRUE) /\ bram_ff = [r |-> TRUE, prev |-> TRUE]

hardware == <<regs, ctrl, bram, dma, irq>>

CallGetFrame(c) ==
  /\ pc = "loop" /\ calls < MAX_CALLS
  /\ calls' = calls + 1 /\ code' = c /\ clean' = Quiet
  /\ uio' = uio_ack_irq(uio)
  /\ pc' = "strobe_idle"
  /\ UNCHANGED <<sel, out, port, hardware>>

StrobeIdle ==
  /\ pc = "strobe_idle" /\ pc' = "strobe_get"
  /\ Port!Strobe(IdleWord)
  /\ UNCHANGED <<calls, code, clean, sel, out, hardware, uio>>

StrobeGet ==
  /\ pc = "strobe_get" /\ pc' = "select"
  /\ Port!Strobe(GetWord)
  /\ UNCHANGED <<calls, code, clean, sel, out, hardware, uio>>

Woken ==
  /\ pc = "select" /\ uio.unread
  /\ sel' = TRUE /\ pc' = "answer"
  /\ UNCHANGED <<calls, code, clean, out, port, hardware, uio>>

\* The timer covers the port and the capture of this call (140 us per unit of
\* decimation, where the capture takes 131); the transfer may outlast it.
TimedOut ==
  /\ pc = "select" /\ ~uio.unread
  /\ PortIdle /\ ~(cmd.op = "GET_FRAME" /\ dma_state_r = "ARMED")
  /\ ~(run = calls /\ dma_state_r = "RUN_BRAM")
  /\ sel' = FALSE /\ pc' = "answer"
  /\ UNCHANGED <<calls, code, clean, out, port, hardware, uio>>

\* The callback is read, then the device drained and acknowledged if it woke the
\* call; the frame is read only if the echoed codes are the ones asked for and
\* the file opens.
Valid == callback_r.op = "GET_FRAME" /\ callback_r.code = code

\* Mutant: the device is acknowledged and not drained.
AnswerNoDrain ==
  /\ pc = "answer" /\ PortIdle
  /\ uio' = IF sel THEN uio_ack_irq(uio) ELSE uio
  /\ pc' = IF Valid THEN "copy" ELSE "loop"
  /\ out' = <<>>
  /\ UNCHANGED <<calls, code, clean, sel, port, hardware>>

Answer ==
  /\ pc = "answer" /\ PortIdle
  /\ uio' = IF sel THEN uio_ack_irq(uio_wait_irq(uio)) ELSE uio
  /\ \/ pc' = (IF Valid THEN "copy" ELSE "loop") /\ out' = <<>>
     \/ pc' = "fopen_err" /\ UNCHANGED out
  /\ UNCHANGED <<calls, code, clean, sel, port, hardware>>

\* The CSV file could not be opened: the call returns DMA_FOPEN_ERR.
FopenErr ==
  /\ pc = "fopen_err" /\ pc' = "loop"
  /\ UNCHANGED <<calls, code, clean, sel, out, port, hardware, uio>>

\* dma_get_frame, one burst's worth of words at a time.
Copy ==
  /\ pc = "copy"
  /\ out' = Append(out, ddr[Len(out)])
  /\ pc' = IF Len(out') = BURSTS THEN "loop" ELSE "copy"
  /\ UNCHANGED <<calls, code, clean, sel, port, hardware, uio>>

\* Any other command: strobed, then answered from the callback register without
\* waiting for the interrupt it raises.
CallOther ==
  /\ pc = "loop" /\ pc' = "other"
  /\ Port!Strobe(OtherWord)
  /\ UNCHANGED <<calls, code, clean, sel, out, hardware, uio>>

AnswerOther ==
  /\ pc = "other" /\ PortIdle /\ pc' = "loop"
  /\ UNCHANGED <<calls, code, clean, sel, out, port, hardware, uio>>

\* cmd_reset_fpga, between transfers of the DMA engine.
ResetFpga ==
  /\ pc = "loop" /\ ~dma_busy
  /\ cmd' = IdleWord
  /\ frame_code_r' = [id |-> 0, code |-> ResetCode] /\ dma_data_r' = 0
  /\ callback_r' = [op |-> "IDLE", code |-> ResetCode]
  /\ dma_state_r' = "ARMED" /\ Enables(FALSE, FALSE) /\ bram_edge_acquired_r' = FALSE
  /\ ready_ff' = All(FALSE) /\ bram_ff' = [r |-> FALSE, prev |-> FALSE]
  /\ bram_busy' = FALSE /\ bram_prev' = FALSE
  /\ enable_ff' = All(FALSE)
  /\ UNCHANGED <<server, run, port, bram_mem, dma_busy, dma_landed, ddr, irq, uio>>

----------------------------------------------------------------------------
Init ==
  /\ pc = "loop" /\ calls = 0 /\ code = ResetCode /\ sel = FALSE /\ out = <<>>
  /\ clean = FALSE /\ run = 0
  /\ port = <<>> /\ cmd = IdleWord
  /\ frame_code_r = [id |-> 0, code |-> ResetCode] /\ dma_data_r = 0
  /\ callback_r = [op |-> "IDLE", code |-> ResetCode]
  /\ dma_state_r = "ARMED" /\ dma_enable_r = FALSE /\ bram_enable_r = FALSE
  /\ bram_edge_acquired_r = FALSE
  /\ ready_ff = All(TRUE) /\ bram_ff = [r |-> TRUE, prev |-> TRUE]
  /\ bram_busy = FALSE /\ bram_prev = FALSE /\ bram_mem = {}
  /\ enable_ff = All(FALSE) /\ dma_busy = FALSE /\ dma_landed = {}
  /\ ddr = [b \in Bursts |-> {}]
  /\ irq = FALSE
  /\ uio \in [unread : {FALSE}, masked : BOOLEAN, latched : {FALSE}]

Server ==
  \/ \E c \in Codes : CallGetFrame(c)
  \/ StrobeIdle \/ StrobeGet \/ Woken \/ TimedOut \/ Answer \/ Copy \/ FopenErr
  \/ CallOther \/ AnswerOther
  \/ ResetFpga

Next ==
  \/ PdhClk
  \/ DmaStart \/ DmaWait \/ DmaLand \/ DmaFinish
  \/ DeliverIrq
  \/ Server

Spec == Init /\ [][Next]_vars

\* The clocks run; a word strobed is latched, a capture and a transfer end, an
\* interrupt is delivered, and the server goes on with the call it serves.
\* Nothing makes a timeout happen.
Fairness ==
  /\ WF_vars(PdhClk) /\ WF_vars(PdhClk /\ port' /= port)
  /\ WF_vars(PdhClk /\ bram_busy /\ ~bram_busy')
  /\ WF_vars(DmaStart) /\ WF_vars(DmaWait) /\ WF_vars(DmaLand) /\ WF_vars(DmaFinish)
  /\ WF_vars(DeliverIrq)
  /\ WF_vars(StrobeIdle) /\ WF_vars(StrobeGet) /\ WF_vars(Woken) /\ WF_vars(Answer)
  /\ WF_vars(Copy) /\ WF_vars(AnswerOther)

FairSpec == Spec /\ Fairness

----------------------------------------------------------------------------
(* Properties. *)

\* The engine never reads the BRAM while a capture fills it: every burst that a
\* running transfer has landed holds the one finished capture.
NoMixing == dma_busy => ~bram_busy /\ \A b \in dma_landed : ddr[b] = bram_mem

Returns == pc \in {"answer", "copy"} /\ pc' = "loop"

\* A call that found the path quiet and was woken by the interrupt returns, and
\* without error, its own frame: every burst, sampled under its own codes only.
FreshFrame ==
  [][Returns /\ clean /\ sel => out' = [i \in 1 .. BURSTS |-> {calls}]]_vars

\* Such a call leaves the path quiet for the next one.
StaysQuiet == [][Returns /\ clean /\ sel => Quiet]_vars

\* A call that found the path quiet is woken even if its timer never expires.
WakesUp == pc = "select" /\ clean ~> pc /= "select"

====
