---- MODULE FrameProofs ----
(***************************************************************************)
(* Proofs about FramePath for any number of calls, bursts and codes: the   *)
(* capture and the transfer never overlap, and a call that found the path  *)
(* quiet gets its own frame and leaves the path quiet.  The last section   *)
(* is about the capture itself, BramController, for every depth and        *)
(* decimation: what it writes when, and how long it takes, which is what   *)
(* FramePath takes for granted of it.                                      *)
(***************************************************************************)
EXTENDS FramePath, BramController, SequenceTheorems, TLAPS

----------------------------------------------------------------------------
(* Synchronisers: a level that comes in, one that goes out, and the ends.  *)

Sync == [ff1 : BOOLEAN, ff2 : BOOLEAN, ff3 : BOOLEAN, prev : BOOLEAN]
Filling(ff) == (ff.prev => ff.ff3) /\ (ff.ff3 => ff.ff2) /\ (ff.ff2 => ff.ff1)
Draining(ff) == (ff.ff1 => ff.ff2) /\ (ff.ff2 => ff.ff3) /\ (ff.ff3 => ff.prev)
Full(ff) == ff.ff1 /\ ff.ff2 /\ ff.ff3 /\ ff.prev
Empty(ff) == ~ff.ff1 /\ ~ff.ff2 /\ ~ff.ff3 /\ ~ff.prev

IType ==
  /\ dma_state_r \in {"ARMED", "RUN_BRAM", "RUN_AXI", "STALE"}
  /\ dma_enable_r \in BOOLEAN /\ bram_enable_r \in BOOLEAN /\ bram_edge_acquired_r \in BOOLEAN
  /\ ready_ff \in Sync /\ enable_ff \in Sync /\ bram_ff \in [r : BOOLEAN, prev : BOOLEAN]
  /\ bram_busy \in BOOLEAN /\ bram_prev \in BOOLEAN /\ dma_busy \in BOOLEAN
  /\ irq \in BOOLEAN /\ uio \in [unread : BOOLEAN, masked : BOOLEAN, latched : BOOLEAN]
  /\ ddr = [b \in Bursts |-> ddr[b]]

----------------------------------------------------------------------------
(* Where the hardware stands, by the state of the orchestrator.  Both      *)
(* engines rest but where a line says otherwise.                           *)

BramRests == ~bram_enable_r /\ ~bram_busy /\ ~bram_prev
BramReady == bram_ff.r /\ bram_ff.prev
Landed == \A b \in dma_landed : ddr[b] = bram_mem

\* After a frame, or after a reset: dma_ready and bram_ready come in again.
IArmed ==
  dma_state_r = "ARMED" =>
    /\ ~dma_busy /\ ~dma_enable_r /\ Draining(enable_ff) /\ BramRests
    /\ Filling(ready_ff)
    /\ (bram_ff.prev => bram_ff.r) /\ (bram_ff.r => ready_ff.ff1)

\* The capture is asked for, starts, runs, and is over when enable_ff is empty.
Asked == BramRests /\ ~bram_edge_acquired_r /\ BramReady /\ ready_ff.ff2
Starting ==
  /\ bram_enable_r /\ ~bram_prev /\ ~bram_busy /\ ~bram_edge_acquired_r
  /\ BramReady /\ ready_ff.ff3
Capturing ==
  /\ bram_enable_r /\ bram_prev /\ bram_busy /\ ~bram_edge_acquired_r
  /\ (bram_ff.r => bram_ff.prev) /\ Full(ready_ff)
Captured ==
  /\ bram_enable_r /\ bram_prev /\ ~bram_busy /\ (bram_edge_acquired_r <=> bram_ff.prev)
  /\ (bram_ff.prev => bram_ff.r) /\ Full(ready_ff) /\ Empty(enable_ff)
IRunBram ==
  dma_state_r = "RUN_BRAM" =>
    /\ ~dma_busy /\ ~dma_enable_r /\ Draining(enable_ff) /\ Filling(ready_ff)
    /\ Asked \/ Starting \/ Capturing \/ Captured

\* The transfer is asked for, starts, runs, and is over when ready_ff was empty.
Turning ==
  /\ ~dma_enable_r /\ bram_enable_r /\ bram_prev /\ ~dma_busy
  /\ Empty(enable_ff) /\ Full(ready_ff)
Enabled == dma_enable_r /\ ~bram_enable_r
Called == Enabled /\ ~dma_busy /\ Filling(enable_ff) /\ ~enable_ff.prev /\ Full(ready_ff)
Transferring ==
  /\ Enabled /\ dma_busy /\ Full(enable_ff) /\ Draining(ready_ff)
  /\ (bram_prev => Full(ready_ff)) /\ Landed
Transferred ==
  /\ Enabled /\ ~dma_busy /\ Full(enable_ff) /\ Filling(ready_ff) /\ ~ready_ff.prev
  /\ ~bram_prev /\ Landed /\ dma_landed = Bursts
IRunAxi ==
  dma_state_r = "RUN_AXI" =>
    /\ ~bram_busy /\ BramReady
    /\ Turning \/ Called \/ Transferring \/ Transferred

IStale ==
  dma_state_r = "STALE" =>
    /\ ~dma_busy /\ BramRests /\ BramReady /\ Full(ready_ff)
    /\ Draining(enable_ff) /\ (dma_enable_r => Full(enable_ff))

IHardware == IArmed /\ IRunBram /\ IRunAxi /\ IStale

----------------------------------------------------------------------------
(* The words of a call on their way, and what a clean call may rely on. *)

IPort ==
  /\ pc \in {"loop", "strobe_idle", "copy", "fopen_err"} => port = <<>>
  /\ pc = "strobe_get" =>
       \/ port = <<IdleWord>>
       \/ port = <<>> /\ cmd = IdleWord
  /\ pc \in {"select", "answer"} =>
       \/ port = <<IdleWord, GetWord>>
       \/ port = <<GetWord>> /\ cmd = IdleWord
       \/ port = <<>> /\ cmd = GetWord
  /\ pc = "other" => port \in {<<OtherWord>>, <<>>}

Silent == ~irq /\ uio = [unread |-> FALSE, masked |-> FALSE, latched |-> FALSE]
Rested == Full(ready_ff) /\ BramReady
Routed == callback_r = [op |-> "GET_FRAME", code |-> code] /\ dma_data_r = calls

\* The call's word is on its way.
Waiting ==
  /\ \/ pc \in {"strobe_idle", "strobe_get"}
     \/ pc = "select" /\ port /= <<>>
  /\ Silent /\ Rested
  /\ \/ dma_state_r = "ARMED" /\ cmd.op /= "GET_FRAME"
     \/ dma_state_r = "STALE"

\* The orchestrator works for the call.
Sampling ==
  /\ frame_code_r = [id |-> calls, code |-> code]
  /\ bram_enable_r \/ dma_state_r = "RUN_AXI" => Routed
  /\ bram_busy => bram_mem \subseteq {calls}
  /\ (~bram_busy /\ bram_prev) \/ dma_state_r = "RUN_AXI" => bram_mem = {calls}
Running ==
  /\ pc = "select" /\ port = <<>> /\ cmd = GetWord /\ Silent
  /\ \/ dma_state_r = "ARMED" /\ Rested
     \/ dma_state_r = "RUN_BRAM" /\ Full(ready_ff) /\ Sampling
     \/ dma_state_r = "RUN_AXI" /\ Sampling

\* The frame is in memory, and its interrupt is the only one.
Done ==
  /\ dma_state_r = "STALE" /\ cmd = GetWord /\ port = <<>> /\ Routed
  /\ frame_code_r = [id |-> calls, code |-> code]
  /\ ddr = [b \in Bursts |-> {calls}]
  /\ \/ pc = "select" /\ irq /\ uio = [unread |-> FALSE, masked |-> FALSE, latched |-> FALSE]
     \/ pc \in {"select", "answer"} /\ ~irq /\ uio = Counted
     \/ pc = "copy" /\ Silent /\ Len(out) < BURSTS /\ out \in Seq({{calls}})

CleanCall ==
  /\ clean
  /\ pc \in {"strobe_idle", "strobe_get", "select"} \/ (sel /\ pc \in {"answer", "copy"})
IFresh == CleanCall => Waiting \/ Running \/ Done

IInv == IType /\ IHardware /\ IPort /\ IFresh

----------------------------------------------------------------------------
(* Synchronisers. *)

\* One edge of a synchroniser.
LEMMA ShiftFacts ==
  ASSUME NEW ff \in Sync, NEW d \in BOOLEAN
  PROVE  /\ Shift(ff, d) \in Sync
         /\ Shift(ff, d).ff1 = d /\ Shift(ff, d).ff2 = ff.ff1
         /\ Shift(ff, d).ff3 = ff.ff2 /\ Shift(ff, d).prev = ff.ff3
BY DEF Sync, Shift

\* A synchroniser that is full or empty.
LEMMA AllFacts ==
  ASSUME NEW v \in BOOLEAN
  PROVE  /\ All(v) \in Sync
         /\ All(v).ff1 = v /\ All(v).ff2 = v /\ All(v).ff3 = v /\ All(v).prev = v
BY DEF All, Sync

\* Full means every flip-flop.
LEMMA FullIsAll ==
  ASSUME NEW ff \in Sync
  PROVE  Full(ff) <=> ff = All(TRUE)
<1>1. ff = [ff1 |-> ff.ff1, ff2 |-> ff.ff2, ff3 |-> ff.ff3, prev |-> ff.prev]
  BY DEF Sync
<1> QED BY <1>1 DEF Full, All, Sync

----------------------------------------------------------------------------
(* What the edges of the two clocks do. *)

\* The hardware's half of IInv as facts about booleans.
LEMMA PdhEdge ==
  ASSUME IType, PdhClk
  PROVE  /\ ready_ff' \in Sync
         /\ ready_ff'.ff1 = ~dma_busy /\ ready_ff'.ff2 = ready_ff.ff1
         /\ ready_ff'.ff3 = ready_ff.ff2 /\ ready_ff'.prev = ready_ff.ff3
         /\ bram_ff' \in [r : BOOLEAN, prev : BOOLEAN]
         /\ bram_ff'.r = ~bram_busy /\ bram_ff'.prev = bram_ff.r
         /\ bram_prev' = bram_enable_r
         /\ \/ ~bram_busy /\ (bram_enable_r => bram_prev) /\ UNCHANGED <<bram_busy, bram_mem>>
            \/ ~bram_busy /\ bram_enable_r /\ ~bram_prev /\ bram_busy' /\ bram_mem' = {}
            \/ bram_busy /\ bram_busy' /\ bram_mem' = bram_mem \cup {dma_data_r}
            \/ bram_busy /\ ~bram_busy' /\ bram_mem' = bram_mem \cup {dma_data_r}
               /\ Empty(enable_ff) /\ ~bram_ff.r /\ ~bram_ff.prev
         /\ bram_busy' \in BOOLEAN
         /\ UNCHANGED <<enable_ff, dma_busy, dma_landed, ddr, pc, calls, code, sel, out, clean, uio>>
<1>1. ready_ff' = Shift(ready_ff, ~dma_busy) /\ bram_ff' = [r |-> ~bram_busy, prev |-> bram_ff.r]
      /\ BramEdge /\ UNCHANGED <<server, dma, uio>>
  BY DEF PdhClk, Edge
<1>2. ready_ff \in Sync /\ (~dma_busy) \in BOOLEAN /\ (~bram_busy) \in BOOLEAN
  BY DEF IType
<1>4. bram_ff.r \in BOOLEAN
  BY DEF IType
<1>3. CaptureMayEnd => Empty(enable_ff) /\ ~bram_ff.r /\ ~bram_ff.prev
  BY DEF CaptureMayEnd, All, Empty
<1> QED BY <1>1, <1>2, <1>3, <1>4, ShiftFacts DEF BramEdge, server, dma, IType

\* What an edge of the engine's clock moves.
LEMMA DmaEdge ==
  ASSUME IType, DmaStart \/ DmaWait \/ DmaLand \/ DmaFinish
  PROVE  /\ enable_ff' \in Sync
         /\ enable_ff'.ff1 = dma_enable_r /\ enable_ff'.ff2 = enable_ff.ff1
         /\ enable_ff'.ff3 = enable_ff.ff2 /\ enable_ff'.prev = enable_ff.ff3
         /\ UNCHANGED <<pc, calls, code, sel, out, clean, port, cmd, frame_code_r, dma_data_r, callback_r,
                        run, dma_state_r, dma_enable_r, bram_enable_r, bram_edge_acquired_r,
                        ready_ff, bram_ff, bram_busy, bram_prev, bram_mem, irq, uio>>
<1>1. Aclk
  BY DEF DmaStart, DmaWait, DmaLand, DmaFinish
<1> QED BY <1>1, ShiftFacts DEF Aclk, IType, server, regs, ctrl, bram

\* What each step of the engine does.
LEMMA DmaSteps ==
  ASSUME IType
  PROVE  /\ DmaStart => enable_ff.ff3 /\ ~enable_ff.prev /\ ~dma_busy /\ dma_busy' = TRUE
                        /\ dma_landed' = {} /\ ddr' = ddr
         /\ DmaWait => (enable_ff.ff3 => enable_ff.prev \/ dma_busy)
                        /\ UNCHANGED <<dma_busy, dma_landed, ddr>>
         /\ DmaLand => \E b \in Bursts : /\ dma_busy /\ dma_busy' = dma_busy
                          /\ dma_landed = 0 .. b - 1 /\ dma_landed' = 0 .. b + 1 - 1
                          /\ ddr' = [ddr EXCEPT ![b] = bram_mem]
         /\ DmaFinish => dma_busy /\ dma_busy' = FALSE /\ dma_landed = Bursts
                         /\ dma_landed' = dma_landed /\ ddr' = ddr /\ Empty(ready_ff)
BY DEF IType, DmaStart, DmaWait, DmaLand, DmaFinish, Rises, Transfer!Begin, Transfer!Land,
       Transfer!Finish, Transfer!Leading, Bursts, TransferMayEnd, All, Empty

\* The engine rests as long as no enable comes in.
LEMMA DmaIdle ==
  ASSUME IType, ~dma_busy, enable_ff.ff3 => enable_ff.prev,
         DmaStart \/ DmaWait \/ DmaLand \/ DmaFinish
  PROVE  ~dma_busy' /\ UNCHANGED <<dma_landed, ddr>>
<1>1. ~DmaStart /\ ~DmaLand /\ ~DmaFinish
  BY DmaSteps
<1> QED BY <1>1, DmaSteps

\* What the server leaves alone, but for a reset.
LEMMA ServerLeaves ==
  ASSUME Server, ~ResetFpga
  PROVE  UNCHANGED <<cmd, frame_code_r, dma_data_r, callback_r, run, dma_state_r, dma_enable_r,
                     bram_enable_r, bram_edge_acquired_r, ready_ff, bram_ff, bram_busy, bram_prev,
                     bram_mem, enable_ff, dma_busy, dma_landed, ddr, irq>>
BY DEF Server, CallGetFrame, StrobeIdle, StrobeGet, Woken, TimedOut, Answer, Copy, FopenErr,
       CallOther, AnswerOther, hardware, regs, ctrl, bram, dma, Port!Strobe

----------------------------------------------------------------------------
(* One lemma for each part of the invariant. *)

\* The interrupt device keeps its type.
LEMMA UioTypes ==
  ASSUME NEW u \in [unread : BOOLEAN, masked : BOOLEAN, latched : BOOLEAN]
  PROVE  /\ uio_ack_irq(u) \in [unread : BOOLEAN, masked : BOOLEAN, latched : BOOLEAN]
         /\ uio_wait_irq(u) \in [unread : BOOLEAN, masked : BOOLEAN, latched : BOOLEAN]
BY DEF uio_ack_irq, uio_wait_irq, Counted

\* Every step keeps the types.
LEMMA TypeStep ==
  ASSUME IType, [Next]_vars
  PROVE  IType'
<1>1. CASE PdhClk
  <2>1. /\ dma_state_r' \in {"ARMED", "RUN_BRAM", "RUN_AXI", "STALE"}
        /\ dma_enable_r' \in BOOLEAN /\ bram_enable_r' \in BOOLEAN
    BY <1>1 DEF IType, PdhClk, Armed, RunBram, RunAxi, StaleState, Enables
  <2>2. bram_edge_acquired_r' \in BOOLEAN
    <3>1. bram_ready_edge \in BOOLEAN
      BY DEF IType, bram_ready_edge
    <3> QED BY <1>1, <3>1 DEF IType, PdhClk, Armed, RunBram, RunAxi, StaleState
  <2>3. irq' \in BOOLEAN
    BY <1>1 DEF PdhClk, Edge, Interrupt
  <2>4. bram_prev' \in BOOLEAN
    BY <1>1, PdhEdge DEF IType
  <2> QED BY <1>1, <2>1, <2>2, <2>3, <2>4, PdhEdge DEF IType
<1>2. CASE DmaStart \/ DmaWait \/ DmaLand \/ DmaFinish
  <2>1. dma_busy' \in BOOLEAN /\ ddr' = [b \in Bursts |-> ddr'[b]]
    <3>1. DmaLand => \E b \in Bursts : ddr' = [ddr EXCEPT ![b] = bram_mem]
      BY DmaSteps
    <3>2. DmaLand => ddr' = [b \in Bursts |-> ddr'[b]]
      BY <3>1 DEF IType
    <3> QED BY <1>2, <3>2, DmaSteps DEF IType
  <2> QED BY <1>2, <2>1, DmaEdge DEF IType
<1>3. CASE DeliverIrq
  BY <1>3 DEF DeliverIrq, IType, Counted, ctrl, bram, dma, regs
<1>4. CASE Server /\ ~ResetFpga
  <2>1. \/ uio' = uio \/ uio' = uio_ack_irq(uio) \/ uio' = uio_ack_irq(uio_wait_irq(uio))
    BY <1>4 DEF Server, CallGetFrame, StrobeIdle, StrobeGet, Woken, TimedOut, Answer, Copy,
                FopenErr, CallOther, AnswerOther
  <2>2. uio' \in [unread : BOOLEAN, masked : BOOLEAN, latched : BOOLEAN]
    BY <2>1, UioTypes DEF IType
  <2> QED BY <1>4, <2>2, ServerLeaves DEF IType
<1>5. CASE ResetFpga
  BY <1>5, AllFacts DEF ResetFpga, IType, Enables
<1>6. CASE UNCHANGED vars
  BY <1>6 DEF vars, ctrl, bram, dma, IType
<1> QED BY <1>1, <1>2, <1>3, <1>4, <1>5, <1>6 DEF Next

\* Where the hardware stands changes with the edges of the two clocks and with a reset.
LEMMA HardwareStays ==
  ASSUME IHardware, UNCHANGED <<ctrl, bram, dma>>
  PROVE  IHardware'
BY DEF IHardware, IArmed, IRunBram, IRunAxi, IStale, ctrl, bram, dma, BramRests, BramReady, Landed,
       Asked, Starting, Capturing, Captured, Turning, Enabled, Called, Transferring, Transferred,
       Filling, Draining, Full, Empty

\* A reset arms the orchestrator.
LEMMA HardwareReset ==
  ASSUME ResetFpga
  PROVE  IHardware'
<1>1. /\ dma_state_r' = "ARMED" /\ ~dma_busy' /\ ~dma_enable_r' /\ BramRests'
      /\ ready_ff' = All(FALSE) /\ enable_ff' = All(FALSE) /\ ~bram_ff'.r /\ ~bram_ff'.prev
  BY DEF ResetFpga, Enables, BramRests
<1>2. Filling(ready_ff') /\ Draining(enable_ff')
  BY <1>1 DEF All, Filling, Draining
<1> QED BY <1>1, <1>2 DEF IHardware, IArmed, IRunBram, IRunAxi, IStale

\* Every edge of the engine's clock keeps the stage of the orchestrator.
LEMMA HardwareDma ==
  ASSUME IType, IHardware, DmaStart \/ DmaWait \/ DmaLand \/ DmaFinish
  PROVE  IHardware'
<1> USE DEF BramRests, BramReady, Asked, Starting, Capturing, Captured,
            Turning, Enabled, Called, Transferring, Transferred
<1>1. /\ enable_ff'.ff1 = dma_enable_r /\ enable_ff'.ff2 = enable_ff.ff1
      /\ enable_ff'.ff3 = enable_ff.ff2 /\ enable_ff'.prev = enable_ff.ff3
      /\ UNCHANGED <<dma_state_r, dma_enable_r, bram_enable_r, bram_edge_acquired_r,
                     ready_ff, bram_ff, bram_busy, bram_prev, bram_mem>>
  BY DmaEdge
<1>2. CASE dma_state_r \in {"ARMED", "RUN_BRAM", "STALE"}
  <2>1. ~dma_busy /\ Draining(enable_ff) /\ (dma_enable_r => Full(enable_ff))
    BY <1>2 DEF IHardware, IArmed, IRunBram, IStale
  <2>2. ~dma_busy' /\ UNCHANGED <<dma_landed, ddr>>
    BY <2>1, DmaIdle DEF Draining
  <2>3. Draining(enable_ff') /\ (dma_enable_r => Full(enable_ff'))
        /\ (~dma_enable_r /\ Empty(enable_ff) => Empty(enable_ff'))
    BY <1>1, <2>1 DEF Draining, Full, Empty
  <2> QED BY <1>1, <1>2, <2>2, <2>3 DEF IHardware, IArmed, IRunBram, IRunAxi, IStale, Filling, Full
<1>3. CASE dma_state_r = "RUN_AXI" /\ Turning
  <2>1. ~dma_busy' /\ Empty(enable_ff')
    BY <1>1, <1>3, DmaIdle DEF Empty
  <2> QED BY <1>1, <1>3, <2>1 DEF IHardware, IArmed, IRunBram, IRunAxi, IStale, Full
<1>4. CASE dma_state_r = "RUN_AXI" /\ Called
  <2>1. enable_ff.ff3 => Full(enable_ff') /\ DmaStart
    BY <1>1, <1>4, DmaSteps DEF Filling, Full
  <2>2. ~enable_ff.ff3 => Filling(enable_ff') /\ ~enable_ff'.prev /\ DmaWait
    BY <1>1, <1>4, DmaSteps DEF Filling
  <2>3. CASE enable_ff.ff3
    <3>1. Transferring'
      BY <1>1, <1>4, <2>1, <2>3, DmaSteps DEF Landed, Full, Draining
    <3> QED BY <1>1, <1>4, <3>1 DEF IHardware, IArmed, IRunBram, IRunAxi, IStale
  <2>4. CASE ~enable_ff.ff3
    <3>1. Called'
      BY <1>1, <1>4, <2>2, <2>4, DmaSteps DEF Full
    <3> QED BY <1>1, <1>4, <3>1 DEF IHardware, IArmed, IRunBram, IRunAxi, IStale
  <2> QED BY <2>3, <2>4
<1>5. CASE dma_state_r = "RUN_AXI" /\ Transferring
  <2>1. Full(enable_ff')
    BY <1>1, <1>5 DEF Full
  <2>2. ~DmaStart
    BY <1>5, DmaSteps
  <2>3. CASE DmaWait
    <3>1. Transferring'
      BY <1>1, <1>5, <2>1, <2>3, DmaSteps DEF Landed, Full, Draining
    <3> QED BY <1>1, <1>5, <3>1 DEF IHardware, IArmed, IRunBram, IRunAxi, IStale
  <2>4. CASE DmaLand
    <3>1. PICK b \in Bursts : /\ dma_busy /\ dma_busy' = dma_busy
                              /\ dma_landed = 0 .. b - 1 /\ dma_landed' = 0 .. b + 1 - 1
                              /\ ddr' = [ddr EXCEPT ![b] = bram_mem]
      BY <2>4, DmaSteps
    <3>2. dma_landed' = dma_landed \cup {b} /\ dma_landed' \subseteq Bursts
      BY <3>1, FrameAssumption DEF Bursts
    <3>3. ddr'[b] = bram_mem /\ \A x \in Bursts \ {b} : ddr'[x] = ddr[x]
      BY <3>1 DEF IType
    <3>4. Landed'
      BY <1>1, <1>5, <3>1, <3>2, <3>3 DEF Landed
    <3>5. Transferring'
      BY <1>1, <1>5, <2>1, <3>1, <3>4 DEF Full, Draining
    <3> QED BY <1>1, <1>5, <3>5 DEF IHardware, IArmed, IRunBram, IRunAxi, IStale
  <2>5. CASE DmaFinish
    <3>1. Transferred'
      BY <1>1, <1>5, <2>1, <2>5, DmaSteps DEF Landed, Full, Empty, Filling
    <3> QED BY <1>1, <1>5, <3>1 DEF IHardware, IArmed, IRunBram, IRunAxi, IStale
  <2> QED BY <2>2, <2>3, <2>4, <2>5
<1>6. CASE dma_state_r = "RUN_AXI" /\ Transferred
  <2>1. Full(enable_ff') /\ ~dma_busy' /\ UNCHANGED <<dma_landed, ddr>>
    BY <1>1, <1>6, DmaIdle DEF Full
  <2>2. Transferred'
    BY <1>1, <1>6, <2>1 DEF Landed, Filling
  <2> QED BY <1>1, <1>6, <2>2 DEF IHardware, IArmed, IRunBram, IRunAxi, IStale
<1> QED BY <1>2, <1>3, <1>4, <1>5, <1>6 DEF IHardware, IRunAxi, IType

\* Every edge of the core's clock keeps the stage or goes on to the next.
LEMMA HardwarePdh ==
  ASSUME IType, IHardware, PdhClk
  PROVE  IHardware'
<1> USE DEF BramRests, BramReady, Asked, Starting, Capturing, Captured, Enables,
            Turning, Enabled, Called, Transferring, Transferred
<1>0. /\ ready_ff'.ff1 = ~dma_busy /\ ready_ff'.ff2 = ready_ff.ff1
      /\ ready_ff'.ff3 = ready_ff.ff2 /\ ready_ff'.prev = ready_ff.ff3
      /\ bram_ff'.r = ~bram_busy /\ bram_ff'.prev = bram_ff.r
      /\ bram_prev' = bram_enable_r
      /\ UNCHANGED <<enable_ff, dma_busy, dma_landed, ddr>>
      /\ bram_busy' \in BOOLEAN
  BY PdhEdge
<1>b. \/ ~bram_busy /\ (bram_enable_r => bram_prev) /\ UNCHANGED <<bram_busy, bram_mem>>
      \/ ~bram_busy /\ bram_enable_r /\ ~bram_prev /\ bram_busy'
      \/ bram_busy /\ bram_busy'
      \/ bram_busy /\ ~bram_busy' /\ Empty(enable_ff) /\ ~bram_ff.r /\ ~bram_ff.prev
  BY PdhEdge
<1>1. CASE Armed
  <2>1. BramRests' /\ ~dma_enable_r' /\ ~bram_edge_acquired_r' /\ Filling(ready_ff') /\ Draining(enable_ff')
    BY <1>0, <1>b, <1>1 DEF Armed, IHardware, IArmed, Filling, Draining
  <2>2. CASE dma_state_r' = "ARMED"
    BY <1>0, <1>1, <2>1, <2>2 DEF Armed, IHardware, IArmed, IRunBram, IRunAxi, IStale
  <2>3. CASE dma_state_r' = "RUN_BRAM"
    <3>1. Asked'
      BY <1>0, <1>1, <2>1, <2>3 DEF Armed, IHardware, IArmed
    <3> QED BY <1>0, <1>1, <2>1, <2>3, <3>1 DEF Armed, IHardware, IArmed, IRunBram, IRunAxi, IStale
  <2> QED BY <1>1, <2>2, <2>3 DEF Armed
<1>2. CASE RunBram
  <2>0. /\ dma_state_r = "RUN_BRAM" /\ ~dma_busy' /\ ~dma_enable_r' /\ bram_enable_r' /\ Draining(enable_ff')
        /\ Filling(ready_ff') /\ bram_edge_acquired_r' = (bram_ready_edge \/ bram_edge_acquired_r)
        /\ dma_state_r' = IF bram_edge_acquired_r /\ ready_ff.ff3 THEN "RUN_AXI" ELSE "RUN_BRAM"
    BY <1>0, <1>2 DEF RunBram, IHardware, IRunBram, Filling, Draining
  <2>1. CASE Asked
    <3>1. Starting' /\ dma_state_r' = "RUN_BRAM"
      BY <1>0, <1>b, <2>0, <2>1 DEF bram_ready_edge
    <3> QED BY <2>0, <3>1 DEF IHardware, IArmed, IRunBram, IRunAxi, IStale
  <2>2. CASE Starting
    <3>1. Capturing' /\ dma_state_r' = "RUN_BRAM"
      BY <1>0, <1>b, <1>2, <2>0, <2>2 DEF bram_ready_edge, IHardware, IRunBram, Filling, Full
    <3> QED BY <2>0, <3>1 DEF IHardware, IArmed, IRunBram, IRunAxi, IStale
  <2>3. CASE Capturing
    <3>1. Full(ready_ff') /\ ~bram_edge_acquired_r' /\ dma_state_r' = "RUN_BRAM"
      BY <1>0, <2>0, <2>3, <1>2 DEF bram_ready_edge, IHardware, IRunBram, Full
    <3>2. Capturing' \/ Captured'
      BY <1>0, <1>b, <2>0, <2>3, <3>1 DEF Empty
    <3> QED BY <2>0, <3>1, <3>2 DEF IHardware, IArmed, IRunBram, IRunAxi, IStale
  <2>4. CASE Captured
    <3>1. Full(ready_ff') /\ Empty(enable_ff') /\ ~bram_busy' /\ bram_ff'.r
      BY <1>0, <1>b, <2>0, <2>4, <1>2 DEF IHardware, IRunBram, Full, Empty
    <3>2. bram_edge_acquired_r' = bram_ff'.prev
      BY <1>0, <2>0, <2>4 DEF bram_ready_edge, IType
    <3>3. Captured' /\ (bram_edge_acquired_r => bram_ff'.prev)
      BY <1>0, <2>0, <2>4, <3>1, <3>2
    <3> QED BY <1>0, <2>0, <2>4, <3>1, <3>3 DEF IHardware, IArmed, IRunBram, IRunAxi, IStale
  <2> QED BY <2>0, <2>1, <2>2, <2>3, <2>4 DEF IHardware, IRunBram
<1>3. CASE RunAxi
  <2>0. /\ dma_state_r = "RUN_AXI" /\ dma_enable_r' /\ ~bram_enable_r' /\ ~bram_edge_acquired_r'
        /\ dma_state_r' = IF dma_ready_edge THEN "STALE" ELSE "RUN_AXI"
        /\ (dma_ready_edge <=> ready_ff.ff3 /\ ~ready_ff.prev) /\ BramReady /\ ~bram_busy
    BY <1>3 DEF RunAxi, dma_ready_edge, Rises, IHardware, IRunAxi
  <2>1. CASE Turning
    <3>1. Called' /\ dma_state_r' = "RUN_AXI"
      BY <1>0, <2>0, <2>1 DEF Full, Empty, Filling
    <3> QED BY <1>0, <1>b, <2>0, <2>1, <3>1 DEF IHardware, IArmed, IRunBram, IRunAxi, IStale
  <2>2. CASE Called
    <3>1. Called' /\ dma_state_r' = "RUN_AXI"
      BY <1>0, <2>0, <2>2 DEF Full, Filling
    <3> QED BY <1>0, <1>b, <2>0, <2>2, <3>1 DEF IHardware, IArmed, IRunBram, IRunAxi, IStale
  <2>3. CASE Transferring
    <3>1. dma_state_r' = "RUN_AXI" /\ ~bram_busy' /\ bram_mem' = bram_mem
      BY <1>0, <2>0, <2>3, PdhEdge DEF Draining
    <3>2. Transferring'
      BY <1>0, <2>0, <2>3, <3>1 DEF Full, Draining, Landed
    <3> QED BY <1>0, <2>0, <3>1, <3>2 DEF IHardware, IArmed, IRunBram, IRunAxi, IStale
  <2>4. CASE Transferred
    <3>1. ~bram_busy' /\ bram_mem' = bram_mem
      BY <1>0, <2>0, <2>4, PdhEdge
    <3>2. CASE ready_ff.ff3
      <4>1. dma_state_r' = "STALE" /\ Full(ready_ff')
        BY <1>0, <2>0, <2>4, <3>2 DEF Filling, Full
      <4>2. Full(enable_ff') /\ Draining(enable_ff')
        BY <1>0, <2>4 DEF Full, Draining
      <4> QED BY <1>0, <2>0, <2>4, <3>1, <4>1, <4>2 DEF IHardware, IArmed, IRunBram, IRunAxi, IStale
    <3>3. CASE ~ready_ff.ff3
      <4>1. dma_state_r' = "RUN_AXI" /\ Transferred'
        BY <1>0, <2>0, <2>4, <3>1, <3>3 DEF Filling, Full, Landed
      <4> QED BY <1>0, <2>0, <3>1, <4>1 DEF IHardware, IArmed, IRunBram, IRunAxi, IStale
    <3> QED BY <3>2, <3>3
  <2> QED BY <2>0, <2>1, <2>2, <2>3, <2>4 DEF IHardware, IRunAxi
<1>4. CASE StaleState
  <2>1. /\ ~dma_busy' /\ BramRests' /\ ~dma_enable_r' /\ BramReady' /\ Full(ready_ff')
        /\ Draining(enable_ff') /\ dma_state_r' \in {"ARMED", "STALE"}
    BY <1>0, <1>b, <1>4 DEF StaleState, IHardware, IStale, Full, Draining
  <2> QED BY <2>1 DEF IHardware, IArmed, IRunBram, IRunAxi, IStale, Full, Filling
<1> QED BY <1>1, <1>2, <1>3, <1>4 DEF PdhClk

\* Every step keeps the stages.
LEMMA HardwareStep ==
  ASSUME IType, IHardware, [Next]_vars
  PROVE  IHardware'
<1>1. Server /\ ~ResetFpga => UNCHANGED <<ctrl, bram, dma>>
  BY ServerLeaves DEF ctrl, bram, dma
<1>2. DeliverIrq \/ UNCHANGED vars => UNCHANGED <<ctrl, bram, dma>>
  BY DEF DeliverIrq, vars
<1> QED BY <1>1, <1>2, HardwareStays, HardwareReset, HardwareDma, HardwarePdh DEF Next

\* A sequence of one and one more.
LEMMA AppendToOne ==
  ASSUME NEW v, NEW w
  PROVE  Append(<<v>>, w) = <<v, w>>
<1>1. <<v>> \in Seq({v, w}) /\ w \in {v, w} /\ <<v, w>> \in Seq({v, w})
  OBVIOUS
<1>2. /\ Append(<<v>>, w) \in Seq({v, w}) /\ Len(Append(<<v>>, w)) = 2
      /\ Append(<<v>>, w)[1] = v /\ Append(<<v>>, w)[2] = w
  BY <1>1
<1>3. \A i \in 1 .. 2 : Append(<<v>>, w)[i] = <<v, w>>[i]
  BY <1>2
<1>4. Len(<<v, w>>) = 2
  OBVIOUS
<1> QED BY <1>1, <1>2, <1>3, <1>4, SeqEqual

\* A word leaves the port as the command, or nothing does; a word that is neither
\* IDLE nor GET_FRAME raises the interrupt, and so does dma_ready.
LEMMA PortEdge ==
  ASSUME IType, PdhClk
  PROVE  /\ \/ UNCHANGED <<port, cmd>> /\ (irq' <=> irq \/ dma_ready_edge)
            \/ /\ port /= <<>> /\ port' = Tail(port) /\ cmd' = Head(port)
               /\ irq' <=> irq \/ dma_ready_edge \/ Head(port).op \notin {"IDLE", "GET_FRAME"}
         /\ Registers
BY DEF PdhClk, Edge, Latch, Interrupt, Port!Latch, IType, dma_ready_edge, Rises, Sync

\* Every step keeps what is in the port.
LEMMA PortStep ==
  ASSUME IType, IPort, [Next]_vars
  PROVE  IPort'
<1> USE DEF IPort
<1>1. CASE PdhClk
  <2>1. UNCHANGED <<pc, calls, code>> /\ GetWord' = GetWord
    BY <1>1, PdhEdge DEF GetWord
  <2>2. UNCHANGED <<port, cmd>> \/ (port /= <<>> /\ port' = Tail(port) /\ cmd' = Head(port))
    BY <1>1, PortEdge
  <2>3. \A w : Head(<<w>>) = w /\ Tail(<<w>>) = <<>>
    OBVIOUS
  <2>4. \A v, w : Head(<<v, w>>) = v /\ Tail(<<v, w>>) = <<w>>
    OBVIOUS
  <2>5. CASE UNCHANGED <<port, cmd>>
    BY <2>1, <2>5
  <2>6. CASE pc = "strobe_get" /\ port = <<IdleWord>> /\ port' = Tail(port) /\ cmd' = Head(port)
    BY <2>1, <2>3, <2>6
  <2>7. CASE pc \in {"select", "answer"} /\ port = <<IdleWord, GetWord>> /\ port' = Tail(port) /\ cmd' = Head(port)
    <3>1. port' = <<GetWord'>> /\ cmd' = IdleWord'
      BY <2>1, <2>4, <2>7 DEF IdleWord, Word
    <3> QED BY <2>1, <2>7, <3>1
  <2>8. CASE pc \in {"select", "answer"} /\ port = <<GetWord>> /\ port' = Tail(port) /\ cmd' = Head(port)
    <3>1. port' = <<>> /\ cmd' = GetWord'
      BY <2>1, <2>3, <2>8
    <3> QED BY <2>1, <2>8, <3>1
  <2>9. CASE pc = "other" /\ port = <<OtherWord>> /\ port' = Tail(port) /\ cmd' = Head(port)
    BY <2>1, <2>3, <2>9
  <2>10. CASE port /= <<>> /\ pc \notin {"loop", "strobe_idle", "copy", "fopen_err", "strobe_get", "select", "answer", "other"}
    BY <2>1, <2>10
  <2> QED BY <2>2, <2>5, <2>6, <2>7, <2>8, <2>9, <2>10
<1>2. CASE DmaStart \/ DmaWait \/ DmaLand \/ DmaFinish \/ DeliverIrq \/ UNCHANGED vars
  <2>1. UNCHANGED <<pc, port, cmd, calls, code>>
    BY <1>2, DmaEdge DEF DeliverIrq, vars, server, regs
  <2> QED BY <2>1 DEF GetWord
<1>3. CASE Server
  <2>1. CASE \E c \in Codes : CallGetFrame(c)
    BY <2>1 DEF CallGetFrame
  <2>2. CASE StrobeIdle
    <3>1. port = <<>> /\ port' = Append(port, IdleWord) /\ pc' = "strobe_get"
      BY <2>2 DEF StrobeIdle, Port!Strobe
    <3> QED BY <3>1
  <2>3. CASE StrobeGet
    <3>1. port' = Append(port, GetWord) /\ pc' = "select" /\ cmd' = cmd /\ GetWord' = GetWord /\ pc = "strobe_get"
      BY <2>3 DEF StrobeGet, Port!Strobe, GetWord
    <3>2. CASE port = <<IdleWord>>
      <4>1. port' = <<IdleWord, GetWord>>
        BY <3>1, <3>2, AppendToOne
      <4> QED BY <3>1, <4>1
    <3>3. CASE port = <<>> /\ cmd = IdleWord
      <4>1. port' = <<GetWord>>
        BY <3>1, <3>3
      <4> QED BY <3>1, <3>3, <4>1
    <3> QED BY <3>1, <3>2, <3>3
  <2>4. CASE Woken \/ TimedOut \/ Answer
    <3>1. UNCHANGED <<port, cmd, calls, code>> /\ GetWord' = GetWord
      BY <2>4 DEF Woken, TimedOut, Answer, hardware, regs, GetWord
    <3>2. \/ pc = "select" /\ pc' = "answer"
          \/ port = <<>> /\ pc' \in {"copy", "loop", "fopen_err"}
      BY <2>4 DEF Woken, TimedOut, Answer, PortIdle
    <3> QED BY <3>1, <3>2
  <2>5. CASE Copy \/ FopenErr \/ AnswerOther
    <3>1. port = <<>> /\ port' = port /\ pc' \in {"loop", "copy"}
      BY <2>5 DEF Copy, FopenErr, AnswerOther, PortIdle
    <3> QED BY <3>1
  <2>6. CASE CallOther
    <3>1. port = <<>> /\ port' = Append(port, OtherWord) /\ pc' = "other"
      BY <2>6 DEF CallOther, Port!Strobe
    <3> QED BY <3>1
  <2>7. CASE ResetFpga
    BY <2>7 DEF ResetFpga, server
  <2> QED BY <1>3, <2>1, <2>2, <2>3, <2>4, <2>5, <2>6, <2>7 DEF Server
<1> QED BY <1>1, <1>2, <1>3 DEF Next

\* An edge of pdh_clk while the call's words are on their way.
LEMMA WaitingPdh ==
  ASSUME IType, IHardware, IPort, Waiting, PdhClk
  PROVE  Waiting' \/ Running'
<1>0. UNCHANGED <<pc, calls, code, uio>> /\ GetWord' = GetWord /\ IdleWord' = IdleWord
  BY PdhEdge DEF GetWord, IdleWord, Word
<1>1. /\ ~dma_busy /\ ~bram_busy /\ Full(ready_ff) /\ BramReady
      /\ dma_state_r \in {"ARMED", "STALE"} /\ (dma_state_r = "ARMED" => cmd.op /= "GET_FRAME")
  BY DEF Waiting, Rested, IHardware, IArmed, IStale, BramRests
<1>2. Rested'
  BY <1>1, PdhEdge DEF Rested, Full, BramReady
<1>3. /\ dma_state_r' \in {"ARMED", "STALE"}
      /\ cmd.op /= "GET_FRAME" => dma_state_r' = "ARMED"
      /\ dma_state_r' = "ARMED" => cmd.op /= "GET_FRAME"
  BY <1>1 DEF PdhClk, Armed, RunBram, RunAxi, StaleState
<1>4. ~dma_ready_edge
  BY <1>1 DEF dma_ready_edge, Rises, Full
<1>5. CASE UNCHANGED <<port, cmd>> /\ (irq' <=> irq \/ dma_ready_edge)
  <2>1. Silent'
    BY <1>0, <1>4, <1>5 DEF Waiting, Silent
  <2>2. cmd'.op = cmd.op /\ port' = port
    BY <1>5
  <2>3. (dma_state_r' = "ARMED" /\ cmd'.op /= "GET_FRAME") \/ dma_state_r' = "STALE"
    BY <1>1, <1>3, <2>2
  <2> QED BY <1>0, <1>2, <2>1, <2>2, <2>3 DEF Waiting
<1>6. CASE port /= <<>> /\ port' = Tail(port) /\ cmd' = Head(port)
           /\ (irq' <=> irq \/ dma_ready_edge \/ Head(port).op \notin {"IDLE", "GET_FRAME"})
  <2>1. IdleWord.op = "IDLE" /\ GetWord.op = "GET_FRAME"
    BY DEF IdleWord, GetWord, Word
  <2>2. \A w : Head(<<w>>) = w /\ Tail(<<w>>) = <<>>
    OBVIOUS
  <2>3. \A v, w : Head(<<v, w>>) = v /\ Tail(<<v, w>>) = <<w>>
    OBVIOUS
  <2>4. \/ pc = "strobe_get" /\ port = <<IdleWord>>
        \/ pc = "select" /\ port = <<IdleWord, GetWord>>
        \/ pc = "select" /\ port = <<GetWord>> /\ cmd = IdleWord
    BY <1>6 DEF Waiting, IPort
  <2>5. Head(port) \in {IdleWord, GetWord}
    BY <2>2, <2>3, <2>4
  <2>6. Silent'
    BY <1>0, <1>4, <1>6, <2>1, <2>5 DEF Waiting, Silent
  <2>7. CASE pc = "strobe_get" /\ port = <<IdleWord>>
    <3>1. cmd'.op /= "GET_FRAME"
      BY <1>6, <2>1, <2>2, <2>7
    <3> QED BY <1>0, <1>2, <1>3, <2>6, <2>7, <3>1 DEF Waiting
  <2>8. CASE pc = "select" /\ port = <<IdleWord, GetWord>>
    <3>1. cmd'.op /= "GET_FRAME" /\ port' = <<GetWord>>
      BY <1>6, <2>1, <2>3, <2>8
    <3>2. port' /= <<>>
      BY <3>1
    <3> QED BY <1>0, <1>2, <1>3, <2>6, <2>8, <3>1, <3>2 DEF Waiting
  <2>9. CASE pc = "select" /\ port = <<GetWord>> /\ cmd = IdleWord
    <3>1. cmd' = GetWord' /\ port' = <<>> /\ dma_state_r' = "ARMED"
      BY <1>0, <1>3, <1>6, <2>1, <2>2, <2>9
    <3> QED BY <1>0, <1>2, <2>6, <2>9, <3>1 DEF Running
  <2> QED BY <2>4, <2>7, <2>8, <2>9
<1> QED BY <1>5, <1>6, PortEdge

\* An edge of pdh_clk while the orchestrator works for the call.
LEMMA RunningPdh ==
  ASSUME IType, IHardware, Running, PdhClk
  PROVE  Running' \/ Done'
<1>0. /\ UNCHANGED <<pc, calls, code, uio, port, cmd>> /\ GetWord' = GetWord
      /\ port = <<>> /\ cmd = GetWord /\ pc = "select" /\ Silent
      /\ irq' <=> dma_ready_edge
  BY PdhEdge, PortEdge DEF GetWord, Running, Silent
<1>1. cmd.op = "GET_FRAME" /\ cmd.id = calls /\ cmd.code = code
  BY <1>0 DEF GetWord, Word
<1>2. /\ frame_code_r' = [id |-> calls, code |-> code]
      /\ dma_data_r' = frame_code_r.id /\ callback_r' = [op |-> "GET_FRAME", code |-> frame_code_r.code]
  BY <1>1, PortEdge DEF Registers
<1>3. Sampling => Routed'
  BY <1>0, <1>2 DEF Sampling, Routed
<1>4. dma_ready_edge => ready_ff.ff3 /\ ~ready_ff.prev
  BY DEF dma_ready_edge, Rises
<1> HIDE DEF dma_ready_edge
<1>5. CASE dma_state_r = "ARMED" /\ Rested
  <2>1. dma_state_r' = "RUN_BRAM"
    BY <1>1, <1>5 DEF PdhClk, Armed, RunBram, RunAxi, StaleState, Rested, BramReady
  <2>2. ~dma_busy /\ BramRests /\ Full(ready_ff)
    BY <1>5 DEF IHardware, IArmed, Rested
  <2>3. Full(ready_ff') /\ ~bram_enable_r' /\ ~bram_busy' /\ ~bram_prev'
    <3>1. ~bram_enable_r'
      BY <1>5 DEF PdhClk, Armed, RunBram, RunAxi, StaleState, Enables
    <3>2. Full(ready_ff') /\ ~bram_busy' /\ ~bram_prev'
      <4>1. Full(ready_ff')
        BY <2>2, PdhEdge DEF Full
      <4>2. ~bram_busy' /\ ~bram_prev'
        BY <2>2, PdhEdge DEF BramRests
      <4> QED BY <4>1, <4>2
    <3> QED BY <3>1, <3>2
  <2>4. Silent'
    BY <1>0, <1>4, <2>2 DEF Silent, Full
  <2> QED BY <1>0, <1>2, <2>1, <2>3, <2>4 DEF Running, Sampling
<1>6. CASE dma_state_r = "RUN_BRAM" /\ Full(ready_ff) /\ Sampling
  <2>1. ~dma_busy /\ (Asked \/ Starting \/ Capturing \/ Captured)
    BY <1>6 DEF IHardware, IRunBram
  <2>2. Full(ready_ff')
    BY <1>6, <2>1, PdhEdge DEF Full
  <2>3. Silent'
    BY <1>0, <1>4, <1>6 DEF Silent, Full
  <2>4. dma_state_r' = IF bram_edge_acquired_r /\ ready_ff.ff3 THEN "RUN_AXI" ELSE "RUN_BRAM"
    BY <1>6 DEF PdhClk, Armed, RunBram, RunAxi, StaleState
  <2>5. /\ bram_busy' => bram_mem' \subseteq {calls}
        /\ ~bram_busy' /\ bram_prev' => bram_mem' = {calls}
        /\ bram_edge_acquired_r => ~bram_busy' /\ bram_prev'
    <3>1. CASE Asked
      BY <2>1, <3>1, PdhEdge DEF Asked, BramRests
    <3>2. CASE Starting
      BY <2>1, <3>2, PdhEdge DEF Starting
    <3>3. CASE Capturing
      <4>1. bram_mem \subseteq {calls} /\ dma_data_r = calls /\ bram_mem' = bram_mem \cup {dma_data_r}
            /\ ~bram_edge_acquired_r
        BY <1>6, <3>3, PdhEdge DEF Capturing, Sampling, Routed
      <4> QED BY <4>1
    <3>4. CASE Captured
      BY <1>6, <3>4, PdhEdge DEF Captured, Sampling
    <3> QED BY <2>1, <3>1, <3>2, <3>3, <3>4
  <2>6. Sampling'
    BY <1>0, <1>2, <1>3, <1>6, <2>4, <2>5 DEF Sampling
  <2> QED BY <1>0, <2>2, <2>3, <2>4, <2>6 DEF Running
<1>7. CASE dma_state_r = "RUN_AXI" /\ Sampling
  <2>1. ~bram_busy /\ (Turning \/ Called \/ Transferring \/ Transferred)
    BY <1>7 DEF IHardware, IRunAxi
  <2>2. dma_state_r' = IF dma_ready_edge THEN "STALE" ELSE "RUN_AXI"
    BY <1>7 DEF PdhClk, Armed, RunBram, RunAxi, StaleState
  <2>3. ~bram_busy' /\ bram_mem' = bram_mem
    BY <2>1, PdhEdge DEF Turning, Called, Transferring, Transferred, Enabled
  <2>4. CASE ~dma_ready_edge
    <3>1. Silent' /\ dma_state_r' = "RUN_AXI"
      BY <1>0, <2>2, <2>4 DEF Silent
    <3>2. Sampling'
      BY <1>0, <1>2, <1>3, <1>7, <2>3, <3>1 DEF Sampling
    <3> QED BY <1>0, <3>1, <3>2 DEF Running
  <2>5. CASE dma_ready_edge
    <3>1. Transferred
      BY <1>4, <2>1, <2>5 DEF Turning, Called, Transferring, Full, Draining
    <3>2. \A b \in Bursts : ddr[b] = {calls}
      BY <1>7, <3>1 DEF Transferred, Landed, Sampling
    <3>3. ddr' = [b \in Bursts |-> {calls}]
      BY <3>2, PdhEdge DEF IType
    <3> QED BY <1>0, <1>2, <1>3, <1>7, <2>2, <2>5, <3>3 DEF Done, Silent
  <2> QED BY <2>4, <2>5
<1> QED BY <1>5, <1>6, <1>7 DEF Running

\* An edge of pdh_clk once the frame is in memory.
LEMMA DonePdh ==
  ASSUME IType, IHardware, Done, PdhClk
  PROVE  Done'
<1>0. /\ UNCHANGED <<pc, calls, code, uio, out, ddr, port, cmd>> /\ GetWord' = GetWord
      /\ irq' <=> irq \/ dma_ready_edge
  BY PdhEdge, PortEdge DEF GetWord, Done
<1>1. cmd.op = "GET_FRAME" /\ cmd.id = calls /\ cmd.code = code
  BY DEF Done, GetWord, Word
<1>2. ~dma_ready_edge
  BY DEF Done, IHardware, IStale, dma_ready_edge, Rises, Full
<1>3. dma_state_r' = "STALE"
  BY <1>1 DEF Done, PdhClk, Armed, RunBram, RunAxi, StaleState
<1>4. Routed' /\ frame_code_r' = [id |-> calls, code |-> code]
  BY <1>0, <1>1, PortEdge DEF Registers, Done, Routed
<1>5. Counted' = Counted /\ irq' = irq
  BY <1>0, <1>2 DEF Counted, IType
<1> QED BY <1>0, <1>3, <1>4, <1>5 DEF Done, Silent

\* Every step takes a call that found the path quiet on to its own frame.
LEMMA FreshStep ==
  ASSUME IInv, [Next]_vars
  PROVE  IFresh'
<1>0. IType /\ IHardware /\ IPort /\ IFresh /\ IPort' /\ IType'
  BY PortStep, TypeStep DEF IInv
<1>1. CASE PdhClk
  <2>1. CleanCall' <=> CleanCall
    BY <1>0, <1>1, PdhEdge DEF CleanCall
  <2> QED BY <1>0, <1>1, <2>1, WaitingPdh, RunningPdh, DonePdh DEF IFresh
<1>2. CASE DmaStart \/ DmaWait \/ DmaLand \/ DmaFinish
  <2>1. /\ UNCHANGED <<pc, calls, code, sel, out, clean, port, cmd, frame_code_r, dma_data_r, callback_r,
                        dma_state_r, dma_enable_r, bram_enable_r, ready_ff, bram_ff,
                        bram_busy, bram_prev, bram_mem, irq, uio>>
        /\ GetWord' = GetWord
    BY <1>0, <1>2, DmaEdge DEF GetWord
  <2>2. CleanCall' <=> CleanCall
    BY <2>1 DEF CleanCall
  <2>3. Done => UNCHANGED ddr
    BY <1>0, <1>2, DmaIdle DEF Done, IHardware, IStale, Draining
  <2>4. Routed' <=> Routed
    BY <2>1 DEF Routed
  <2>5. Waiting => Waiting'
    BY <2>1 DEF Waiting, Silent, Rested, Full, BramReady
  <2>6. Running => Running'
    BY <2>1, <2>4 DEF Running, Silent, Rested, Full, BramReady, Sampling
  <2>7. Done => Done'
    BY <2>1, <2>3, <2>4 DEF Done, Silent, Counted
  <2> QED BY <1>0, <2>2, <2>5, <2>6, <2>7 DEF IFresh
<1>3. CASE DeliverIrq
  <2>1. /\ irq /\ ~irq' /\ UNCHANGED <<pc, calls, code, sel, out, clean, port, regs, ddr, dma_state_r>>
        /\ GetWord' = GetWord /\ (CleanCall' <=> CleanCall)
    BY <1>3 DEF DeliverIrq, server, ctrl, dma, GetWord, CleanCall
  <2>2. ~Waiting /\ ~Running
    BY <2>1 DEF Waiting, Running, Silent
  <2>3. Done => pc = "select" /\ uio = [unread |-> FALSE, masked |-> FALSE, latched |-> FALSE]
    BY <2>1 DEF Done, Silent
  <2>4. Done => uio' = Counted'
    BY <1>3, <2>3 DEF DeliverIrq, Counted
  <2>5. Done => Done'
    BY <2>1, <2>3, <2>4 DEF Done, Routed, regs
  <2> QED BY <1>0, <2>1, <2>2, <2>5 DEF IFresh
<1>4. CASE Server
  <2>1. ASSUME NEW c \in Codes, CallGetFrame(c)
        PROVE  IFresh'
    <3>1. /\ pc' = "strobe_idle" /\ clean' = Quiet /\ uio' = uio_ack_irq(uio)
          /\ UNCHANGED <<cmd, irq, dma_state_r, ready_ff, bram_ff>>
      BY <2>1 DEF CallGetFrame, hardware, regs, ctrl
    <3>2. ASSUME Quiet PROVE Waiting'
      <4>1. uio' = [unread |-> FALSE, masked |-> FALSE, latched |-> FALSE]
        BY <1>0, <3>1, <3>2 DEF Quiet, uio_ack_irq, IType
      <4>2. Full(ready_ff') /\ BramReady' /\ ~irq'
        BY <3>1, <3>2 DEF Quiet, All, Full, BramReady
      <4> QED BY <3>1, <3>2, <4>1, <4>2 DEF Waiting, Silent, Rested, Quiet
    <3> QED BY <3>1, <3>2 DEF IFresh, CleanCall
  <2>2. CASE StrobeIdle \/ StrobeGet
    <3>1. /\ pc \in {"strobe_idle", "strobe_get"} /\ pc' \in {"strobe_get", "select"}
          /\ UNCHANGED <<clean, cmd, irq, uio, dma_state_r, ready_ff, bram_ff>>
      BY <2>2 DEF StrobeIdle, StrobeGet, hardware, regs, ctrl
    <3>2. clean => Waiting
      BY <1>0, <3>1 DEF IFresh, CleanCall, Running, Done
    <3>3. pc' = "select" => port' /= <<>>
      <4>1. StrobeGet => port' = Append(port, GetWord) /\ pc = "strobe_get"
        BY DEF StrobeGet, Port!Strobe
      <4>2. StrobeGet => port \in Seq({IdleWord, GetWord})
        <5>1. StrobeGet => port = <<IdleWord>> \/ port = <<>>
          BY <1>0, <4>1 DEF IPort
        <5>2. <<IdleWord>> \in Seq({IdleWord, GetWord}) /\ <<>> \in Seq({IdleWord, GetWord})
          OBVIOUS
        <5> QED BY <5>1, <5>2
      <4> QED BY <2>2, <4>1, <4>2, AppendProperties DEF StrobeIdle
    <3>4. Waiting => Waiting'
      BY <3>1, <3>3 DEF Waiting, Silent, Rested, Full, BramReady
    <3> QED BY <3>1, <3>2, <3>4 DEF IFresh, CleanCall
  <2>3. CASE Woken
    <3>1. /\ pc = "select" /\ uio.unread /\ pc' = "answer"
          /\ UNCHANGED <<clean, calls, code, out, port, regs, irq, uio, dma_state_r, ddr>> /\ GetWord' = GetWord
      BY <2>3 DEF Woken, hardware, ctrl, dma, GetWord
    <3>2. ~Waiting /\ ~Running /\ (Done => ~irq /\ uio = Counted)
      BY <3>1 DEF Waiting, Running, Done, Silent
    <3>3. Done => Done'
      BY <3>1, <3>2 DEF Done, Routed, regs, Counted
    <3> QED BY <1>0, <3>1, <3>2, <3>3 DEF IFresh, CleanCall
  <2>4. CASE TimedOut
    BY <2>4 DEF TimedOut, IFresh, CleanCall
  <2>5. CASE Answer
    <3>1. /\ pc = "answer" /\ pc' \in {"copy", "loop", "fopen_err"}
          /\ UNCHANGED <<clean, sel, calls, code, port, regs, irq, dma_state_r, ddr>> /\ GetWord' = GetWord
      BY <2>5 DEF Answer, hardware, ctrl, dma, GetWord
    <3> SUFFICES ASSUME CleanCall' PROVE Done'
      BY DEF IFresh
    <3>2. CleanCall /\ sel /\ pc' = "copy"
      BY <3>1 DEF CleanCall
    <3>3. Done /\ uio = Counted /\ ~irq
      BY <1>0, <3>1, <3>2 DEF IFresh, Waiting, Running, Done
    <3>4. uio' = [unread |-> FALSE, masked |-> FALSE, latched |-> FALSE]
      BY <2>5, <3>2, <3>3 DEF Answer, uio_ack_irq, uio_wait_irq, Counted
    <3>5. out' = <<>>
      BY <2>5, <3>2 DEF Answer
    <3>6. Len(out') < BURSTS /\ out' \in Seq({{calls'}})
      BY <3>5, FrameAssumption
    <3> QED BY <3>1, <3>2, <3>3, <3>4, <3>6 DEF Done, Routed, regs, Silent
  <2>6. CASE Copy
    <3>1. /\ pc = "copy" /\ pc' = (IF Len(out') = BURSTS THEN "loop" ELSE "copy")
          /\ out' = Append(out, ddr[Len(out)])
          /\ UNCHANGED <<clean, sel, calls, code, port, regs, irq, uio, dma_state_r, ddr>> /\ GetWord' = GetWord
      BY <2>6 DEF Copy, hardware, ctrl, dma, GetWord
    <3> SUFFICES ASSUME CleanCall' PROVE Done'
      BY DEF IFresh
    <3>2. CleanCall /\ sel /\ pc' = "copy"
      BY <3>1 DEF CleanCall
    <3>3. Done /\ Silent /\ Len(out) < BURSTS /\ out \in Seq({{calls}})
      BY <1>0, <3>1, <3>2 DEF IFresh, Waiting, Running, Done
    <3>4. out' = Append(out, {calls})
      <4>1. Len(out) \in Bursts
        BY <3>3, FrameAssumption DEF Bursts
      <4>2. ddr[Len(out)] = {calls}
        BY <3>3, <4>1 DEF Done
      <4> QED BY <3>1, <4>2
    <3>5. Len(out') < BURSTS /\ out' \in Seq({{calls}})
      <4>1. Len(out') = Len(out) + 1 /\ Len(out) \in Nat /\ Len(out') /= BURSTS
        BY <3>1, <3>2, <3>3, <3>4
      <4> QED BY <3>3, <3>4, <4>1, FrameAssumption
    <3> QED BY <3>1, <3>2, <3>3, <3>5 DEF Done, Routed, regs, Silent
  <2>7. CASE FopenErr \/ CallOther \/ AnswerOther \/ ResetFpga
    <3>1. pc' \in {"loop", "other"}
      BY <2>7 DEF FopenErr, CallOther, AnswerOther, ResetFpga, server
    <3> QED BY <3>1 DEF IFresh, CleanCall
  <2> QED BY <1>4, <2>1, <2>2, <2>3, <2>4, <2>5, <2>6, <2>7 DEF Server
<1>5. CASE UNCHANGED vars
  BY <1>0, <1>5 DEF vars, server, regs, ctrl, bram, dma, IFresh, CleanCall, Waiting, Running, Done,
     Silent, Rested, Routed, Sampling, Full, BramReady, Counted, GetWord
<1> QED BY <1>1, <1>2, <1>3, <1>4, <1>5 DEF Next

----------------------------------------------------------------------------
(* The theorems. *)

\* The invariant holds at the start.
LEMMA InitInv == Init => IInv
<1> SUFFICES ASSUME Init PROVE IInv
  OBVIOUS
<1>1. /\ ready_ff = All(TRUE) /\ enable_ff = All(FALSE) /\ bram_ff = [r |-> TRUE, prev |-> TRUE]
      /\ dma_state_r = "ARMED" /\ ~dma_enable_r /\ ~dma_busy /\ BramRests /\ pc = "loop" /\ port = <<>>
  BY DEF Init, BramRests
<1>2. IType
  <2>1. uio \in [unread : BOOLEAN, masked : BOOLEAN, latched : BOOLEAN]
    BY DEF Init
  <2>2. ddr = [b \in Bursts |-> ddr[b]]
    BY DEF Init
  <2>3. ready_ff \in Sync /\ enable_ff \in Sync
    BY <1>1, AllFacts
  <2>4. bram_ff \in [r : BOOLEAN, prev : BOOLEAN]
    BY <1>1
  <2> QED BY <1>1, <2>1, <2>2, <2>3, <2>4 DEF Init, IType
<1>3. IHardware
  BY <1>1, AllFacts DEF IHardware, IArmed, IRunBram, IRunAxi, IStale, Filling, Draining
<1>4. IPort /\ IFresh
  BY <1>1 DEF IPort, IFresh, CleanCall
<1> QED BY <1>2, <1>3, <1>4 DEF IInv

\* Every step keeps the invariant.
LEMMA NextInv == IInv /\ [Next]_vars => IInv'
BY TypeStep, HardwareStep, PortStep, FreshStep DEF IInv

\* The engine never reads the BRAM while a capture fills it, whatever the interleaving
\* of the two clocks with the calls, timeouts and resets (pdh_core.sv waits for
\* bram_ready before it enables the engine).
THEOREM NeverMixed == Spec => []NoMixing
<1>1. IInv => NoMixing
  BY DEF IInv, IHardware, IArmed, IRunBram, IRunAxi, IStale, Turning, Called, Transferring, Transferred,
         Landed, NoMixing, IType
<1> QED BY <1>1, InitInv, NextInv, PTL DEF Spec

\* What a clean call holds when it returns.
LEMMA AtReturn ==
  ASSUME IInv, [Next]_vars, Returns, clean, sel
  PROVE  Done /\ Copy /\ Len(out') = BURSTS
<1>1. pc /= pc'
  BY DEF Returns
<1>2. Answer \/ Copy
  BY <1>1, PdhEdge, DmaEdge DEF IInv, Returns, Next, Server, CallGetFrame, StrobeIdle, StrobeGet, Woken, TimedOut,
     FopenErr, CallOther, AnswerOther, ResetFpga, DeliverIrq, server, vars
<1>3. Done
  BY DEF IInv, IFresh, CleanCall, Returns, Waiting, Running
<1>4. ~Answer
  BY <1>3 DEF Answer, Returns, Valid, Done, Routed
<1> QED BY <1>2, <1>3, <1>4 DEF Copy, Returns

\* A call of cmd_get_frame that found the path quiet and was woken returns its own
\* frame, every burst sampled under its own codes, for any number of calls before it.
THEOREM OwnFrameFresh == Spec => FreshFrame
<1>1. ASSUME IInv, [Next]_vars, Returns, clean, sel
      PROVE  out' = [i \in 1 .. BURSTS |-> {calls}]
  <2>1. Done /\ Copy /\ Len(out') = BURSTS
    BY <1>1, AtReturn
  <2>2. out \in Seq({{calls}}) /\ Len(out) < BURSTS /\ out' = Append(out, ddr[Len(out)])
    BY <2>1 DEF Done, Copy
  <2>3. Len(out) \in Bursts
    BY <2>2, FrameAssumption DEF Bursts
  <2>4. ddr[Len(out)] = {calls}
    BY <2>1, <2>3 DEF Done
  <2>5. out' \in Seq({{calls}})
    BY <2>2, <2>4
  <2> QED BY <2>1, <2>5
<1>2. IInv /\ [Next]_vars => [Returns /\ clean /\ sel => out' = [i \in 1 .. BURSTS |-> {calls}]]_vars
  BY <1>1
<1> QED BY <1>2, InitInv, NextInv, PTL DEF Spec, FreshFrame

\* Such a call leaves the path quiet for the next one: no interrupt is left, and both
\* engines rest.
THEOREM LeftQuiet == Spec => StaysQuiet
<1>1. ASSUME IInv, [Next]_vars, Returns, clean, sel
      PROVE  Quiet
  <2>1. Done /\ pc = "copy"
    BY <1>1, AtReturn DEF Copy
  <2>2. dma_state_r = "STALE" /\ Silent
    BY <2>1 DEF Done
  <2>3. Full(ready_ff) /\ BramReady
    BY <1>1, <2>2 DEF IInv, IHardware, IStale
  <2>4. ready_ff = All(TRUE)
    BY <1>1, <2>3, FullIsAll DEF IInv, IType
  <2>5. bram_ff = [r |-> TRUE, prev |-> TRUE]
    BY <1>1, <2>3 DEF IInv, IType, BramReady
  <2> QED BY <2>2, <2>4, <2>5 DEF Quiet, Silent
<1>2. IInv /\ [Next]_vars => [Returns /\ clean /\ sel => Quiet]_vars
  BY <1>1
<1> QED BY <1>2, InitInv, NextInv, PTL DEF Spec, StaysQuiet

----------------------------------------------------------------------------
(* The capture: BramController by itself, for every depth and decimation.  *)

\* The period of a capture lies between one edge and the counter's whole range.
LEMMA PeriodRange == TypeOK => Period \in Nat /\ Period >= 1 /\ Period <= DEC_MOD
  BY BramAssumption DEF TypeOK, Period

\* The counter runs through the period and starts again.
LEMMA CountStep ==
  ASSUME TypeOK, count_r <= Period - 1
  PROVE  /\ NextCount = IF count_r = Period - 1 THEN 0 ELSE count_r + 1
         /\ NextCount \in 0 .. DEC_MOD - 1
<1>1. Period \in Nat /\ Period >= 1 /\ Period <= DEC_MOD /\ count_r \in Nat /\ DEC_MOD \in Nat
  BY PeriodRange, BramAssumption DEF TypeOK
<1>2. CASE count_r = Period - 1
  BY <1>1, <1>2, BramAssumption DEF NextCount
<1>3. CASE count_r < Period - 1
  <2>1. count_r + 1 \in 0 .. DEC_MOD - 1
    BY <1>1, <1>3
  <2>2. \A n \in Nat : \A x \in 0 .. n - 1 : x % n = x
    BY SMT
  <2>3. (count_r + 1) % DEC_MOD = count_r + 1
    BY <2>1, <2>2, <1>1
  <2> QED BY <2>1, <2>3, <1>1, <1>3 DEF NextCount
<1> QED BY <1>1, <1>2, <1>3

\* Where a capture stands.  From address 1 on, the counter tells how many edges
\* of the present period are over, zero standing for all of them; addresses
\* behind keep the sample of the edge at which they were left.
Elapsed == IF addr_r = 0 THEN 0
           ELSE (addr_r - 1) * Period + (IF count_r = 0 THEN Period ELSE count_r)
ICapture ==
  bram_we =>
    /\ count_r <= Period - 1
    /\ addr_r = 0 => count_r = 0
    /\ age = Elapsed
    /\ addr_r = DEPTH - 1 => age = (DEPTH - 2) * Period + 1
    /\ \A k \in 0 .. addr_r - 1 : mem[k] = k * Period

IBram == TypeOK /\ ICapture

\* The invariant holds after reset.
LEMMA CaptureStarts == CaptureInit => IBram
<1> SUFFICES ASSUME CaptureInit PROVE TypeOK /\ ICapture
  BY DEF IBram
<1>1. prev_D \in BOOLEAN
  BY Zenon DEF CaptureInit
<1>2. mem \in [Addresses -> Nat \cup {Stale}]
  BY DEF CaptureInit
<1>3. addr_r \in Addresses /\ count_r \in 0 .. DEC_MOD - 1
  BY BramAssumption DEF CaptureInit, Addresses
<1>4. TypeOK
  BY <1>1, <1>2, <1>3 DEF CaptureInit, TypeOK
<1> QED BY <1>4 DEF CaptureInit, ICapture, bram_we

\* One edge of a capture: the counter runs, and when it was at zero the present
\* address keeps what this edge writes and the next one begins.
LEMMA CaptureStep == ASSUME IBram, Capture PROVE IBram'
<1>p. PICK P : P = Period /\ P \in Nat /\ P >= 1
  BY PeriodRange DEF IBram
<1>d. DEPTH \in Nat /\ DEPTH >= 2 /\ addr_r \in 0 .. DEPTH - 1 /\ count_r \in Nat /\ count_r <= P - 1
      /\ (addr_r = 0 => count_r = 0)
  BY <1>p, BramAssumption DEF Capture, IBram, ICapture, TypeOK, Addresses
<1>t. age \in Nat /\ age = Elapsed
  BY DEF Capture, IBram, ICapture, TypeOK
<1>m. mem \in [Addresses -> Nat \cup {Stale}] /\ \A k \in 0 .. addr_r - 1 : mem[k] = k * P
  BY <1>p DEF Capture, IBram, ICapture, TypeOK
<1>1. Period' = P
  BY <1>p DEF Capture, Period
<1>2. age' = age + 1 /\ mem' = [mem EXCEPT ![addr_r] = age]
      /\ state_r' = (IF addr_r = DEPTH - 1 THEN "IDLE" ELSE "CAPTURE")
      /\ addr_r' = (IF count_r = 0 THEN (addr_r + 1) % DEPTH ELSE addr_r)
      /\ UNCHANGED decimation_code_r
  BY DEF Capture
<1>3. count_r' = (IF count_r = P - 1 THEN 0 ELSE count_r + 1) /\ count_r' \in 0 .. DEC_MOD - 1
  BY <1>p, <1>d, CountStep DEF Capture, IBram
<1>4. addr_r' = IF count_r = 0 THEN (IF addr_r = DEPTH - 1 THEN 0 ELSE addr_r + 1) ELSE addr_r
  <2>1. CASE addr_r = DEPTH - 1
    <3>1. \A n \in Nat : n > 0 => n % n = 0
      BY SMT
    <3>2. addr_r + 1 = DEPTH
      BY <2>1, <1>d
    <3>3. (addr_r + 1) % DEPTH = 0
      BY <3>1, <3>2, <1>d
    <3> QED BY <3>3, <2>1, <1>2
  <2>2. CASE addr_r /= DEPTH - 1
    <3>1. \A n \in Nat : \A x \in 0 .. n - 1 : x % n = x
      BY SMT
    <3>2. addr_r + 1 \in 0 .. DEPTH - 1
      BY <2>2, <1>d
    <3>3. (addr_r + 1) % DEPTH = addr_r + 1
      BY <3>1, <3>2, <1>d
    <3> QED BY <3>3, <2>2, <1>2
  <2> QED BY <2>1, <2>2
<1>5. TypeOK'
  <2>1. addr_r' \in Addresses
    BY <1>d, <1>4 DEF Addresses
  <2>2. age' \in Nat
    BY <1>t, <1>2
  <2>3. mem' \in [Addresses -> Nat \cup {Stale}]
    BY <1>m, <1>t, <1>2
  <2>4. prev_D' \in BOOLEAN /\ rst' = rst
    BY DEF Capture, Detect
  <2> QED BY <1>2, <1>3, <2>1, <2>2, <2>3, <2>4 DEF TypeOK, IBram
<1>6. CASE addr_r = DEPTH - 1
  BY <1>5, <1>6, <1>2 DEF IBram, ICapture, bram_we
<1>7. CASE addr_r /= DEPTH - 1 /\ count_r /= 0
  <2>1. addr_r' = addr_r /\ addr_r /= 0
    BY <1>d, <1>4, <1>7
  <2>2. PICK q \in Nat : q = (addr_r - 1) * P
    BY <1>d, <1>p, <2>1, SMT
  <2>3. age = q + count_r
    BY <1>t, <1>p, <1>7, <2>1, <2>2 DEF Elapsed
  <2>4. age' = Elapsed'
    <3>1. Elapsed' = q + (IF count_r' = 0 THEN P ELSE count_r')
      BY <1>1, <2>1, <2>2 DEF Elapsed
    <3>2. (IF count_r' = 0 THEN P ELSE count_r') = count_r + 1
      BY <1>d, <1>p, <1>3, <1>7
    <3> QED BY <3>1, <3>2, <1>2, <1>d, <2>3
  <2>5. \A k \in 0 .. addr_r' - 1 : mem'[k] = k * P
    <3>1. ASSUME NEW k \in 0 .. addr_r' - 1 PROVE k \in Addresses /\ k /= addr_r /\ k \in 0 .. addr_r - 1
      BY <1>d, <2>1 DEF Addresses
    <3>2. ASSUME NEW k \in 0 .. addr_r' - 1 PROVE mem'[k] = mem[k]
      BY <3>1, <1>2, <1>m
    <3> QED BY <3>1, <3>2, <1>m
  <2>6. count_r' <= P - 1
    BY <1>d, <1>p, <1>3
  <2> QED BY <1>1, <1>5, <1>7, <2>1, <2>4, <2>5, <2>6 DEF IBram, ICapture
<1>8. CASE addr_r /= DEPTH - 1 /\ count_r = 0
  <2>1. addr_r' = addr_r + 1 /\ addr_r' /= 0 /\ addr_r' - 1 = addr_r
    BY <1>d, <1>4, <1>8
  <2>2. PICK q \in Nat : q = addr_r * P
    BY <1>d, <1>p, SMT
  <2>3. age = q
    <3>1. CASE addr_r = 0
      BY <1>t, <1>p, <2>2, <3>1 DEF Elapsed
    <3>2. CASE addr_r /= 0
      <4>1. age = (addr_r - 1) * P + P
        BY <1>t, <1>p, <1>8, <3>2 DEF Elapsed
      <4>2. (addr_r - 1) * P + P = addr_r * P
        BY <1>d, <1>p, SMT
      <4> QED BY <4>1, <4>2, <2>2
    <3> QED BY <3>1, <3>2
  <2>4. age' = Elapsed'
    <3>1. Elapsed' = (addr_r' - 1) * P + (IF count_r' = 0 THEN P ELSE count_r')
      BY <1>1, <2>1 DEF Elapsed
    <3>2. (IF count_r' = 0 THEN P ELSE count_r') = 1
      BY <1>d, <1>p, <1>3, <1>8
    <3>3. Elapsed' = q + 1
      BY <3>1, <3>2, <2>1, <2>2
    <3> QED BY <3>3, <1>2, <2>3
  <2>5. \A k \in 0 .. addr_r' - 1 : mem'[k] = k * P
    <3>1. ASSUME NEW k \in 0 .. addr_r' - 1 PROVE k \in Addresses /\ (k = addr_r \/ k \in 0 .. addr_r - 1)
      BY <1>d, <2>1 DEF Addresses
    <3>2. ASSUME NEW k \in 0 .. addr_r' - 1
          PROVE mem'[k] = IF k = addr_r THEN q ELSE mem[k]
      BY <3>1, <1>2, <1>m, <2>3
    <3> QED BY <3>1, <3>2, <1>m, <2>2
  <2>6. addr_r' = DEPTH - 1 => age' = (DEPTH - 2) * P + 1
    <3>1. addr_r' = DEPTH - 1 => addr_r = DEPTH - 2
      BY <1>d, <2>1
    <3> QED BY <3>1, <1>2, <2>2, <2>3
  <2>7. count_r' <= P - 1
    BY <1>d, <1>p, <1>3
  <2> QED BY <1>1, <1>5, <2>1, <2>4, <2>5, <2>6, <2>7 DEF IBram, ICapture
<1> QED BY <1>6, <1>7, <1>8

\* Every step keeps the invariant.
LEMMA CaptureGoesOn == IBram /\ [CaptureNext]_capture_vars => IBram'
<1> SUFFICES ASSUME IBram, [CaptureNext]_capture_vars PROVE IBram'
  OBVIOUS
<1>1. CASE Idle
  BY <1>1, BramAssumption DEF Idle, Detect, IBram, TypeOK, ICapture, bram_ready, bram_we, Addresses
<1>2. CASE Start
  <2>1. TypeOK'
    BY <1>2, BramAssumption DEF Start, Detect, IBram, TypeOK, Addresses
  <2>2. Period' \in Nat /\ Period' >= 1
    BY <2>1, BramAssumption DEF TypeOK, Period
  <2>3. ICapture'
    <3>1. addr_r' = 0 /\ count_r' = 0 /\ age' = 0
      BY <1>2 DEF Start
    <3>2. Elapsed' = 0
      BY <3>1 DEF Elapsed
    <3>3. addr_r' /= DEPTH - 1
      BY <3>1, BramAssumption
    <3>4. \A k \in 0 .. addr_r' - 1 : FALSE
      <4>1. \A k \in 0 .. 0 - 1 : FALSE
        BY SMT
      <4> QED BY <4>1, <3>1
    <3>5. count_r' <= Period' - 1
      <4>1. \A n \in Nat : n >= 1 => 0 <= n - 1
        BY SMT
      <4> QED BY <4>1, <3>1, <2>2, Zenon
    <3> QED BY <3>1, <3>2, <3>3, <3>4, <3>5 DEF ICapture
  <2> QED BY <2>1, <2>3 DEF IBram
<1>3. CASE Capture
  BY <1>3, CaptureStep
<1>4. CASE ResetAssert
  <2>1. UNCHANGED <<state_r, addr_r, count_r, decimation_code_r, age, mem>> /\ rst' = 2
    BY <1>4 DEF ResetAssert
  <2>2. UNCHANGED <<Period, Elapsed, bram_we>>
    BY <2>1 DEF Period, Elapsed, bram_we
  <2>3. ICapture'
    BY <2>1, <2>2 DEF IBram, ICapture
  <2>4. prev_D' \in BOOLEAN
    BY <1>4, Zenon DEF ResetAssert
  <2> QED BY <2>1, <2>3, <2>4 DEF IBram, TypeOK
<1>5. CASE ResetEdge
  <2>1. mem' \in [Addresses -> Nat \cup {Stale}]
    BY <1>5 DEF ResetEdge, IBram, TypeOK
  <2> QED BY <1>5, <2>1, BramAssumption DEF ResetEdge, IBram, TypeOK, ICapture, bram_we, Addresses
<1>6. CASE UNCHANGED capture_vars
  <2>1. UNCHANGED <<Period, Elapsed, bram_we>>
    BY <1>6 DEF capture_vars, Period, Elapsed, bram_we
  <2> QED BY <1>6, <2>1 DEF capture_vars, IBram, TypeOK, ICapture
<1> QED BY <1>1, <1>2, <1>3, <1>4, <1>5, <1>6 DEF CaptureNext

\* Registers keep their widths.
THEOREM BramTyping == CaptureSpec => []TypeOK
<1> QED BY CaptureStarts, CaptureGoesOn, PTL DEF CaptureSpec, IBram

\* In every capture each address but the last holds the sample of its own
\* multiple of the period, and the last one that of the edge after its neighbour's.
THEOREM Timed == CaptureSpec => SampleTimes
<1>1. ASSUME IBram, [CaptureNext]_capture_vars, CaptureEnds
      PROVE  /\ \A k \in 0 .. DEPTH - 2 : mem'[k] = k * Period
             /\ mem'[DEPTH - 1] = (DEPTH - 2) * Period + 1
  <2>1. Capture
    BY <1>1 DEF CaptureNext, capture_vars, Idle, Start, ResetAssert, ResetEdge, CaptureEnds, bram_we, bram_ready
  <2>2. addr_r = DEPTH - 1 /\ mem' = [mem EXCEPT ![addr_r] = age]
    BY <1>1, <2>1 DEF Capture, CaptureEnds, bram_ready
  <2>3. /\ age = (DEPTH - 2) * Period + 1 /\ mem \in [Addresses -> Nat \cup {Stale}]
        /\ \A k \in 0 .. addr_r - 1 : mem[k] = k * Period
    BY <1>1, <2>2 DEF IBram, ICapture, TypeOK, CaptureEnds
  <2> QED BY <2>2, <2>3, BramAssumption DEF Addresses
<1>2. IBram /\ [CaptureNext]_capture_vars =>
        [CaptureEnds =>
           /\ \A k \in 0 .. DEPTH - 2 : mem'[k] = k * Period
           /\ mem'[DEPTH - 1] = (DEPTH - 2) * Period + 1]_capture_vars
  BY <1>1
<1> QED BY <1>2, CaptureStarts, CaptureGoesOn, PTL DEF CaptureSpec, SampleTimes

\* How long a capture takes, in edges of pdh_clk, when no reset cuts it: two edges more
\* than DEPTH - 2 periods.  It outlasts synchronisers that are shorter than the BRAM
\* (CaptureMayEnd), and takes no more than DEPTH periods, which is what the timer of
\* cmd_get_frame gives it (TimedOut).
THEOREM Lasts ==
  CaptureSpec => [][CaptureEnds => /\ age' = (DEPTH - 2) * Period + 2
                                   /\ DEPTH <= age' /\ age' <= DEPTH * Period]_capture_vars
<1>1. ASSUME IBram, [CaptureNext]_capture_vars, CaptureEnds
      PROVE  /\ age' = (DEPTH - 2) * Period + 2
             /\ DEPTH <= age' /\ age' <= DEPTH * Period
  <2>1. Capture
    BY <1>1 DEF CaptureNext, capture_vars, Idle, Start, ResetAssert, ResetEdge,
                CaptureEnds, bram_we, bram_ready
  <2>2. addr_r = DEPTH - 1 /\ age' = age + 1
    BY <1>1, <2>1 DEF Capture, CaptureEnds, bram_ready
  <2>3. age = (DEPTH - 2) * Period + 1
    BY <1>1, <2>2 DEF IBram, ICapture, CaptureEnds
  <2>4. PICK P \in Nat : P = Period /\ P >= 1
    BY <1>1, PeriodRange DEF IBram
  <2>5. PICK d \in Nat : d = DEPTH - 2
    BY BramAssumption
  <2>6. \A p, m \in Nat : m >= 1 => p * m \in Nat /\ p * m >= p /\ (p + 2) * m = p * m + 2 * m
    BY SMT
  <2>7. d * P \in Nat /\ d * P >= d /\ (d + 2) * P = d * P + 2 * P
    BY <2>4, <2>6
  <2>8. DEPTH = d + 2
    BY <2>5, BramAssumption
  <2>9. age' = d * P + 2
    BY <2>2, <2>3, <2>4, <2>5, <2>7
  <2> QED BY <2>4, <2>5, <2>7, <2>8, <2>9
<1>2. IBram /\ [CaptureNext]_capture_vars =>
        [CaptureEnds => /\ age' = (DEPTH - 2) * Period + 2
                        /\ DEPTH <= age' /\ age' <= DEPTH * Period]_capture_vars
  BY <1>1
<1> QED BY <1>2, CaptureStarts, CaptureGoesOn, PTL DEF CaptureSpec

\* Every edge of the capture controller is an edge BramEdge has, the two sharing enable
\* and ready, with the samples of a capture put together as the frame they are of; that
\* a capture outlasts the synchronisers is the one thing BramEdge adds (see Lasts).
THEOREM CaptureRefines ==
  ASSUME Idle \/ Start \/ Capture, bram_enable_r = prev_D',
         bram_busy = bram_we, bram_prev = prev_D, bram_busy' = bram_we', bram_prev' = prev_D',
         bram_mem' = IF bram_we THEN bram_mem \cup {dma_data_r} ELSE IF bram_we' THEN {} ELSE bram_mem,
         CaptureEnds => CaptureMayEnd
  PROVE  BramEdge
<1>1. CASE Idle
  <2>1. ~bram_we /\ ~bram_we' /\ (prev_D' => prev_D)
    BY <1>1 DEF Idle, Detect, bram_we, bram_ready
  <2>2. bram_busy' = bram_busy
    BY <2>1 DEF bram_we
  <2> QED BY <2>1, <2>2 DEF BramEdge
<1>2. CASE Start
  <2>1. ~bram_we /\ bram_we' /\ prev_D' /\ ~prev_D
    BY <1>2 DEF Start, Detect, bram_we, bram_ready
  <2>2. bram_busy' = TRUE
    BY <2>1 DEF bram_we
  <2> QED BY <2>1, <2>2 DEF BramEdge
<1>3. CASE Capture
  <2>1. bram_we /\ (bram_we' \/ CaptureEnds)
    BY <1>3 DEF Capture, Detect, CaptureEnds, bram_we, bram_ready
  <2> QED BY <2>1 DEF BramEdge, CaptureEnds, bram_ready, bram_we
<1> QED BY <1>1, <1>2, <1>3

====
