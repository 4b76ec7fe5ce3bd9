---- MODULE DmaController ----
(***************************************************************************)
(* The AXI3 write master of core/hw/rtl/dma_controller.sv together with    *)
(* the registered BRAM read port that feeds it and the slave it writes to. *)
(* One step is one edge of aclk, or the asynchronous assertion of rst_i.   *)
(*                                                                         *)
(* Addresses are counted in beats of 8 bytes.  A 64-bit word is named by   *)
(* the BRAM address that holds it: word w is the w-th captured sample.     *)
(*                                                                         *)
(* The slave (the HP0 port of the processing system and the DDR behind it) *)
(* is external: it accepts addresses and beats when it likes, gives each   *)
(* accepted address its BURST_BEATS beats in order and answers each        *)
(* complete burst once, with OKAY or with an error.  It is not reset by    *)
(* rst_i.  OUTSTANDING bounds the bursts it holds.                         *)
(***************************************************************************)
EXTENDS Integers, Sequences

CONSTANTS
  HP0_BASE_ADDR,   \* first address of the frame buffer in DDR
  BURST_BEATS,     \* beats of a burst: 16 in the code
  BURSTS,          \* DMA_SIZE / (8 * BURST_BEATS): 1024 in the code
  OUTSTANDING,     \* bursts the slave holds at once
  MidBurstReset,   \* whether rst_i may come while a transfer is running
  BrespConnected   \* whether m_axi_bresp is driven: pdh_top.sv leaves it undriven,
                   \* which synthesis ties to 00, so every response reads OKAY

ASSUME DmaAssumption ==
  /\ HP0_BASE_ADDR \in Nat
  /\ BURST_BEATS \in Nat /\ BURST_BEATS >= 2
  /\ BURSTS \in Nat \ {0}
  /\ OUTSTANDING \in Nat \ {0}
  /\ MidBurstReset \in BOOLEAN
  /\ BrespConnected \in BOOLEAN

WORDS == BURSTS * BURST_BEATS
ADDR_INC == BURST_BEATS
BURST_LEN == BURST_BEATS - 1
FINAL_WRITE_ADDR == HP0_BASE_ADDR + WORDS - 1

Slots == 0 .. WORDS - 1      \* positions of the frame buffer, and BRAM addresses
NoWord == -1                 \* no captured sample: the cleared data register

VARIABLES
  state_r, addr_r, beat_r, data_r,  \* the registers of the state machine
  dout_r,                           \* output register of the BRAM (data_i)
  enable_ff,                        \* enable_1ff, 2ff, 3ff and the detector's prev_D
  rst,                              \* edges of aclk that rst_sync_r still covers
  aw, got, resp,                    \* slave: open bursts, beats of the oldest, answers due
  frame                             \* DDR: the word this transfer put at each slot

master == <<state_r, addr_r, beat_r, data_r>>
slave == <<aw, got, resp, frame>>
vars == <<state_r, addr_r, beat_r, data_r, dout_r, enable_ff, rst, aw, got, resp, frame>>

----------------------------------------------------------------------------
(* Combinational signals. *)

enable_sync_edge == enable_ff.ff3 /\ ~enable_ff.prev
m_axi_awvalid == state_r = "SET_ADDR"
m_axi_wvalid == state_r = "SET_DATA"
m_axi_bready == state_r = "AWAIT_RESP"
\* Mutant: wlast one beat early.
WlastEarly == m_axi_wvalid /\ beat_r = BURST_LEN - 1
m_axi_wlast == m_axi_wvalid /\ beat_r = BURST_LEN
dma_ready == state_r = "IDLE"

\* Mutant: the read address runs one beat ahead.
BramAddrAhead(a, b) == (a - HP0_BASE_ADDR + b + 1) % WORDS
\* The BRAM has exactly WORDS words and its address port drops higher bits.
bram_addr(a, b) == (a - HP0_BASE_ADDR + b) % WORDS

----------------------------------------------------------------------------
(* What every edge of aclk does besides the state machine. *)

ReadBram == dout_r' = bram_addr(addr_r, beat_r)

Synchronise ==
  \E enable_i \in BOOLEAN :
    enable_ff' = [ff1 |-> enable_i, ff2 |-> enable_ff.ff1,
                  ff3 |-> enable_ff.ff2, prev |-> enable_ff.ff3]

Edge == /\ rst = 0
        /\ ReadBram
        /\ Synchronise
        /\ UNCHANGED rst

----------------------------------------------------------------------------
(* The slave's half of the three handshakes. *)

Accepting == Len(aw) < OUTSTANDING /\ Len(resp) < OUTSTANDING

SlaveTakesAddr ==
  /\ Accepting
  /\ aw' = Append(aw, addr_r)
  /\ UNCHANGED <<got, resp, frame>>

SlaveTakesBeat ==
  /\ aw /= <<>>
  /\ frame' = [frame EXCEPT ![Head(aw) - HP0_BASE_ADDR + got] = data_r]
  /\ IF got = BURST_LEN
     THEN got' = 0 /\ aw' = Tail(aw) /\ resp' = Append(resp, Head(aw))
     ELSE got' = got + 1 /\ UNCHANGED <<aw, resp>>

SlaveOkay ==
  /\ resp /= <<>>
  /\ resp' = Tail(resp)
  /\ UNCHANGED <<aw, got, frame>>

\* A burst answered with an error has not reached the memory.
SlaveError ==
  /\ resp /= <<>>
  /\ resp' = Tail(resp)
  /\ frame' = [s \in Slots |->
                 IF s + HP0_BASE_ADDR \in Head(resp) .. Head(resp) + BURST_LEN
                 THEN NoWord ELSE frame[s]]
  /\ UNCHANGED <<aw, got>>

----------------------------------------------------------------------------
(* The state machine, one action per state and outcome. *)

Idle ==
  /\ state_r = "IDLE" /\ ~enable_sync_edge
  /\ addr_r' = HP0_BASE_ADDR /\ beat_r' = 0 /\ data_r' = NoWord
  /\ Edge
  /\ UNCHANGED <<state_r, slave>>

\* frame is cleared with the start so that it tells what this transfer wrote.
Start ==
  /\ state_r = "IDLE" /\ enable_sync_edge
  /\ state_r' = "SET_ADDR"
  /\ addr_r' = HP0_BASE_ADDR /\ beat_r' = 0 /\ data_r' = NoWord
  /\ frame' = [s \in Slots |-> NoWord]
  /\ Edge
  /\ UNCHANGED <<aw, got, resp>>

SetAddr(acked) ==
  /\ m_axi_awvalid
  /\ IF acked THEN SlaveTakesAddr /\ state_r' = "SET_DATA"
              ELSE UNCHANGED <<state_r, slave>>
  /\ beat_r' = 0 /\ data_r' = dout_r
  /\ Edge
  /\ UNCHANGED addr_r

AddrWait == SetAddr(FALSE)
AddrAck == SetAddr(TRUE)

\* Mutant: data_r loads data_i without waiting for wready.
DataWaitLoads ==
  /\ m_axi_wvalid
  /\ data_r' = dout_r
  /\ Edge
  /\ UNCHANGED <<state_r, addr_r, beat_r, slave>>

DataWait ==
  /\ m_axi_wvalid
  /\ Edge
  /\ UNCHANGED <<master, slave>>

DataAck ==
  /\ m_axi_wvalid
  /\ SlaveTakesBeat
  /\ state_r' = IF m_axi_wlast THEN "AWAIT_RESP" ELSE "SET_DATA"
  /\ beat_r' = beat_r + 1 /\ data_r' = dout_r
  /\ Edge
  /\ UNCHANGED addr_r

AwaitResp ==
  /\ m_axi_bready
  /\ beat_r' = 0 /\ data_r' = NoWord
  /\ Edge

RespWait == AwaitResp /\ UNCHANGED <<state_r, addr_r, slave>>

\* Mutants: one burst too many, one burst too few.
LastBurstLate == addr_r + ADDR_INC > FINAL_WRITE_ADDR + 1
LastBurstSoon == addr_r + 2 * ADDR_INC > FINAL_WRITE_ADDR

LastBurst == addr_r + ADDR_INC > FINAL_WRITE_ADDR

RespOkay ==
  /\ AwaitResp
  /\ SlaveOkay \/ (~BrespConnected /\ SlaveError)
  /\ state_r' = IF LastBurst THEN "IDLE" ELSE "SET_ADDR"
  /\ addr_r' = addr_r + ADDR_INC

\* Mutants: the address moves on whatever the response (the line commented out
\* in the code), and a refused burst that is not sent again.
RespErrorMovesOn ==
  /\ AwaitResp
  /\ SlaveError
  /\ state_r' = IF LastBurst THEN "IDLE" ELSE "SET_ADDR"
  /\ addr_r' = addr_r + ADDR_INC

RespErrorWaits == AwaitResp /\ SlaveError /\ UNCHANGED <<state_r, addr_r>>

RespError ==
  /\ AwaitResp /\ BrespConnected
  /\ SlaveError
  /\ state_r' = "SET_ADDR"
  /\ UNCHANGED addr_r

----------------------------------------------------------------------------
(* Reset: rst_i sets rst_pipe1_r and rst_sync_r at once and clears prev_D;  *)
(* the registers follow at the edges of aclk that find rst_sync_r set.      *)

ResetAssert ==
  /\ MidBurstReset \/ dma_ready
  /\ rst' = 2
  /\ enable_ff' = [enable_ff EXCEPT !.prev = FALSE]
  /\ UNCHANGED <<master, dout_r, slave>>

ResetEdge ==
  /\ rst > 0
  /\ rst' = rst - 1
  /\ state_r' = "IDLE" /\ addr_r' = HP0_BASE_ADDR /\ beat_r' = 0 /\ data_r' = NoWord
  /\ enable_ff' = [ff1 |-> FALSE, ff2 |-> FALSE, ff3 |-> FALSE, prev |-> enable_ff.ff3]
  /\ ReadBram
  /\ \/ UNCHANGED slave
     \/ m_axi_awvalid /\ SlaveTakesAddr
     \/ m_axi_wvalid /\ SlaveTakesBeat
     \/ m_axi_bready /\ (SlaveOkay \/ SlaveError)

----------------------------------------------------------------------------
Init ==
  /\ state_r = "IDLE" /\ addr_r = HP0_BASE_ADDR /\ beat_r = 0 /\ data_r = NoWord
  /\ dout_r \in Slots
  /\ enable_ff = [ff1 |-> FALSE, ff2 |-> FALSE, ff3 |-> FALSE, prev |-> FALSE]
  /\ rst = 0
  /\ aw = <<>> /\ got = 0 /\ resp = <<>>
  /\ frame = [s \in Slots |-> NoWord]

Next ==
  \/ Idle \/ Start
  \/ AddrWait \/ AddrAck
  \/ DataWait \/ DataAck
  \/ RespWait \/ RespOkay \/ RespError
  \/ ResetAssert \/ ResetEdge

Spec == Init /\ [][Next]_vars

\* The slave accepts an address or a beat it is offered, answers a complete
\* burst, does not answer with errors for ever, and aclk runs.
Fairness ==
  /\ WF_vars(Start) /\ WF_vars(AddrAck) /\ WF_vars(DataAck) /\ WF_vars(ResetEdge)
  /\ WF_vars(RespOkay \/ RespError) /\ SF_vars(RespOkay)

FairSpec == Spec /\ Fairness

----------------------------------------------------------------------------
(* Properties. *)

BurstAddrs == {HP0_BASE_ADDR + k * BURST_BEATS : k \in 0 .. BURSTS - 1}
States == {"IDLE", "SET_ADDR", "SET_DATA", "AWAIT_RESP"}

\* Every register keeps its range; the slave holds only bursts of the frame.
TypeOK ==
  /\ state_r \in States
  /\ addr_r \in BurstAddrs \cup {HP0_BASE_ADDR + WORDS}
  /\ beat_r \in 0 .. BURST_BEATS
  /\ data_r \in Slots \cup {NoWord}
  /\ dout_r \in Slots
  /\ enable_ff \in [ff1 : BOOLEAN, ff2 : BOOLEAN, ff3 : BOOLEAN, prev : BOOLEAN]
  /\ rst \in 0 .. 2
  /\ aw \in Seq(BurstAddrs)
  /\ got \in 0 .. BURST_LEN
  /\ resp \in Seq(BurstAddrs)
  /\ frame \in [Slots -> Slots \cup {NoWord}]

\* No address phase, whatever the history of errors, retries and resets,
\* offers a burst that is not one of the BURSTS aligned bursts of the buffer:
\* the engine cannot write outside the DMA_SIZE bytes it was given.
AddressInFrame == m_axi_awvalid => addr_r \in BurstAddrs

\* Master and slave agree on where in the burst they are: each offered beat is
\* the beat the slave counts next, in the burst the master thinks open, so that
\* wlast marks the slave's last beat; and at most one burst is in flight.
BurstAgreement ==
  \/ m_axi_wvalid /\ aw = <<addr_r>> /\ got = beat_r /\ resp = <<>>
       /\ (m_axi_wlast <=> got = BURST_LEN)
  \/ m_axi_bready /\ aw = <<>> /\ got = 0 /\ resp = <<addr_r>>
  \/ (m_axi_awvalid \/ dma_ready) /\ aw = <<>> /\ got = 0 /\ resp = <<>>

\* AXI handshake rule: what was offered with valid and not accepted is offered
\* unchanged at the next edge (reset apart).
HeldUntilAccepted ==
  [][rst = 0 =>
       /\ m_axi_awvalid /\ aw' = aw => m_axi_awvalid' /\ addr_r' = addr_r
       /\ m_axi_wvalid /\ slave' = slave =>
            m_axi_wvalid' /\ data_r' = data_r /\ m_axi_wlast' = m_axi_wlast]_vars

\* The engine reports ready after a transfer only when memory holds a word of
\* this transfer at every slot: bursts answered with an error were repeated.
ReadyMeansWritten ==
  [][~dma_ready /\ dma_ready' /\ rst = 0 =>
       \A s \in Slots : frame'[s] /= NoWord]_vars

\* The read pipeline (bram_addr_o, the BRAM's output register, data_r) is two
\* edges deep and beat_r does not run ahead: a beat after the first carries the
\* word of one of the two slots before its own in the burst, never its own.  The
\* first beat carries its own word, or, when the address was accepted at once,
\* the word fetched before addr_r moved (the burst before) or, after an error,
\* the word fetched with beat_r past the end (the burst after).
Offset == addr_r - HP0_BASE_ADDR
BeatLag ==
  m_axi_wvalid =>
    IF beat_r = 0
    THEN data_r \in {Offset, Offset - BURST_BEATS, (Offset + BURST_BEATS) % WORDS}
    ELSE data_r - Offset \in {beat_r - 1, beat_r - 2} /\ data_r >= Offset

\* What the header of dma_controller.sv says: the transfer streams the contents
\* of the BRAM to DDR, each word to its slot.
StreamsBram ==
  [][~dma_ready /\ dma_ready' /\ rst = 0 =>
       \A s \in Slots : frame'[s] = s]_vars

\* A transfer that starts ends, with the whole frame in memory.
TransferCompletes ==
  state_r = "SET_ADDR" ~> dma_ready /\ \A s \in Slots : frame[s] /= NoWord

----------------------------------------------------------------------------
(* The engine implements the transfer it promises (DmaTransfer), as long as *)
(* it is reset only between transfers.                                      *)

SlotsOf(b) == b * BURST_BEATS .. b * BURST_BEATS + BURST_LEN
LandedIn(memory) == {b \in 0 .. BURSTS - 1 : \A s \in SlotsOf(b) : memory[s] /= NoWord}
landed == LandedIn(frame)

Transfer == INSTANCE DmaTransfer WITH busy <- ~dma_ready, landed <- landed

\* Every behaviour of the engine and its slave is a behaviour of the transfer:
\* bursts land in order, a refused burst is moved again before the next, and
\* ready comes back only after the last.
ImplementsTransfer == Transfer!Spec

====
