---- MODULE DmaProofs ----
(***************************************************************************)
(* Proofs about DmaController for every burst size, frame size, buffer     *)
(* address and slave depth.                                                *)
(***************************************************************************)
EXTENDS DmaController, SequenceTheorems, TLAPS

----------------------------------------------------------------------------
(* Arithmetic of bursts and slots. *)

\* The frame has at least one word.
LEMMA WordsPos == WORDS \in Nat /\ WORDS >= BURST_BEATS /\ WORDS > 0
<1>1. \A m, n \in Nat : m > 0 => m * n \in Nat /\ m * n >= n
  BY SMT
<1> QED BY <1>1, DmaAssumption DEF WORDS

\* A remainder lies below its divisor, and small numbers are their own remainder.
LEMMA ModRange == ASSUME NEW n \in Nat, n > 0, NEW x \in Int PROVE x % n \in 0 .. n - 1
  BY SMT

\* A remainder of a smaller number is the number.
LEMMA ModSmall == ASSUME NEW n \in Nat, NEW x \in 0 .. n - 1 PROVE x % n = x
  BY SMT

\* A burst address starts a burst that lies wholly inside the buffer.
LEMMA BurstInside ==
  ASSUME NEW a \in BurstAddrs
  PROVE  /\ a \in Nat
         /\ a >= HP0_BASE_ADDR
         /\ a + BURST_BEATS <= HP0_BASE_ADDR + WORDS
<1>1. PICK k \in 0 .. BURSTS - 1 : a = HP0_BASE_ADDR + k * BURST_BEATS
  BY DEF BurstAddrs
<1>2. k * BURST_BEATS \in Nat
  BY DmaAssumption, SMT
<1>3. k * BURST_BEATS + BURST_BEATS <= BURSTS * BURST_BEATS
  <2>1. \A m, n, b \in Nat : m + 1 <= n => m * b + b <= n * b
    BY SMT
  <2> QED BY <2>1, DmaAssumption
<1> QED BY <1>1, <1>2, <1>3, DmaAssumption DEF WORDS

\* After a burst that does not pass LastBurst comes another burst address; after
\* one that does, the buffer is full.
LEMMA BurstNext ==
  ASSUME NEW a \in BurstAddrs
  PROVE  IF a + ADDR_INC > FINAL_WRITE_ADDR
         THEN a + ADDR_INC = HP0_BASE_ADDR + WORDS
         ELSE a + ADDR_INC \in BurstAddrs
<1>1. PICK k \in 0 .. BURSTS - 1 : a = HP0_BASE_ADDR + k * BURST_BEATS
  BY DEF BurstAddrs
<1>2. a + ADDR_INC = HP0_BASE_ADDR + (k + 1) * BURST_BEATS
  BY <1>1, DmaAssumption, SMT DEF ADDR_INC
<1>3. CASE k + 1 = BURSTS
  BY <1>2, <1>3, WordsPos, DmaAssumption DEF WORDS, FINAL_WRITE_ADDR
<1>4. CASE k + 1 < BURSTS
  <2>1. a + ADDR_INC \in BurstAddrs
    <3>1. k + 1 \in 0 .. BURSTS - 1
      BY <1>4, DmaAssumption
    <3> QED BY <1>2, <3>1 DEF BurstAddrs
  <2>2. a + ADDR_INC + BURST_BEATS <= HP0_BASE_ADDR + WORDS
    BY <2>1, BurstInside
  <2> QED BY <2>1, <2>2, BurstInside, WordsPos, DmaAssumption DEF FINAL_WRITE_ADDR, ADDR_INC
<1> QED BY <1>3, <1>4, DmaAssumption

\* The first burst starts at the base address.
LEMMA BurstFirst == HP0_BASE_ADDR \in BurstAddrs
<1>1. 0 \in 0 .. BURSTS - 1 /\ HP0_BASE_ADDR = HP0_BASE_ADDR + 0 * BURST_BEATS
  BY DmaAssumption
<1> QED BY <1>1 DEF BurstAddrs

\* The BRAM's read register only ever loads a frame position.
LEMMA BramAddrRange ==
  ASSUME NEW a \in Int, NEW b \in Int PROVE bram_addr(a, b) \in Slots
  BY WordsPos, ModRange, DmaAssumption DEF bram_addr, Slots

----------------------------------------------------------------------------
(* Typing, under resets at any moment. *)

\* TypeOK is not inductive alone: the address of a running transfer is a burst
\* address (not the one past the end), and beats are counted up to BURST_LEN.
Running == state_r /= "IDLE"
IType ==
  /\ TypeOK
  /\ Running => addr_r \in BurstAddrs
  /\ m_axi_wvalid => beat_r \in 0 .. BURST_LEN

\* Edge keeps the read register and the synchroniser typed.
LEMMA EdgeType ==
  ASSUME IType, Edge
  PROVE  /\ dout_r' \in Slots /\ rst' = rst
         /\ enable_ff' \in [ff1 : BOOLEAN, ff2 : BOOLEAN, ff3 : BOOLEAN, prev : BOOLEAN]
<1>1. addr_r \in Int /\ beat_r \in Int
  BY BurstInside, WordsPos, DmaAssumption DEF IType, TypeOK
<1>2. dout_r' \in Slots
  BY <1>1, BramAddrRange DEF Edge, ReadBram
<1> QED BY <1>2 DEF IType, TypeOK, Edge, Synchronise

\* Each slave operation keeps the slave's bookkeeping typed.
SlaveType ==
  /\ aw \in Seq(BurstAddrs) /\ got \in 0 .. BURST_LEN /\ resp \in Seq(BurstAddrs)
  /\ frame \in [Slots -> Slots \cup {NoWord}]

\* The slave keeps its types when it takes an address,
LEMMA SlaveAddrType ==
  ASSUME SlaveType, addr_r \in BurstAddrs, SlaveTakesAddr PROVE SlaveType'
  BY DEF SlaveType, SlaveTakesAddr

\* a beat,
LEMMA SlaveBeatType ==
  ASSUME SlaveType, data_r \in Slots \cup {NoWord}, SlaveTakesBeat PROVE SlaveType'
<1>1. Head(aw) \in BurstAddrs /\ Tail(aw) \in Seq(BurstAddrs)
  BY DEF SlaveType, SlaveTakesBeat
<1>2. frame' \in [Slots -> Slots \cup {NoWord}]
  BY DEF SlaveType, SlaveTakesBeat
<1>3. CASE got = BURST_LEN
  <2>1. aw' \in Seq(BurstAddrs) /\ got' = 0
    BY <1>1, <1>3 DEF SlaveTakesBeat
  <2>2. resp' \in Seq(BurstAddrs)
    <3>1. resp' = Append(resp, Head(aw)) /\ resp \in Seq(BurstAddrs)
      BY <1>3 DEF SlaveType, SlaveTakesBeat
    <3> HIDE DEF SlaveTakesBeat
    <3> QED BY <1>1, <3>1, AppendProperties
  <2> QED BY <1>2, <2>1, <2>2, DmaAssumption DEF SlaveType, BURST_LEN
<1>4. CASE got /= BURST_LEN
  BY <1>2, <1>4, DmaAssumption DEF SlaveType, SlaveTakesBeat, BURST_LEN
<1> QED BY <1>3, <1>4

\* and when it answers.
LEMMA SlaveRespType ==
  ASSUME SlaveType, SlaveOkay \/ SlaveError PROVE SlaveType'
<1>1. Tail(resp) \in Seq(BurstAddrs)
  BY DEF SlaveType, SlaveOkay, SlaveError
<1> QED BY <1>1 DEF SlaveType, SlaveOkay, SlaveError

\* The registers keep their ranges at every step, under resets at any moment.
THEOREM Typing == Spec => []IType
<1>1. Init => IType
  BY BurstFirst, DmaAssumption
  DEF Init, IType, TypeOK, States, Running, m_axi_wvalid, BURST_LEN
<1>2. IType /\ [Next]_vars => IType'
  <2> SUFFICES ASSUME IType, [Next]_vars PROVE IType'
    OBVIOUS
  <2> USE DEF m_axi_awvalid, m_axi_wvalid, m_axi_bready, master, slave, States, Running
  <2>0. SlaveType
    BY DEF IType, TypeOK, SlaveType
  <2>a. addr_r' \in BurstAddrs /\ UNCHANGED slave /\ Edge
        /\ state_r' \in States /\ data_r' \in Slots \cup {NoWord}
        /\ beat_r' \in 0 .. BURST_BEATS
        /\ (state_r' = "SET_DATA" => beat_r' \in 0 .. BURST_LEN) => IType'
    BY EdgeType DEF IType, TypeOK
  <2>1. CASE Idle
    BY <2>1, <2>a, BurstFirst, DmaAssumption DEF Idle, BURST_LEN
  <2>2. CASE Start
    <3>1. frame' \in [Slots -> Slots \cup {NoWord}]
      BY <2>2 DEF Start
    <3> QED BY <2>2, <3>1, EdgeType, BurstFirst, DmaAssumption DEF Start, IType, TypeOK
  <2>3. CASE AddrWait
    BY <2>3, <2>a, DmaAssumption DEF AddrWait, SetAddr, IType, TypeOK, BURST_LEN
  <2>4. CASE AddrAck
    <3>1. SlaveType'
      BY <2>4, <2>0, SlaveAddrType DEF AddrAck, SetAddr, IType
    <3> QED BY <2>4, <3>1, EdgeType, DmaAssumption
            DEF AddrAck, SetAddr, IType, TypeOK, BURST_LEN, SlaveType
  <2>5. CASE DataWait
    BY <2>5, <2>a DEF DataWait, IType, TypeOK
  <2>6. CASE DataAck
    <3>1. SlaveType'
      BY <2>6, <2>0, SlaveBeatType DEF DataAck, IType, TypeOK
    <3>2. beat_r' \in 0 .. BURST_BEATS
      BY <2>6, DmaAssumption DEF DataAck, IType, BURST_LEN
    <3>3. state_r' = "SET_DATA" => beat_r' \in 0 .. BURST_LEN
      BY <2>6, DmaAssumption DEF DataAck, IType, BURST_LEN, m_axi_wlast
    <3> QED BY <2>6, <3>1, <3>2, <3>3, EdgeType DEF DataAck, IType, TypeOK, SlaveType
  <2>7. CASE RespWait
    BY <2>7, <2>a, DmaAssumption DEF RespWait, AwaitResp, IType, TypeOK
  <2>8. CASE RespOkay
    <3>1. SlaveType'
      BY <2>8, <2>0, SlaveRespType DEF RespOkay
    <3>2. addr_r' \in BurstAddrs \cup {HP0_BASE_ADDR + WORDS}
          /\ (state_r' /= "IDLE" => addr_r' \in BurstAddrs)
      BY <2>8, BurstNext DEF RespOkay, AwaitResp, LastBurst, IType
    <3> QED BY <2>8, <3>1, <3>2, EdgeType, DmaAssumption
            DEF RespOkay, AwaitResp, IType, TypeOK, SlaveType
  <2>9. CASE RespError
    <3>1. SlaveType'
      BY <2>9, <2>0, SlaveRespType DEF RespError
    <3> QED BY <2>9, <3>1, EdgeType, DmaAssumption
            DEF RespError, AwaitResp, IType, TypeOK, SlaveType
  <2>10. CASE ResetAssert
    <3>1. enable_ff' \in [ff1 : BOOLEAN, ff2 : BOOLEAN, ff3 : BOOLEAN, prev : BOOLEAN]
      BY <2>10, Zenon DEF ResetAssert, IType, TypeOK
    <3>2. rst' = 2 /\ UNCHANGED master /\ UNCHANGED dout_r /\ UNCHANGED slave
      BY <2>10, Zenon DEF ResetAssert
    <3> QED BY <3>1, <3>2 DEF IType, TypeOK
  <2>11. CASE ResetEdge
    <3>1. SlaveType'
      BY <2>11, <2>0, SlaveAddrType, SlaveBeatType, SlaveRespType
      DEF ResetEdge, IType, TypeOK, SlaveType
    <3>2. dout_r' \in Slots
      <4>1. addr_r \in Int /\ beat_r \in Int
        BY BurstInside, WordsPos, DmaAssumption DEF IType, TypeOK
      <4> QED BY <2>11, <4>1, BramAddrRange DEF ResetEdge, ReadBram
    <3>3. rst' \in 0 .. 2 /\ enable_ff' \in [ff1 : BOOLEAN, ff2 : BOOLEAN, ff3 : BOOLEAN, prev : BOOLEAN]
      BY <2>11 DEF ResetEdge, IType, TypeOK
    <3> QED BY <2>11, <3>1, <3>2, <3>3, BurstFirst, DmaAssumption
            DEF ResetEdge, IType, TypeOK, SlaveType
  <2>12. CASE UNCHANGED vars
    BY <2>12 DEF vars, IType, TypeOK
  <2> QED BY <2>1, <2>2, <2>3, <2>4, <2>5, <2>6, <2>7, <2>8, <2>9, <2>10, <2>11, <2>12 DEF Next
<1> QED BY <1>1, <1>2, PTL DEF Spec

\* Whatever the history of errors, stalls and resets, no burst is offered
\* outside the frame buffer.
THEOREM StaysInFrame == Spec => []AddressInFrame
<1>1. IType => AddressInFrame
  BY DEF IType, AddressInFrame, Running, m_axi_awvalid
<1> QED BY <1>1, Typing, PTL

----------------------------------------------------------------------------
(* The lag of the read pipeline, under resets at any moment.               *)

\* BeatLag speaks of data_r alone; what makes it inductive is the word waiting
\* in dout_r behind it, and where addr_r and beat_r stand in the other states.
ILag ==
  /\ BeatLag
  /\ dma_ready => beat_r = 0 /\ addr_r \in {HP0_BASE_ADDR, HP0_BASE_ADDR + WORDS}
  /\ m_axi_awvalid =>
       /\ beat_r = 0
       /\ dout_r \in {Offset, Offset - BURST_BEATS, (Offset + BURST_BEATS) % WORDS}
  /\ m_axi_wvalid =>
       IF beat_r = 0 THEN dout_r = Offset
       ELSE dout_r - Offset \in {beat_r - 1, beat_r}
  /\ m_axi_bready => beat_r \in {0, BURST_BEATS}

\* What bram_addr_o reads, state by state.
LEMMA BramAddrInBurst ==
  ASSUME NEW b \in 0 .. BURST_LEN, addr_r \in BurstAddrs
  PROVE  bram_addr(addr_r, b) = Offset + b /\ Offset \in Nat
<1>1. Offset + b \in 0 .. WORDS - 1 /\ Offset \in Nat
  BY BurstInside, WordsPos, DmaAssumption DEF Offset, BURST_LEN
<1>2. (Offset + b) % WORDS = Offset + b
  BY <1>1, ModSmall, WordsPos
<1> QED BY <1>1, <1>2 DEF bram_addr, Offset

\* Between frames the read address is that of the first word.
LEMMA BramAddrIdle ==
  bram_addr(HP0_BASE_ADDR, 0) = 0 /\ bram_addr(HP0_BASE_ADDR + WORDS, 0) = 0
<1>1. 0 % WORDS = 0
  BY ModSmall, WordsPos
<1>2. WORDS % WORDS = 0
  <2>1. \A n \in Nat : n > 0 => n % n = 0
    BY SMT
  <2> QED BY <2>1, WordsPos
<1>3. \A x : x = 0 => x % WORDS = 0
  BY <1>1
<1>4. \A x : x = WORDS => x % WORDS = 0
  BY <1>2
<1>5. HP0_BASE_ADDR - HP0_BASE_ADDR + 0 = 0 /\ (HP0_BASE_ADDR + WORDS) - HP0_BASE_ADDR + 0 = WORDS
  BY WordsPos, DmaAssumption
<1>6. \A a : a - HP0_BASE_ADDR + 0 = 0 => bram_addr(a, 0) = 0
  BY <1>3, Zenon DEF bram_addr
<1>7. \A a : a - HP0_BASE_ADDR + 0 = WORDS => bram_addr(a, 0) = 0
  BY <1>4, Zenon DEF bram_addr
<1> QED BY <1>5, <1>6, <1>7, Zenon

\* Every step keeps the distance between master and memory.
LEMMA LagStep == IType /\ ILag /\ [Next]_vars => ILag'
<1> SUFFICES ASSUME IType, ILag, [Next]_vars PROVE ILag'
  OBVIOUS
<1> USE DEF m_axi_awvalid, m_axi_wvalid, m_axi_bready, dma_ready
<1>z. 0 \in 0 .. BURST_LEN /\ BURST_LEN \in Nat /\ BURST_BEATS \in Nat /\ BURST_BEATS = BURST_LEN + 1
      /\ HP0_BASE_ADDR \in Nat
  BY DmaAssumption DEF BURST_LEN
<1>1. CASE Idle
  BY <1>1 DEF Idle, ILag, BeatLag
<1>2. CASE Start
  <2>1. dout_r' = 0
    BY <1>2, BramAddrIdle DEF Start, Edge, ReadBram, ILag
  <2>2. Offset' = 0
    BY <1>2, <1>z DEF Start, Offset
  <2> QED BY <1>2, <2>1, <2>2 DEF Start, ILag, BeatLag
<1>3. CASE AddrWait
  <2>1. addr_r \in BurstAddrs /\ beat_r = 0
    BY <1>3 DEF AddrWait, SetAddr, IType, Running, ILag
  <2>2. dout_r' = Offset
    BY <1>3, <1>z, <2>1, BramAddrInBurst DEF AddrWait, SetAddr, Edge, ReadBram
  <2>3. Offset' = Offset
    BY <1>3 DEF AddrWait, SetAddr, Offset
  <2> QED BY <1>3, <2>1, <2>2, <2>3 DEF AddrWait, SetAddr, ILag, BeatLag
<1>4. CASE AddrAck
  <2>1. addr_r \in BurstAddrs /\ beat_r = 0
    BY <1>4 DEF AddrAck, SetAddr, IType, Running, ILag
  <2>2. dout_r' = Offset
    BY <1>4, <1>z, <2>1, BramAddrInBurst DEF AddrAck, SetAddr, Edge, ReadBram
  <2>3. Offset' = Offset
    BY <1>4 DEF AddrAck, SetAddr, Offset
  <2>4. data_r' \in {Offset, Offset - BURST_BEATS, (Offset + BURST_BEATS) % WORDS}
    BY <1>4 DEF AddrAck, SetAddr, ILag
  <2> QED BY <1>4, <2>2, <2>3, <2>4 DEF AddrAck, SetAddr, ILag, BeatLag
<1>5. CASE DataWait
  <2>1. addr_r \in BurstAddrs /\ beat_r \in 0 .. BURST_LEN
    BY <1>5 DEF DataWait, IType, Running
  <2>2. dout_r' = Offset + beat_r /\ Offset \in Nat
    BY <1>5, <2>1, BramAddrInBurst DEF DataWait, Edge, ReadBram
  <2>3. UNCHANGED <<state_r, addr_r, beat_r, data_r>>
    BY <1>5 DEF DataWait, master
  <2>4. Offset' = Offset
    BY <2>3 DEF Offset
  <2> QED BY <1>5, <1>z, <2>1, <2>2, <2>3, <2>4 DEF DataWait, ILag, BeatLag
<1>6. CASE DataAck
  <2>1. addr_r \in BurstAddrs /\ beat_r \in 0 .. BURST_LEN
    BY <1>6 DEF DataAck, IType, Running
  <2>2. dout_r' = Offset + beat_r /\ Offset \in Nat
    BY <1>6, <2>1, BramAddrInBurst DEF DataAck, Edge, ReadBram
  <2>3. data_r' = dout_r /\ beat_r' = beat_r + 1 /\ addr_r' = addr_r
        /\ state_r' = IF beat_r = BURST_LEN THEN "AWAIT_RESP" ELSE "SET_DATA"
    BY <1>6 DEF DataAck, m_axi_wlast
  <2>4. Offset' = Offset
    BY <2>3 DEF Offset
  <2>5. dout_r \in Nat /\ (IF beat_r = 0 THEN dout_r = Offset
                           ELSE dout_r - Offset \in {beat_r - 1, beat_r})
    BY <1>6, WordsPos DEF DataAck, ILag, IType, TypeOK, Slots
  <2>6. data_r' - Offset' \in {beat_r' - 1, beat_r' - 2} /\ data_r' >= Offset'
    BY <1>z, <2>1, <2>2, <2>3, <2>4, <2>5
  <2>7. dout_r' - Offset' \in {beat_r' - 1, beat_r'}
    BY <1>z, <2>1, <2>2, <2>3, <2>4
  <2>8. beat_r' /= 0 /\ (state_r' = "AWAIT_RESP" => beat_r' = BURST_BEATS)
    BY <1>z, <2>1, <2>3
  <2> QED BY <2>3, <2>6, <2>7, <2>8 DEF ILag, BeatLag
<1>7. CASE RespWait
  BY <1>7 DEF RespWait, AwaitResp, ILag, BeatLag
<1>8. CASE RespOkay
  <2>1. addr_r \in BurstAddrs /\ beat_r \in {0, BURST_BEATS}
    BY <1>8 DEF RespOkay, AwaitResp, IType, Running, ILag
  <2>2. dout_r' = (Offset + beat_r) % WORDS /\ Offset \in Nat
    BY <1>8, <1>z, <2>1, BramAddrInBurst DEF RespOkay, AwaitResp, Edge, ReadBram, bram_addr, Offset
  <2>3. addr_r' = addr_r + BURST_BEATS /\ beat_r' = 0
        /\ state_r' \in {"IDLE", "SET_ADDR"}
        /\ (state_r' = "IDLE" <=> addr_r + ADDR_INC > FINAL_WRITE_ADDR)
    BY <1>8 DEF RespOkay, AwaitResp, LastBurst, ADDR_INC
  <2>4. CASE state_r' = "IDLE"
    BY <1>8, <2>1, <2>3, <2>4, BurstNext DEF ILag, BeatLag, ADDR_INC
  <2>5. CASE state_r' = "SET_ADDR"
    <3>1. addr_r' \in BurstAddrs
      BY <2>1, <2>3, <2>5, BurstNext DEF ADDR_INC
    <3>2. Offset' = Offset + BURST_BEATS /\ Offset' \in 0 .. WORDS - 1 /\ Offset \in 0 .. WORDS - 1
      <4>1. addr_r \in Nat /\ addr_r >= HP0_BASE_ADDR
        BY <2>1, BurstInside
      <4>2. addr_r' + BURST_BEATS <= HP0_BASE_ADDR + WORDS
        BY <3>1, BurstInside
      <4> QED BY <4>1, <4>2, <2>3, <1>z, WordsPos, DmaAssumption DEF Offset
    <3>3. Offset' % WORDS = Offset' /\ Offset % WORDS = Offset
      BY <3>2, ModSmall, WordsPos
    <3>4. dout_r' \in {Offset', Offset' - BURST_BEATS}
      BY <2>1, <2>2, <3>2, <3>3, <1>z
    <3> QED BY <2>3, <2>5, <3>4 DEF ILag, BeatLag
  <2> QED BY <2>3, <2>4, <2>5
<1>9. CASE RespError
  <2>1. addr_r \in BurstAddrs /\ beat_r \in {0, BURST_BEATS}
    BY <1>9 DEF RespError, AwaitResp, IType, Running, ILag
  <2>2. CASE beat_r = 0
    <3>1. dout_r' = Offset
      BY <1>9, <1>z, <2>1, <2>2, BramAddrInBurst DEF RespError, AwaitResp, Edge, ReadBram
    <3> QED BY <1>9, <3>1 DEF RespError, AwaitResp, ILag, BeatLag, Offset
  <2>3. CASE beat_r = BURST_BEATS
    <3>1. dout_r' = (Offset + BURST_BEATS) % WORDS
      BY <1>9, <2>3 DEF RespError, AwaitResp, Edge, ReadBram, bram_addr, Offset
    <3> QED BY <1>9, <3>1 DEF RespError, AwaitResp, ILag, BeatLag, Offset
  <2> QED BY <2>1, <2>2, <2>3
<1>10. CASE ResetAssert
  <2>1. UNCHANGED <<state_r, addr_r, beat_r, data_r, dout_r>>
    BY <1>10 DEF ResetAssert, master
  <2> QED BY <2>1 DEF ILag, BeatLag, Offset
<1>11. CASE ResetEdge
  BY <1>11 DEF ResetEdge, ILag, BeatLag
<1>12. CASE UNCHANGED vars
  BY <1>12 DEF vars, ILag, BeatLag, Offset
<1> QED BY <1>1, <1>2, <1>3, <1>4, <1>5, <1>6, <1>7, <1>8, <1>9, <1>10, <1>11, <1>12 DEF Next

\* In every run, whatever the stalls, errors and resets, a beat after the first
\* of its burst carries a word one or two slots behind its own.
THEOREM LagBounded == Spec => []BeatLag
<1>1. Init => ILag
  BY DEF Init, ILag, BeatLag, m_axi_awvalid, m_axi_wvalid, m_axi_bready, dma_ready
<1>2. QED BY <1>1, Typing, LagStep, PTL DEF Spec, ILag

----------------------------------------------------------------------------
(* A transfer fills the frame, when resets come only between transfers.     *)

\* What makes BurstAgreement and ReadyMeansWritten inductive: the slots written
\* so far are exactly those below the position master and slave agree on.
Progress == IF m_axi_wvalid THEN beat_r ELSE IF m_axi_bready THEN BURST_BEATS ELSE 0
Filled == \A s \in Slots : frame[s] /= NoWord <=> s < Offset + Progress

IFill ==
  /\ BurstAgreement
  /\ rst > 0 => dma_ready
  /\ m_axi_wvalid => data_r \in Slots
  /\ Running => Filled

\* The buffer is full exactly when the burst answered with OKAY was the last.
LEMMA LastBurstFills ==
  ASSUME BrespConnected = TRUE, IType, IFill, RespOkay
  PROVE  /\ addr_r \in BurstAddrs /\ frame' = frame /\ Filled /\ Progress = BURST_BEATS
         /\ state_r' = "IDLE" => \A s \in Slots : frame[s] /= NoWord
<1>1. addr_r \in BurstAddrs /\ Filled /\ Progress = BURST_BEATS /\ frame' = frame
  BY DEF RespOkay, AwaitResp, SlaveOkay, IType, IFill, Running, Progress, m_axi_bready, m_axi_wvalid
<1>2. ASSUME state_r' = "IDLE" PROVE Offset + Progress = WORDS
  <2>1. addr_r + ADDR_INC > FINAL_WRITE_ADDR
    BY <1>2 DEF RespOkay, LastBurst
  <2>2. addr_r + BURST_BEATS = HP0_BASE_ADDR + WORDS /\ addr_r \in Nat
    BY <2>1, <1>1, BurstNext, BurstInside DEF ADDR_INC
  <2> QED BY <2>2, <1>1, WordsPos, DmaAssumption DEF Offset
<1> QED BY <1>1, <1>2, WordsPos DEF Filled, Slots

\* Every step keeps what has landed in the buffer, where resets wait for the end of a burst.
LEMMA FillStep ==
  ASSUME MidBurstReset = FALSE, BrespConnected = TRUE
  PROVE  IType /\ IFill /\ [Next]_vars => IFill'
<1> SUFFICES ASSUME IType, IFill, [Next]_vars PROVE IFill'
  OBVIOUS
<1> USE DEF m_axi_awvalid, m_axi_wvalid, m_axi_bready, dma_ready, Running
<1>z. BURST_LEN \in Nat /\ BURST_BEATS = BURST_LEN + 1 /\ BURST_LEN > 0
      /\ HP0_BASE_ADDR \in Nat
  BY DmaAssumption DEF BURST_LEN
<1>n. NoWord \notin Slots
  BY DEF NoWord, Slots
<1>1. CASE Idle
  BY <1>1 DEF Idle, Edge, slave, IFill, BurstAgreement
<1>2. CASE Start
  <2>1. BurstAgreement'
    BY <1>2 DEF Start, IFill, BurstAgreement
  <2>2. Offset' = 0 /\ Progress' = 0
    BY <1>2, <1>z DEF Start, Offset, Progress
  <2>3. Filled'
    BY <1>2, <2>2 DEF Start, Filled, Slots
  <2> QED BY <1>2, <2>1, <2>3 DEF Start, Edge, IFill
<1>3. CASE AddrWait
  <2>1. UNCHANGED <<Offset, Progress, frame>>
    BY <1>3 DEF AddrWait, SetAddr, Offset, Progress, slave
  <2> QED BY <1>3, <2>1 DEF AddrWait, SetAddr, Edge, slave, IFill, BurstAgreement, Filled
<1>4. CASE AddrAck
  <2>1. state_r = "SET_ADDR" /\ state_r' = "SET_DATA" /\ addr_r' = addr_r /\ beat_r' = 0
        /\ data_r' \in Slots /\ rst = 0 /\ rst' = rst
    BY <1>4 DEF AddrAck, SetAddr, Edge, IType, TypeOK
  <2>2. aw' = <<addr_r>> /\ got' = 0 /\ resp' = <<>> /\ frame' = frame
    BY <1>4 DEF AddrAck, SetAddr, SlaveTakesAddr, IFill, BurstAgreement
  <2>3. BurstAgreement'
    BY <2>1, <2>2, <1>z DEF BurstAgreement, m_axi_wlast
  <2>4. UNCHANGED <<Offset, Progress, frame>>
    BY <2>1, <2>2 DEF Offset, Progress
  <2> QED BY <2>1, <2>3, <2>4 DEF IFill, Filled
<1>5. CASE DataWait
  <2>1. UNCHANGED <<state_r, addr_r, beat_r, data_r, aw, got, resp, frame, rst>>
    BY <1>5 DEF DataWait, master, slave, Edge
  <2> QED BY <2>1 DEF IFill, BurstAgreement, Filled, Offset, Progress, m_axi_wlast
<1>6. CASE DataAck
  <2>1. /\ addr_r' = addr_r /\ beat_r' = beat_r + 1 /\ data_r' \in Slots
        /\ state_r' = IF beat_r = BURST_LEN THEN "AWAIT_RESP" ELSE "SET_DATA"
        /\ rst = 0 /\ rst' = rst /\ beat_r \in 0 .. BURST_LEN /\ addr_r \in BurstAddrs
        /\ data_r \in Slots /\ state_r = "SET_DATA"
    BY <1>6 DEF DataAck, m_axi_wlast, Edge, IType, TypeOK, IFill
  <2>2. aw = <<addr_r>> /\ got = beat_r /\ resp = <<>>
    BY <1>6 DEF DataAck, IFill, BurstAgreement
  <2>3. Head(aw) = addr_r /\ Tail(aw) = <<>> /\ Append(resp, Head(aw)) = <<addr_r>>
    BY <2>2
  <2>4. frame' = [frame EXCEPT ![Offset + beat_r] = data_r]
    BY <1>6, <2>2, <2>3 DEF DataAck, SlaveTakesBeat, Offset
  <2>5. IF beat_r = BURST_LEN
        THEN got' = 0 /\ aw' = <<>> /\ resp' = <<addr_r>>
        ELSE got' = beat_r + 1 /\ aw' = <<addr_r>> /\ resp' = <<>>
    BY <1>6, <2>2, <2>3 DEF DataAck, SlaveTakesBeat
  <2>6. BurstAgreement'
    BY <1>z, <2>1, <2>5 DEF BurstAgreement, m_axi_wlast
  <2>7. Offset' = Offset /\ Progress = beat_r /\ Progress' = beat_r + 1 /\ Offset \in Nat
    BY <1>z, <2>1, BurstInside DEF Offset, Progress
  <2>8. Filled'
    <3>1. frame \in [Slots -> Slots \cup {NoWord}] /\ Filled
      BY <2>1 DEF IType, TypeOK, IFill
    <3>2. ASSUME NEW s \in Slots
          PROVE  frame'[s] /= NoWord <=> s < Offset + beat_r + 1
      <4>1. frame'[s] = IF s = Offset + beat_r THEN data_r ELSE frame[s]
        BY <2>4, <3>1
      <4>2. frame[s] /= NoWord <=> s < Offset + beat_r
        BY <3>1, <2>7 DEF Filled
      <4>3. s \in Int /\ Offset \in Int /\ beat_r \in Int
        BY <2>1, <2>7, <1>z DEF Slots
      <4>4. s < Offset + beat_r + 1 <=> s < Offset + beat_r \/ s = Offset + beat_r
        BY <4>3
      <4>5. data_r /= NoWord
        BY <2>1, <1>n
      <4> QED BY <4>1, <4>2, <4>3, <4>4, <4>5
    <3> QED BY <3>2, <2>7, <2>1, <1>z DEF Filled
  <2> QED BY <2>1, <2>6, <2>8 DEF IFill
<1>7. CASE RespWait
  <2>1. UNCHANGED <<state_r, addr_r, aw, got, resp, frame, rst>> /\ state_r = "AWAIT_RESP"
    BY <1>7 DEF RespWait, AwaitResp, slave, Edge
  <2> QED BY <2>1 DEF IFill, BurstAgreement, Filled, Offset, Progress
<1>8. CASE RespOkay
  <2>1. /\ state_r = "AWAIT_RESP" /\ state_r' \in {"IDLE", "SET_ADDR"} /\ rst = 0 /\ rst' = rst
        /\ addr_r' = addr_r + BURST_BEATS
    BY <1>8 DEF RespOkay, AwaitResp, Edge, ADDR_INC
  <2>2. aw' = <<>> /\ got' = 0 /\ resp' = <<>>
    <3>1. resp = <<addr_r>> /\ aw = <<>> /\ got = 0
      BY <2>1 DEF IFill, BurstAgreement
    <3>2. Tail(resp) = <<>>
      BY <3>1
    <3> QED BY <1>8, <3>1, <3>2 DEF RespOkay, SlaveOkay
  <2>3. BurstAgreement'
    BY <2>1, <2>2 DEF BurstAgreement
  <2>4. addr_r \in Nat /\ Filled /\ Progress = BURST_BEATS /\ frame' = frame
    BY <1>8, LastBurstFills, BurstInside
  <2>5. Offset' + Progress' = Offset + Progress
    BY <1>z, <2>1, <2>4 DEF Offset, Progress
  <2> QED BY <2>1, <2>3, <2>4, <2>5 DEF IFill, Filled
<1>9. CASE RespError
  <2>1. /\ state_r = "AWAIT_RESP" /\ state_r' = "SET_ADDR" /\ rst = 0 /\ rst' = rst
        /\ addr_r' = addr_r
    BY <1>9 DEF RespError, AwaitResp, Edge
  <2>2. resp = <<addr_r>> /\ aw = <<>> /\ got = 0
    BY <2>1 DEF IFill, BurstAgreement
  <2>3. Tail(resp) = <<>> /\ Head(resp) = addr_r
    BY <2>2
  <2>4. aw' = <<>> /\ got' = 0 /\ resp' = <<>>
    BY <1>9, <2>2, <2>3 DEF RespError, SlaveError
  <2>5. BurstAgreement'
    BY <2>1, <2>4 DEF BurstAgreement
  <2>6. addr_r \in Nat /\ addr_r >= HP0_BASE_ADDR
    BY <2>1, BurstInside DEF IType
  <2>7. Filled'
    <3>1. Offset' = Offset /\ Progress' = 0 /\ Progress = BURST_BEATS
      BY <2>1 DEF Offset, Progress
    <3>2. ASSUME NEW s \in Slots
          PROVE  frame'[s] /= NoWord <=> s < Offset + 0
      <4>1. frame'[s] = IF s + HP0_BASE_ADDR \in addr_r .. addr_r + BURST_LEN
                        THEN NoWord ELSE frame[s]
        BY <1>9, <2>3 DEF RespError, SlaveError
      <4>2. frame[s] /= NoWord <=> s < Offset + BURST_BEATS
        BY <2>1, <3>1 DEF IFill, Filled
      <4>3. s \in Nat
        BY WordsPos DEF Slots
      <4> QED BY <4>1, <4>2, <4>3, <2>6, <1>z DEF Offset
    <3> QED BY <3>1, <3>2, <2>1 DEF Filled
  <2> QED BY <2>1, <2>5, <2>7 DEF IFill
<1>10. CASE ResetAssert
  <2>1. UNCHANGED <<state_r, addr_r, beat_r, data_r, aw, got, resp, frame>> /\ state_r = "IDLE"
    BY <1>10 DEF ResetAssert, master, slave
  <2> QED BY <2>1 DEF IFill, BurstAgreement
<1>11. CASE ResetEdge
  <2>1. state_r = "IDLE" /\ state_r' = "IDLE" /\ UNCHANGED <<aw, got, resp>>
    BY <1>11 DEF ResetEdge, IFill, slave
  <2> QED BY <2>1 DEF IFill, BurstAgreement
<1>12. CASE UNCHANGED vars
  BY <1>12 DEF vars, IFill, BurstAgreement, Filled, Offset, Progress, m_axi_wlast
<1> QED BY <1>1, <1>2, <1>3, <1>4, <1>5, <1>6, <1>7, <1>8, <1>9, <1>10, <1>11, <1>12 DEF Next

\* Nothing has landed at first.
LEMMA FillInit == Init => IFill
  BY DEF Init, IFill, BurstAgreement, m_axi_awvalid, m_axi_wvalid, m_axi_bready, dma_ready, Running

\* Master and slave never lose count of each other.
THEOREM Agreement == ASSUME MidBurstReset = FALSE, BrespConnected = TRUE PROVE Spec => []BurstAgreement
<1>1. IType /\ IFill /\ [Next]_vars => IFill'
  BY FillStep
<1> QED BY <1>1, FillInit, Typing, PTL DEF Spec, IFill

\* A transfer reports ready only with a word of its own at every slot.
THEOREM Complete == ASSUME MidBurstReset = FALSE, BrespConnected = TRUE PROVE Spec => ReadyMeansWritten
<1>1. IType /\ IFill /\ [Next]_vars => IFill'
  BY FillStep
<1>2. ASSUME IType, IFill, [Next]_vars, ~dma_ready, dma_ready', rst = 0
      PROVE  \A s \in Slots : frame'[s] /= NoWord
  <2>1. RespOkay
    BY <1>2 DEF Next, vars, Idle, Start, AddrWait, AddrAck, SetAddr, DataWait, DataAck, master,
         RespWait, RespError, AwaitResp, ResetAssert, ResetEdge, dma_ready,
         m_axi_awvalid, m_axi_wvalid, m_axi_bready
  <2> QED BY <1>2, <2>1, LastBurstFills DEF dma_ready
<1>3. IType /\ IFill /\ [Next]_vars =>
        [~dma_ready /\ dma_ready' /\ rst = 0 => \A s \in Slots : frame'[s] /= NoWord]_vars
  BY <1>2
<1> QED BY <1>1, <1>3, FillInit, Typing, PTL DEF Spec, ReadyMeansWritten

\* An offer that was not taken is repeated unchanged, under resets at any moment.
THEOREM Held == Spec => HeldUntilAccepted
<1>1. ASSUME IType, [Next]_vars, rst = 0, m_axi_awvalid, aw' = aw
      PROVE  m_axi_awvalid' /\ addr_r' = addr_r
  <2>1. ~AddrAck
    <3> SUFFICES ASSUME AddrAck PROVE FALSE
      OBVIOUS
    <3>1. aw' = Append(aw, addr_r) /\ aw \in Seq(BurstAddrs) /\ addr_r \in BurstAddrs
      BY <1>1 DEF AddrAck, SetAddr, SlaveTakesAddr, IType, TypeOK, Running, m_axi_awvalid
    <3>2. Len(aw') = Len(aw) + 1 /\ Len(aw) \in Nat
      BY <3>1, AppendProperties, LenProperties
    <3> QED BY <1>1, <3>2
  <2> QED BY <1>1, <2>1 DEF Next, vars, Idle, Start, AddrWait, SetAddr, DataWait, DataAck,
         RespWait, RespOkay, RespError, AwaitResp, ResetAssert, ResetEdge, master,
         m_axi_awvalid, m_axi_wvalid, m_axi_bready
<1>2. ASSUME IType, [Next]_vars, rst = 0, m_axi_wvalid, slave' = slave
      PROVE  m_axi_wvalid' /\ data_r' = data_r /\ m_axi_wlast' = m_axi_wlast
  <2>1. ~DataAck
    BY <1>2, DmaAssumption DEF DataAck, SlaveTakesBeat, slave, BURST_LEN, IType, TypeOK
  <2>2. UNCHANGED <<state_r, beat_r, data_r>>
    BY <1>2, <2>1 DEF Next, vars, Idle, Start, AddrWait, AddrAck, SetAddr, DataWait,
         RespWait, RespOkay, RespError, AwaitResp, ResetAssert, ResetEdge, master,
         m_axi_awvalid, m_axi_wvalid, m_axi_bready
  <2> QED BY <1>2, <2>2 DEF m_axi_wvalid, m_axi_wlast
<1>3. IType /\ [Next]_vars =>
        [rst = 0 =>
           /\ m_axi_awvalid /\ aw' = aw => m_axi_awvalid' /\ addr_r' = addr_r
           /\ m_axi_wvalid /\ slave' = slave =>
                m_axi_wvalid' /\ data_r' = data_r /\ m_axi_wlast' = m_axi_wlast]_vars
  BY <1>1, <1>2
<1> QED BY <1>3, Typing, PTL DEF Spec, HeldUntilAccepted

----------------------------------------------------------------------------
(* The engine implements DmaTransfer.                                       *)

\* The bursts that landed, from the slots filled so far: the k bursts below the
\* current one, and the current one once all of its beats are taken.
LEMMA LandedBelow ==
  ASSUME NEW memory, NEW k \in 0 .. BURSTS - 1, NEW p \in 0 .. BURST_BEATS,
         \A s \in Slots : memory[s] /= NoWord <=> s < k * BURST_BEATS + p
  PROVE  LandedIn(memory) = IF p = BURST_BEATS THEN Transfer!Leading(k + 1) ELSE Transfer!Leading(k)
<1>z. BURST_BEATS \in Nat /\ BURST_BEATS >= 2 /\ BURSTS \in Nat
  BY DmaAssumption
<1>m. \A m, n \in Nat : m + 1 <= n => m * BURST_BEATS + BURST_BEATS <= n * BURST_BEATS
  <2>1. \A m, n, b \in Nat : m + 1 <= n => m * b + b <= n * b
    BY SMT
  <2> QED BY <2>1, <1>z
<1>n. \A m \in Nat : m * BURST_BEATS \in Nat
  BY <1>z, SMT
<1>1. ASSUME NEW b \in 0 .. BURSTS - 1
      PROVE  b \in LandedIn(memory) <=> b < k \/ (b = k /\ p = BURST_BEATS)
  <2>0. b \in Nat /\ k \in Nat /\ b * BURST_BEATS \in Nat /\ k * BURST_BEATS \in Nat
        /\ b * BURST_BEATS + BURST_BEATS <= WORDS
    BY <1>n, <1>m, <1>z DEF WORDS
  <2>1. b * BURST_BEATS + BURST_LEN \in SlotsOf(b) /\ SlotsOf(b) \subseteq Slots
    BY <2>0, <1>z, WordsPos DEF SlotsOf, Slots, BURST_LEN
  <2>2. \A s \in SlotsOf(b) : memory[s] /= NoWord <=> s < k * BURST_BEATS + p
    BY <2>1
  <2>3. b \in LandedIn(memory) <=> b * BURST_BEATS + BURST_LEN < k * BURST_BEATS + p
    <3>1. \A s \in SlotsOf(b) : s \in Nat /\ s <= b * BURST_BEATS + BURST_LEN
      BY <2>0, <1>z DEF SlotsOf, BURST_LEN
    <3>2. b \in LandedIn(memory) <=> \A s \in SlotsOf(b) : memory[s] /= NoWord
      BY DEF LandedIn
    <3>3. ASSUME b * BURST_BEATS + BURST_LEN < k * BURST_BEATS + p, NEW s \in SlotsOf(b)
          PROVE  s < k * BURST_BEATS + p
      BY <3>1, <3>3, <2>0, <1>z DEF BURST_LEN
    <3> QED BY <2>1, <2>2, <3>2, <3>3
  <2>4. CASE b < k
    <3>1. b * BURST_BEATS + BURST_BEATS <= k * BURST_BEATS
      BY <1>m, <2>0, <2>4
    <3> QED BY <2>0, <2>3, <2>4, <3>1, <1>z DEF BURST_LEN
  <2>5. CASE b = k
    BY <2>0, <2>3, <2>5, <1>z DEF BURST_LEN
  <2>6. CASE b > k
    <3>1. k * BURST_BEATS + BURST_BEATS <= b * BURST_BEATS
      BY <1>m, <2>0, <2>6
    <3> QED BY <2>0, <2>3, <2>6, <3>1, <1>z DEF BURST_LEN
  <2> QED BY <2>0, <2>4, <2>5, <2>6
<1>2. LandedIn(memory) \subseteq 0 .. BURSTS - 1
  BY DEF LandedIn
<1>3. ASSUME NEW n \in 0 .. BURSTS PROVE Transfer!Leading(n) = {b \in 0 .. BURSTS - 1 : b < n}
  BY <1>3, <1>z DEF Transfer!Leading
<1>4. k \in 0 .. BURSTS /\ k + 1 \in 0 .. BURSTS
  BY <1>z
<1>5. CASE p = BURST_BEATS
  <2>1. \A b \in 0 .. BURSTS - 1 : b \in LandedIn(memory) <=> b < k + 1
    BY <1>1, <1>5, <1>z
  <2>2. Transfer!Leading(k + 1) = {b \in 0 .. BURSTS - 1 : b < k + 1}
    BY <1>3, <1>4
  <2> QED BY <1>2, <1>5, <2>1, <2>2
<1>6. CASE p /= BURST_BEATS
  <2>1. \A b \in 0 .. BURSTS - 1 : b \in LandedIn(memory) <=> b < k
    BY <1>1, <1>6
  <2>2. Transfer!Leading(k) = {b \in 0 .. BURSTS - 1 : b < k}
    BY <1>3, <1>4
  <2> QED BY <1>2, <1>6, <2>1, <2>2
<1> QED BY <1>5, <1>6

\* The number of the current burst.
LEMMA BurstNumber ==
  ASSUME addr_r \in BurstAddrs
  PROVE  \E k \in 0 .. BURSTS - 1 : Offset = k * BURST_BEATS
<1>1. PICK k \in 0 .. BURSTS - 1 : addr_r = HP0_BASE_ADDR + k * BURST_BEATS
  BY DEF BurstAddrs
<1>2. k * BURST_BEATS \in Nat
  BY DmaAssumption, SMT
<1> QED BY <1>1, <1>2, DmaAssumption DEF Offset

\* The first state is one of the abstract transfer.
LEMMA TransferInit == Init => Transfer!Init
<1> SUFFICES ASSUME Init PROVE landed = {}
  BY DEF Init, Transfer!Init, dma_ready
<1>1. ASSUME NEW b \in 0 .. BURSTS - 1 PROVE b \notin landed
  <2>1. b * BURST_BEATS \in Nat /\ b * BURST_BEATS + BURST_BEATS <= BURSTS * BURST_BEATS
    <3>1. \A m, n, c \in Nat : m + 1 <= n => m * c \in Nat /\ m * c + c <= n * c
      BY SMT
    <3> QED BY <3>1, DmaAssumption
  <2>2. b * BURST_BEATS \in SlotsOf(b) /\ b * BURST_BEATS \in Slots
    BY <2>1, WordsPos, DmaAssumption DEF SlotsOf, BURST_LEN, Slots, WORDS
  <2> QED BY <2>2 DEF landed, LandedIn, Init
<1> QED BY <1>1 DEF landed, LandedIn

\* Every step is a step of the abstract transfer, or none.
LEMMA TransferStep ==
  ASSUME MidBurstReset = FALSE, BrespConnected = TRUE
  PROVE  IType /\ IType' /\ IFill /\ IFill' /\ [Next]_vars
           => [Transfer!Next]_<<~dma_ready, landed>>
<1> SUFFICES ASSUME IType, IType', IFill, IFill', [Next]_vars
             PROVE  Transfer!Next \/ UNCHANGED <<dma_ready, landed>>
  OBVIOUS
<1> USE DEF m_axi_awvalid, m_axi_wvalid, m_axi_bready, dma_ready, Running
<1>z. BURST_LEN \in Nat /\ BURST_BEATS \in Nat /\ BURST_BEATS = BURST_LEN + 1 /\ BURSTS \in Nat \ {0}
  BY DmaAssumption DEF BURST_LEN
<1>f. frame' = frame => landed' = landed
  BY DEF landed, LandedIn
<1>1. CASE Idle \/ AddrWait \/ AddrAck \/ DataWait \/ RespWait \/ ResetAssert
  BY <1>1, <1>f DEF Idle, AddrWait, AddrAck, SetAddr, SlaveTakesAddr, DataWait, RespWait, AwaitResp,
     ResetAssert, master, slave
<1>2. CASE Start
  <2>1. state_r = "IDLE" /\ state_r' = "SET_ADDR" /\ Filled' /\ addr_r' \in BurstAddrs
    BY <1>2 DEF Start, IType, IFill
  <2>2. Offset' = 0 /\ Progress' = 0 /\ 0 * BURST_BEATS = 0
    BY <1>2, <1>z, DmaAssumption DEF Start, Offset, Progress
  <2>3. \A s \in Slots : frame'[s] /= NoWord <=> s < 0 * BURST_BEATS + 0
    BY <2>1, <2>2 DEF Filled
  <2>4. landed' = Transfer!Leading(0)
    <3>1. 0 \in 0 .. BURST_BEATS /\ 0 /= BURST_BEATS /\ 0 \in 0 .. BURSTS - 1
      BY <1>z, DmaAssumption
    <3>2. LandedIn(frame') = Transfer!Leading(0)
      BY <2>3, <3>1, LandedBelow
    <3> QED BY <3>2 DEF landed, LandedIn
  <2>5. landed' = {}
    BY <2>4 DEF Transfer!Leading
  <2> QED BY <2>1, <2>5 DEF Transfer!Next, Transfer!Begin
<1>3. CASE DataAck
  <2>1. /\ state_r = "SET_DATA" /\ addr_r \in BurstAddrs /\ Filled /\ beat_r \in 0 .. BURST_LEN
        /\ addr_r' = addr_r /\ beat_r' = beat_r + 1 /\ Filled'
        /\ state_r' = IF beat_r = BURST_LEN THEN "AWAIT_RESP" ELSE "SET_DATA"
    BY <1>3 DEF DataAck, m_axi_wlast, IType, IFill
  <2>2. PICK k \in 0 .. BURSTS - 1 : Offset = k * BURST_BEATS
    BY <2>1, BurstNumber
  <2>3. Offset' = k * BURST_BEATS /\ Progress = beat_r /\ Progress' = beat_r + 1
    BY <2>1, <2>2, <1>z DEF Offset, Progress
  <2>4. landed = Transfer!Leading(k)
    <3>1. \A s \in Slots : frame[s] /= NoWord <=> s < k * BURST_BEATS + beat_r
      BY <2>1, <2>2, <2>3 DEF Filled
    <3>2. beat_r \in 0 .. BURST_BEATS /\ beat_r /= BURST_BEATS
      BY <2>1, <1>z
    <3>3. LandedIn(frame) = Transfer!Leading(k)
      BY <3>1, <3>2, LandedBelow
    <3> QED BY <3>3 DEF landed
  <2>5. landed' = IF beat_r = BURST_LEN THEN Transfer!Leading(k + 1) ELSE Transfer!Leading(k)
    <3>1. \A s \in Slots : frame'[s] /= NoWord <=> s < k * BURST_BEATS + (beat_r + 1)
      BY <2>1, <2>3 DEF Filled
    <3>2. beat_r + 1 \in 0 .. BURST_BEATS /\ (beat_r + 1 = BURST_BEATS <=> beat_r = BURST_LEN)
      BY <2>1, <1>z
    <3>3. LandedIn(frame') = IF beat_r = BURST_LEN THEN Transfer!Leading(k + 1) ELSE Transfer!Leading(k)
      BY <3>1, <3>2, LandedBelow
    <3> QED BY <3>3 DEF landed, LandedIn
  <2>6. CASE beat_r = BURST_LEN
    <3>1. Transfer!Land(k)
      BY <2>1, <2>4, <2>5, <2>6 DEF Transfer!Land
    <3>2. k \in Transfer!Leading(BURSTS)
      BY <1>z DEF Transfer!Leading
    <3> QED BY <3>1, <3>2 DEF Transfer!Next
  <2>7. CASE beat_r /= BURST_LEN
    BY <2>1, <2>4, <2>5, <2>7
  <2> QED BY <2>6, <2>7
<1>4. CASE RespOkay
  <2>1. state_r = "AWAIT_RESP" /\ frame' = frame /\ addr_r \in BurstAddrs
        /\ Filled /\ Progress = BURST_BEATS /\ state_r' \in {"IDLE", "SET_ADDR"}
    BY <1>4, LastBurstFills DEF RespOkay, AwaitResp
  <2>2. CASE state_r' = "SET_ADDR"
    BY <2>1, <2>2, <1>f
  <2>3. CASE state_r' = "IDLE"
    <3>1. landed = 0 .. BURSTS - 1
      <4>1. \A b \in 0 .. BURSTS - 1 : SlotsOf(b) \subseteq Slots
        <5>1. \A m, n, c \in Nat : m + 1 <= n => m * c \in Nat /\ m * c + c <= n * c
          BY SMT
        <5>2. \A b \in 0 .. BURSTS - 1 : b * BURST_BEATS \in Nat
                /\ b * BURST_BEATS + BURST_BEATS <= BURSTS * BURST_BEATS
          BY <5>1, <1>z
        <5> QED BY <5>2, <1>z, WordsPos DEF SlotsOf, Slots, WORDS
      <4> QED BY <1>4, <2>3, <4>1, LastBurstFills DEF landed, LandedIn
    <3> QED BY <2>1, <2>3, <3>1, <1>f DEF Transfer!Next, Transfer!Finish, Transfer!Leading
  <2> QED BY <2>1, <2>2, <2>3
<1>5. CASE RespError
  <2>1. /\ state_r = "AWAIT_RESP" /\ state_r' = "SET_ADDR" /\ addr_r' = addr_r
        /\ addr_r \in BurstAddrs /\ Filled /\ Filled'
    BY <1>5 DEF RespError, AwaitResp, IType, IFill
  <2>2. PICK k \in 0 .. BURSTS - 1 : Offset = k * BURST_BEATS
    BY <2>1, BurstNumber
  <2>3. Offset' = k * BURST_BEATS /\ Progress = BURST_BEATS /\ Progress' = 0
    BY <2>1, <2>2 DEF Offset, Progress
  <2>4. landed = Transfer!Leading(k + 1)
    <3>1. \A s \in Slots : frame[s] /= NoWord <=> s < k * BURST_BEATS + BURST_BEATS
      BY <2>1, <2>2, <2>3 DEF Filled
    <3>2. BURST_BEATS \in 0 .. BURST_BEATS
      BY <1>z
    <3>3. LandedIn(frame) = Transfer!Leading(k + 1)
      BY <3>1, <3>2, LandedBelow
    <3> QED BY <3>3 DEF landed
  <2>5. landed' = Transfer!Leading(k)
    <3>1. \A s \in Slots : frame'[s] /= NoWord <=> s < k * BURST_BEATS + 0
      BY <2>1, <2>3 DEF Filled
    <3>2. 0 \in 0 .. BURST_BEATS /\ 0 /= BURST_BEATS
      BY <1>z, DmaAssumption
    <3>3. LandedIn(frame') = Transfer!Leading(k)
      BY <3>1, <3>2, LandedBelow
    <3> QED BY <3>3 DEF landed, LandedIn
  <2>6. Transfer!TakeBack(k)
    BY <2>1, <2>4, <2>5 DEF Transfer!TakeBack
  <2>7. k \in Transfer!Leading(BURSTS)
    BY <1>z DEF Transfer!Leading
  <2> QED BY <2>6, <2>7 DEF Transfer!Next
<1>6. CASE ResetEdge
  BY <1>6, <1>f DEF ResetEdge, slave, IFill
<1>7. CASE UNCHANGED vars
  BY <1>7, <1>f DEF vars
<1> QED BY <1>1, <1>2, <1>3, <1>4, <1>5, <1>6, <1>7 DEF Next

\* The engine implements the transfer the orchestrator relies on.
THEOREM Refines == ASSUME MidBurstReset = FALSE, BrespConnected = TRUE PROVE Spec => ImplementsTransfer
<1>1. IType /\ IFill /\ [Next]_vars => IFill'
  BY FillStep
<1>2. IType /\ IType' /\ IFill /\ IFill' /\ [Next]_vars
        => [Transfer!Next]_<<~dma_ready, landed>>
  BY TransferStep
<1> QED BY <1>1, <1>2, FillInit, TransferInit, Typing, PTL
        DEF Spec, ImplementsTransfer, Transfer!Spec

====
