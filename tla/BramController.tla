---- MODULE BramController ----
(***************************************************************************)
(* The capture controller of core/hw/rtl/bram_controller.sv: on a rising   *)
(* edge of enable_i it writes DEPTH samples of din into the BRAM, one      *)
(* address per decimation_code_i edges of pdh_clk.  One step is one edge   *)
(* of pdh_clk, or the asynchronous assertion of rst_i.                     *)
(*                                                                         *)
(* A sample is named by when it was taken: mem[a] is the number of edges   *)
(* from the first edge of the capture to the edge that wrote address a.    *)
(***************************************************************************)
EXTENDS Integers

CONSTANTS
  DEPTH,        \* words of the BRAM: 2^14 in the code
  DEC_MOD,      \* 2 to the width of the decimation counter: 2^22 in the code
  Decimations   \* decimation codes that may be requested

ASSUME BramAssumption ==
  /\ DEPTH \in Nat /\ DEPTH >= 2
  /\ DEC_MOD \in Nat /\ DEC_MOD >= 2
  /\ Decimations \subseteq 0 .. DEC_MOD - 1

Addresses == 0 .. DEPTH - 1
Stale == -1                    \* not written by the present capture

VARIABLES
  state_r, addr_r, count_r, decimation_code_r,
  prev_D,                      \* the edge detector's copy of enable_i
  rst,                         \* edges of pdh_clk that rst_sync_r still covers
  age,                         \* edges since the first of the capture
  mem

capture_vars == <<state_r, addr_r, count_r, decimation_code_r, prev_D, rst, age, mem>>

bram_ready == state_r = "IDLE"
bram_we == state_r = "CAPTURE"

\* decimation_code_r - 1 is computed in 32 bits, so that code 0 is never reached
\* and count_r wraps at its width.
Period == IF decimation_code_r = 0 THEN DEC_MOD ELSE decimation_code_r

NextCount == IF count_r >= Period - 1 THEN 0 ELSE (count_r + 1) % DEC_MOD

Detect(enable_i) == rst = 0 /\ prev_D' = enable_i /\ UNCHANGED rst

Idle ==
  /\ bram_ready
  /\ \E enable_i \in BOOLEAN : (enable_i => prev_D) /\ Detect(enable_i)
  /\ addr_r' = 0 /\ count_r' = 0
  /\ UNCHANGED <<state_r, decimation_code_r, age, mem>>

\* The code is latched with the rising edge: later codes wait for the next one.
Start ==
  /\ bram_ready /\ ~prev_D /\ Detect(TRUE)
  /\ state_r' = "CAPTURE"
  /\ decimation_code_r' \in Decimations
  /\ addr_r' = 0 /\ count_r' = 0
  /\ age' = 0 /\ mem' = [a \in Addresses |-> Stale]

\* Mutant: the address moves one edge late.
CaptureLate ==
  /\ bram_we
  /\ \E enable_i \in BOOLEAN : Detect(enable_i)
  /\ mem' = [mem EXCEPT ![addr_r] = age]
  /\ age' = age + 1
  /\ state_r' = IF addr_r = DEPTH - 1 THEN "IDLE" ELSE "CAPTURE"
  /\ addr_r' = IF count_r = Period - 1 THEN (addr_r + 1) % DEPTH ELSE addr_r
  /\ count_r' = NextCount
  /\ UNCHANGED decimation_code_r

\* Mutant: the address register has room for one address more.
CaptureUnwrapped ==
  /\ bram_we
  /\ \E enable_i \in BOOLEAN : Detect(enable_i)
  /\ mem' = [mem EXCEPT ![addr_r] = age]
  /\ age' = age + 1
  /\ state_r' = IF addr_r = DEPTH - 1 THEN "IDLE" ELSE "CAPTURE"
  /\ addr_r' = IF count_r = 0 THEN addr_r + 1 ELSE addr_r
  /\ count_r' = NextCount
  /\ UNCHANGED decimation_code_r

\* Every edge writes the present address; the address moves on when the counter
\* is at zero, and the capture is over one edge after it reaches the last one.
Capture ==
  /\ bram_we
  /\ \E enable_i \in BOOLEAN : Detect(enable_i)
  /\ mem' = [mem EXCEPT ![addr_r] = age]
  /\ age' = age + 1
  /\ state_r' = IF addr_r = DEPTH - 1 THEN "IDLE" ELSE "CAPTURE"
  /\ addr_r' = IF count_r = 0 THEN (addr_r + 1) % DEPTH ELSE addr_r
  /\ count_r' = NextCount
  /\ UNCHANGED decimation_code_r

\* rst_i sets rst_pipe1_r and rst_sync_r at once and clears the edge detector;
\* the registers follow at the edges that find rst_sync_r set.
ResetAssert ==
  /\ rst' = 2 /\ prev_D' = FALSE
  /\ UNCHANGED <<state_r, addr_r, count_r, decimation_code_r, age, mem>>

\* bram_we_w is still high at the first edge of a reset that cuts a capture.
ResetEdge ==
  /\ rst > 0 /\ rst' = rst - 1
  /\ prev_D' \in BOOLEAN
  /\ state_r' = "IDLE" /\ addr_r' = 0 /\ count_r' = 0 /\ decimation_code_r' = 1
  /\ mem' = IF bram_we THEN [mem EXCEPT ![addr_r] = age] ELSE mem
  /\ UNCHANGED age

CaptureInit ==
  /\ state_r = "IDLE" /\ addr_r = 0 /\ count_r = 0 /\ decimation_code_r = 1
  /\ prev_D = FALSE /\ rst = 0
  /\ age = 0 /\ mem = [a \in Addresses |-> Stale]

CaptureNext == Idle \/ Start \/ Capture \/ ResetAssert \/ ResetEdge

CaptureSpec == CaptureInit /\ [][CaptureNext]_capture_vars

----------------------------------------------------------------------------
(* Properties. *)

\* The address and the counter stay within their widths, whatever the code.
TypeOK ==
  /\ state_r \in {"IDLE", "CAPTURE"}
  /\ addr_r \in Addresses
  /\ count_r \in 0 .. DEC_MOD - 1
  /\ decimation_code_r \in Decimations \cup {1}
  /\ prev_D \in BOOLEAN
  /\ rst \in 0 .. 2
  /\ age \in Nat
  /\ mem \in [Addresses -> Nat \cup {Stale}]

CaptureEnds == bram_we /\ bram_ready' /\ rst = 0

\* When ready comes back after a capture, address k holds the sample taken at
\* edge k * Period of this capture, whatever codes were requested meanwhile.
\* The last address is the exception: it is left after one edge.
SampleTimes ==
  [][CaptureEnds =>
       /\ \A k \in 0 .. DEPTH - 2 : mem'[k] = k * Period
       /\ mem'[DEPTH - 1] = (DEPTH - 2) * Period + 1]_capture_vars

====
