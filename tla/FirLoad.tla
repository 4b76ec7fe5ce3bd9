---- MODULE FirLoad ----
(***************************************************************************)
(* Loading the FIR filter: cmd_set_fir of the server (control.c) writes    *)
(* the coefficients one by one, through the command port and the registers *)
(* of pdh_core.sv, into the memory of fir.sv, from which every fir_tap     *)
(* copies its own while tap_chain_write_en is high.                        *)
(*                                                                         *)
(* The command port is what CommandPort shows of it: a queue, and a        *)
(* callback that is read only when the word has been latched and answered. *)
(* What is filtered is left out: the model is about which coefficients the *)
(* taps hold, and a coefficient is a number with 0 the one after reset.    *)
(***************************************************************************)
EXTENDS Integers, Sequences

CONSTANTS
  NTAPS,        \* taps of the filter: 32 in the code
  Coeffs,       \* coefficients that may be asked for
  MAX_COEFFS    \* coefficients a request may carry: FLOAT_ARGS, 64, in the code

ASSUME FirAssumption ==
  /\ NTAPS \in Nat \ {0}
  /\ MAX_COEFFS \in Nat /\ MAX_COEFFS >= NTAPS
  /\ Coeffs \subseteq Int /\ 0 \in Coeffs

Taps == 0 .. NTAPS - 1
Zeros == [t \in Taps |-> 0]
Lists == UNION {[1 .. n -> Coeffs] : n \in 1 .. MAX_COEFFS}

VARIABLES
  todo, asked, ok,      \* server: words left to execute, coefficients asked for, result
  waiting,              \* server: a word is strobed and its callback not read
  port, cmd,            \* words strobed and not latched; axi_from_ps_r
  edges,                \* edges since cmd was latched, up to the two the callback needs
  reg,                  \* tap_addr_r, tap_coeff_r, tap_mem_write_en_r, tap_chain_write_en_r
  callback_r,
  tap_coeffs,           \* the memory of fir.sv
  coeff_r,              \* the coefficient of every fir_tap
  before,               \* history: the memory when the call began
  live                  \* history: the taps have been loaded since reset

server == <<todo, asked, ok, waiting, before>>
fpga == <<cmd, edges, reg, callback_r, tap_coeffs, coeff_r, live>>
vars == <<server, port, fpga>>

Word(sel, payload) == [sel |-> sel, payload |-> payload]
Selects == {"IDLE", "ADDR", "COEFF", "MEM_WRITE_EN", "CHAIN_WRITE_EN"}
IdleWord == Word("IDLE", 0)
ResetReg == [addr |-> 0, coeff |-> 0, mem_write_en |-> 0, chain_write_en |-> 0]

Port == INSTANCE CommandQueue WITH queue <- port, ResetWord <- IdleWord, DEPTH <- 1,
                                   Words <- [sel : Selects, payload : Int]

----------------------------------------------------------------------------
(* One edge of clk. *)

\* tap_addr_r keeps the low bits of the address.
NextReg ==
  CASE cmd.sel = "ADDR" -> [reg EXCEPT !.addr = cmd.payload % NTAPS]
    [] cmd.sel = "COEFF" -> [reg EXCEPT !.coeff = cmd.payload]
    [] cmd.sel = "MEM_WRITE_EN" -> [reg EXCEPT !.mem_write_en = cmd.payload]
    [] cmd.sel = "CHAIN_WRITE_EN" -> [reg EXCEPT !.chain_write_en = cmd.payload]
    [] cmd.sel = "IDLE" -> reg

Echo ==
  CASE cmd.sel = "ADDR" -> reg.addr
    [] cmd.sel = "COEFF" -> reg.coeff
    [] cmd.sel = "MEM_WRITE_EN" -> reg.mem_write_en
    [] cmd.sel = "CHAIN_WRITE_EN" -> reg.chain_write_en
    [] cmd.sel = "IDLE" -> 0

\* Written at every edge under mem_write_en, whatever the word that came last:
\* an address is first written with the coefficient of the address before it.
WriteMemory ==
  tap_coeffs' = IF reg.mem_write_en = 1 THEN [tap_coeffs EXCEPT ![reg.addr] = reg.coeff]
                ELSE tap_coeffs

LoadTaps ==
  /\ coeff_r' = IF reg.chain_write_en = 1 THEN tap_coeffs ELSE coeff_r
  /\ live' = (live \/ reg.chain_write_en = 1)

Clk(strobe_edge) ==
  /\ IF strobe_edge THEN Port!Latch /\ edges' = 0
     ELSE UNCHANGED <<port, cmd>> /\ edges' = IF edges < 2 THEN edges + 1 ELSE 2
  /\ reg' = NextReg
  /\ callback_r' = Echo
  /\ WriteMemory
  /\ LoadTaps
  /\ UNCHANGED server

----------------------------------------------------------------------------
(* cmd_set_fir *)

\* Mutant: the taps are opened before the coefficients are written.
ProgramChainFirst(coeffs) ==
  <<Word("MEM_WRITE_EN", 1), Word("CHAIN_WRITE_EN", 1)>>
    \o [i \in 1 .. 2 * Len(coeffs) |->
          IF i % 2 = 1 THEN Word("ADDR", i \div 2) ELSE Word("COEFF", coeffs[i \div 2])]
    \o <<Word("MEM_WRITE_EN", 0)>>

\* The words of a load.  FIR_SELECT_INPUT_SEL, which comes first, only routes the
\* input of the filter and is left out.
Program(coeffs) ==
  <<Word("MEM_WRITE_EN", 1)>>
    \o [i \in 1 .. 2 * Len(coeffs) |->
          IF i % 2 = 1 THEN Word("ADDR", i \div 2) ELSE Word("COEFF", coeffs[i \div 2])]
    \o <<Word("MEM_WRITE_EN", 0), Word("CHAIN_WRITE_EN", 1)>>

\* A request with an input or a coefficient out of range is refused before the
\* first word, and changes nothing.
SetFir(coeffs) ==
  /\ todo = <<>>
  /\ todo' = Program(coeffs) /\ asked' = coeffs /\ ok' = TRUE
  /\ before' = tap_coeffs
  /\ UNCHANGED <<waiting, port, fpga>>

Execute ==
  /\ todo /= <<>> /\ ~waiting
  /\ Port!Strobe(Head(todo))
  /\ waiting' = TRUE
  /\ UNCHANGED <<todo, asked, ok, before, edges, reg, callback_r, tap_coeffs, coeff_r, live>>

Answered == waiting /\ port = <<>> /\ edges = 2

\* Mutant: the echo of the address is not checked.
ValidateNoAddr ==
  /\ Answered
  /\ ok' = (ok /\ (Head(todo).sel = "ADDR" \/ callback_r = Head(todo).payload))
  /\ todo' = Tail(todo) /\ waiting' = FALSE
  /\ UNCHANGED <<asked, before, port, fpga>>

\* A wrong echo fails the call and does not stop it.
Validate ==
  /\ Answered
  /\ ok' = (ok /\ callback_r = Head(todo).payload)
  /\ todo' = Tail(todo) /\ waiting' = FALSE
  /\ UNCHANGED <<asked, before, port, fpga>>

\* cmd_reset_fpga: the registers and the taps are cleared, the memory is not.
ResetFpga ==
  /\ todo = <<>>
  /\ cmd' = IdleWord /\ edges' = 2 /\ reg' = ResetReg /\ callback_r' = 0
  /\ coeff_r' = Zeros /\ live' = FALSE
  /\ asked' = <<>>
  /\ UNCHANGED <<todo, ok, waiting, before, port, tap_coeffs>>

----------------------------------------------------------------------------
Init ==
  /\ todo = <<>> /\ asked = <<>> /\ ok = TRUE /\ waiting = FALSE
  /\ port = <<>> /\ cmd = IdleWord /\ edges = 2
  /\ reg = ResetReg /\ callback_r = 0
  /\ tap_coeffs = Zeros /\ coeff_r = Zeros
  /\ before = Zeros /\ live = FALSE

Next ==
  \/ \E strobe_edge \in BOOLEAN : Clk(strobe_edge)
  \/ \E coeffs \in Lists : SetFir(coeffs)
  \/ Execute \/ Validate \/ ResetFpga

Spec == Init /\ [][Next]_vars

----------------------------------------------------------------------------
(* Properties. *)

\* The set a call asks for: its coefficients, and above them what was there.
Wanted == [t \in Taps |-> IF t < Len(asked) THEN asked[t + 1] ELSE before[t]]

\* A load that reports success has put every coefficient asked for under its own
\* tap and left the taps above them alone, though each address was first written
\* with its neighbour's coefficient; a load of more coefficients than taps wraps
\* around and never reports success.
OkMeansLoaded ==
  todo = <<>> /\ asked /= <<>> /\ ok =>
    Len(asked) <= NTAPS /\ tap_coeffs = Wanted /\ coeff_r = Wanted

\* The first load after a reset is atomic: the taps go from silence to the whole
\* set at one edge.
FirstLoadAtomic == [][~live /\ live' /\ Len(asked) <= NTAPS => coeff_r' = Wanted]_vars

====
