---- MODULE CommandPort ----
(***************************************************************************)
(* The 32-bit command port between the server's command handlers           *)
(* (core/sw/control/control.c, hw_common.c) and pdh_core.sv: the word is   *)
(* written with the strobe bit low and again with it high, comes through   *)
(* three flip-flops without any handshake, is latched on the rising strobe *)
(* and answered through the callback register, which the handler reads     *)
(* without waiting for the interrupt.                                      *)
(*                                                                         *)
(* The bits of a word written between two edges of clk may reach the first *)
(* flip-flop at either: an edge just after a write samples the strobe old  *)
(* or new, and any value in a field that changed.  Two constants state the *)
(* timing the code leaves to the bus: DWELL, how many edges a written word *)
(* is held at least, and READ_DELAY, how many pass before a read.          *)
(*                                                                         *)
(* Handlers: set_led stands for every handler of one word, set_rot for the *)
(* one that stages and commits; config_io passes a word whose reset bit it *)
(* never initialised, and reset_fpga asserts that bit.                     *)
(***************************************************************************)
EXTENDS Integers, Sequences

CONSTANTS
  Data,          \* payloads
  ResetData,     \* a register after reset
  DWELL, READ_DELAY

ASSUME PortAssumption ==
  /\ ResetData \in Data
  /\ DWELL \in Nat /\ READ_DELAY \in Nat /\ DWELL <= READ_DELAY

Cmds == {"IDLE", "SET_LED", "SET_COS", "SET_SIN", "COMMIT_ROT_COEFFS", "CONFIG_IO"}
Word(rst, strobe, cmd, data) == [rst |-> rst, strobe |-> strobe, cmd |-> cmd, data |-> data]
Zero == Word(FALSE, FALSE, "IDLE", ResetData)

VARIABLES
  todo, asked, ok,       \* server: what the handler has left to do, its call, its result
  bus, was, held,        \* axi_from_ps_i, the word before it, edges since the write
  ff1, ff2, ff3, prev_D, \* axi_1ff_r, axi_2ff_r, axi_3ff_r and the edge detector
  rst,                   \* edges that rst_sync_r still covers
  axi_from_ps_r,
  reg,                   \* led_r, cos_theta_r, sin_theta_r, rot_cos/sin_theta_r, dac1_dat_sel_r
  callback_r,
  sent,                  \* history: words strobed and not latched yet
  shadow                 \* history: the registers as the finished calls leave them

server == <<todo, asked, ok, shadow>>
wires == <<bus, was, held>>
core == <<ff1, ff2, ff3, prev_D, rst, axi_from_ps_r, reg, callback_r>>
vars == <<server, wires, core, sent>>

ResetRegs == [led |-> ResetData, cos |-> ResetData, sin |-> ResetData,
              rot |-> <<ResetData, ResetData>>, io |-> ResetData]

----------------------------------------------------------------------------
(* pdh_core.sv: one edge of clk. *)

\* What an edge may find on a field that changed since the edge before.
Settling(old, new, range) == IF old = new THEN {new} ELSE range

Sampled ==
  IF held > 0 THEN {[bus EXCEPT !.rst = FALSE]}
  ELSE [rst : {FALSE},
        strobe : Settling(was.strobe, bus.strobe, BOOLEAN),
        cmd : Settling(was.cmd, bus.cmd, Cmds),
        data : Settling(was.data, bus.data, Data)]

strobe_edge == ff3.strobe /\ ~prev_D

\* The registers follow the latched word at every edge.
NextReg(w) ==
  CASE w.cmd = "SET_LED" -> [reg EXCEPT !.led = w.data]
    [] w.cmd = "SET_COS" -> [reg EXCEPT !.cos = w.data]
    [] w.cmd = "SET_SIN" -> [reg EXCEPT !.sin = w.data]
    [] w.cmd = "COMMIT_ROT_COEFFS" -> [reg EXCEPT !.rot = <<reg.cos, reg.sin>>]
    [] w.cmd = "CONFIG_IO" -> [reg EXCEPT !.io = w.data]
    [] w.cmd = "IDLE" -> reg

\* The payload of the callback; the one of COMMIT_ROT_COEFFS is a measurement.
Payload(cmd, r) ==
  CASE cmd = "SET_LED" -> <<r.led>>
    [] cmd \in {"SET_COS", "SET_SIN"} -> <<r.cos, r.sin>>
    [] cmd = "CONFIG_IO" -> <<r.io>>
    [] cmd \in {"COMMIT_ROT_COEFFS", "IDLE"} -> <<>>

Callback(cmd, r) == [cmd |-> cmd, payload |-> Payload(cmd, r)]

\* Mutant: the word is latched from the second flip-flop.
LatchFromSecond == IF strobe_edge THEN ff2 ELSE axi_from_ps_r
next_axi_from_ps == IF strobe_edge THEN ff3 ELSE axi_from_ps_r

Tick == held' = IF held < READ_DELAY THEN held + 1 ELSE held

Clk ==
  /\ rst = 0
  /\ ff1' \in Sampled /\ ff2' = ff1 /\ ff3' = ff2 /\ prev_D' = ff3.strobe
  /\ axi_from_ps_r' = next_axi_from_ps
  /\ sent' = IF strobe_edge /\ sent /= <<>> THEN Tail(sent) ELSE sent
  /\ reg' = NextReg(axi_from_ps_r)
  /\ callback_r' = Callback(axi_from_ps_r.cmd, reg)
  /\ Tick
  /\ UNCHANGED <<server, bus, was, rst>>

\* The reset bit goes around the strobe, straight to the reset synchroniser.
ResetEdge ==
  /\ rst > 0
  /\ rst' = IF bus.rst THEN 2 ELSE rst - 1
  /\ ff1' = Zero /\ ff2' = Zero /\ ff3' = Zero /\ prev_D' = FALSE
  /\ axi_from_ps_r' = Zero
  /\ reg' = ResetRegs /\ callback_r' = [cmd |-> "IDLE", payload |-> <<>>]
  /\ Tick
  /\ UNCHANGED <<server, bus, was, sent>>

----------------------------------------------------------------------------
(* The handlers. *)

Send(w) == [do |-> "send", word |-> w, expect |-> {}]
Read(expect) == [do |-> "read", word |-> Zero, expect |-> expect]

\* Mutant: the word is written with the strobe high only.
StrobeHighOnly(r, cmd, data) == <<Send(Word(r, TRUE, cmd, data))>>
\* pdh_strobe_cmd, and the first half of pdh_execute_cmd.
pdh_strobe_cmd(r, cmd, data) ==
  <<Send(Word(r, FALSE, cmd, data)), Send(Word(r, TRUE, cmd, data))>>

\* Every handler with its arguments, the reset bit of its words, and its steps.
\* A read expects the payloads that pass the handler's checks.
Call(name, args, r) == [name |-> name, args |-> args, rst |-> r]

Calls ==
  {Call("set_led", <<d>>, FALSE) : d \in Data}
    \cup {Call("set_rot", <<c, s>>, FALSE) : c \in Data, s \in Data}
    \cup {Call("config_io", <<d>>, r) : d \in Data, r \in BOOLEAN}
    \cup {Call("reset_fpga", <<>>, FALSE)}

\* Mutant: the commit is strobed before the sine is staged.
StepsCommitFirst(call) ==
  CASE call.name = "set_led" ->
         pdh_strobe_cmd(FALSE, "SET_LED", call.args[1]) \o <<Read({call.args})>>
    [] call.name = "config_io" ->
         pdh_strobe_cmd(call.rst, "CONFIG_IO", call.args[1]) \o <<Read({call.args})>>
    [] call.name = "set_rot" ->
         pdh_strobe_cmd(FALSE, "SET_COS", call.args[1])
           \o pdh_strobe_cmd(FALSE, "COMMIT_ROT_COEFFS", ResetData)
           \o pdh_strobe_cmd(FALSE, "SET_SIN", call.args[2])
           \o <<Read({call.args})>>
    [] call.name = "reset_fpga" ->
         <<Send([Zero EXCEPT !.rst = TRUE]), Send(Zero), Read({<<>>})>>

Steps(call) ==
  CASE call.name = "set_led" ->
         pdh_strobe_cmd(FALSE, "SET_LED", call.args[1]) \o <<Read({call.args})>>
    [] call.name = "config_io" ->
         pdh_strobe_cmd(call.rst, "CONFIG_IO", call.args[1]) \o <<Read({call.args})>>
    [] call.name = "set_rot" ->
         pdh_strobe_cmd(FALSE, "SET_COS", call.args[1])
           \o pdh_strobe_cmd(FALSE, "SET_SIN", call.args[2])
           \o <<Read({call.args})>>
           \o pdh_strobe_cmd(FALSE, "COMMIT_ROT_COEFFS", ResetData)
           \o <<Read({<<>>})>>
    [] call.name = "reset_fpga" ->
         <<Send([Zero EXCEPT !.rst = TRUE]), Send(Zero), Read({<<>>})>>

None == Call("none", <<>>, FALSE)

Dispatch ==
  /\ asked = None
  /\ \E call \in Calls : asked' = call /\ todo' = Steps(call)
  /\ ok' = TRUE
  /\ UNCHANGED <<shadow, wires, core, sent>>

\* A handler returns with its last step.
Advance ==
  /\ todo' = Tail(todo)
  /\ asked' = IF Len(todo) = 1 THEN None ELSE asked

\* pdh_send_cmd
SendCmd ==
  /\ todo /= <<>> /\ Head(todo).do = "send" /\ held >= DWELL
  /\ LET w == Head(todo).word
     IN /\ bus' = w /\ was' = bus /\ held' = 0
        /\ rst' = (IF w.rst THEN 2 ELSE rst)
        /\ prev_D' = (prev_D /\ ~w.rst)
        /\ sent' = IF w.rst THEN <<>> ELSE IF w.strobe THEN Append(sent, w) ELSE sent
  /\ Advance
  /\ UNCHANGED <<ok, shadow, ff1, ff2, ff3, axi_from_ps_r, reg, callback_r>>

\* The registers as a call leaves them.
Applied(call, r) ==
  CASE call.name = "set_led" -> [r EXCEPT !.led = call.args[1]]
    [] call.name = "set_rot" -> [r EXCEPT !.cos = call.args[1], !.sin = call.args[2], !.rot = call.args]
    [] call.name = "config_io" /\ ~call.rst -> [r EXCEPT !.io = call.args[1]]
    [] OTHER -> ResetRegs

\* pdh_get_callback, and the handler's checks of what it returned.
GetCallback ==
  /\ todo /= <<>> /\ Head(todo).do = "read" /\ held >= READ_DELAY
  /\ ok' = (ok /\ callback_r.payload \in Head(todo).expect)
  /\ shadow' = IF Len(todo) = 1 THEN Applied(asked, shadow) ELSE shadow
  /\ Advance
  /\ UNCHANGED <<wires, core, sent>>

----------------------------------------------------------------------------
Init ==
  /\ todo = <<>> /\ asked = None /\ ok = TRUE /\ shadow = ResetRegs
  /\ bus = Zero /\ was = Zero /\ held = READ_DELAY
  /\ ff1 = Zero /\ ff2 = Zero /\ ff3 = Zero /\ prev_D = FALSE /\ rst = 0
  /\ axi_from_ps_r = Zero /\ reg = ResetRegs
  /\ callback_r = [cmd |-> "IDLE", payload |-> <<>>]
  /\ sent = <<>>

Next == Clk \/ ResetEdge \/ Dispatch \/ SendCmd \/ GetCallback

Spec == Init /\ [][Next]_vars

----------------------------------------------------------------------------
(* Properties. *)

Words == [rst : BOOLEAN, strobe : BOOLEAN, cmd : Cmds, data : Data]

\* The port is a queue: no strobed word is lost, doubled, torn or overtaken,
\* however the bits of a word settle.
Queue == INSTANCE CommandQueue WITH queue <- sent, cmd <- axi_from_ps_r,
                                    ResetWord <- Zero, DEPTH <- 2
ImplementsQueue == Queue!Spec

\* No read of a handler fails, except in a call whose words carry the reset bit:
\* every callback it reads answers its own command.
EchoMatches == [][ok /\ ~asked.rst => ok']_vars

\* Between calls the registers are what the calls before made of them, each call
\* having changed its own registers only.
RegistersFollow == asked = None => reg = shadow

====
