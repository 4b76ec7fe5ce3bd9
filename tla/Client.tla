---- MODULE Client ----
(***************************************************************************)
(* One call at a time from the entry in a panel of the GUI, or from a      *)
(* script, to what is shown: the checks of the panel (client/gui.py), the  *)
(* request and the result of the api_* function (client/pdh_api/api.py),   *)
(* the handler (Handlers), the file that is fetched and what is computed   *)
(* from it (Analysis).  Calls that overlap are the subject of Session and  *)
(* of Gui.                                                                 *)
(*                                                                         *)
(* An entry is [by, op, ...]: who calls, which operation, and its fields;  *)
(* selections are entered by the names of the enumerations.                *)
(***************************************************************************)
EXTENDS Handlers, Analysis

CONSTANTS
  Entries,        \* what may be entered
  Plants,         \* what the signals may look like
  MAX_CALLS       \* bound: calls in a behaviour

VARIABLES
  dev, plant, files,      \* registers; the plant; the last file of each name on the server
  pc, entry, stage, n,    \* the call in hand, its request, and calls begun
  reply, data, lock,      \* what was answered, fetched and found
  shown,                  \* what the last call shows
  asked                   \* history: the routing last configured, if it is still due

vars == <<dev, plant, files, pc, entry, stage, n, reply, data, lock, shown, asked>>

----------------------------------------------------------------------------
(* The panels: what they accept. *)

Channels == {"adc_a", "adc_b", "i_feed", "q_feed"}
ChannelSignal == [adc_a |-> "adc_dat_a_16s_r", adc_b |-> "adc_dat_b_16s_r", i_feed |-> "i_feed_r", q_feed |-> "q_feed_r"]
Voltage(v) == Between(v, -8192, 8192)

\* The fields of an entry are selections, by their names, and numbers.  A coefficient
\* that design_lowpass made has at most 24 characters, and a request of them fits.
Entered(e) ==
  CASE e.op = "set_led"      -> e.value \in Int
    [] e.op = "set_dac"      -> e.dac \in DOMAIN DacSel /\ e.value \in Int
    [] e.op = "set_rotation" -> e.angle \in Int
    [] e.op = "set_nco"      -> {e.freq, e.shift, e.en} \subseteq Int
    [] e.op = "set_fir"      -> /\ e.sel \in DOMAIN FirInputSel /\ e.coeffs \in Seq(Int) /\ e.width \in Nat
                                /\ e.by = "gui" => 18 + NTAPS * e.width <= MAX_BYTES
    [] e.op \in {"set_pid", "autolock"} ->
         /\ e.pid \in [kp : Int, ki : Int, kd : Int, sp : Int, gain : Int, bias : Int, egain : Int,
                       dec : Int, alpha : Int, sat : Int, en : Int]
         /\ e.op = "autolock" => /\ e.chan \in Channels /\ e.dac2 \in DOMAIN DacDatSel
                                 /\ e.dac = "DAC_1" /\ e.mode = 0
                                 /\ {e.v0, e.v1, e.pts, e.delay, e.peak_pts} \subseteq Int
    [] e.op = "config_io"    -> {e.dac1, e.dac2} \subseteq DOMAIN DacDatSel /\ e.pid_sel \in DOMAIN PidDatSel
    [] e.op = "config_demod" -> e.ref \in DOMAIN DemodRefSel /\ e.in \in DOMAIN DemodInSel /\ e.alpha \in Int
    [] OTHER                 -> e.op \in {"reset_fpga", "get_adc", "check_signed", "get_frame", "psd",
                                           "control_metrics", "sweep_ramp", "lockpoint"}

ASSUME ClientAssumption ==
  /\ MAX_CALLS \in Nat \ {0}
  /\ \A e \in Entries : e.by \in {"gui", "script"} /\ Entered(e)

\* The codes of DAC 1, on every one of which a plant shows a number, on every channel.
Codes == 0 .. 16383
ASSUME PlantAssumption ==
  \A p \in Plants, code \in Codes, chan \in Channels : Response(p, code)[ChannelSignal[chan]] \in Int

_on_set_led(e) == Between(e.value, 0, 255)
_dac_call(e) == Between(e.value, -16383, 16383)
OnApplyNco(e) == e.freq > 0 /\ e.freq <= 62500 /\ Between(e.shift, -180, 180)
OnApplyDemod(e) == Between(e.alpha, 0, 15)

\* design_lowpass gives NTAPS coefficients, or an error when one of them is 1 or more;
\* which they are is the entry's choice, in place of corner and window.
design_lowpass(ntaps, coeffs) == Len(coeffs) = ntaps /\ \A k \in DOMAIN coeffs : Abs(coeffs[k]) < 32768
OnApplyFir(e) == design_lowpass(NTAPS, e.coeffs)

OnApplyPid(e) ==
  /\ \A gain \in {e.pid.kp, e.pid.ki, e.pid.kd, e.pid.gain, e.pid.egain} : Between(gain, -32768, 32767)
  /\ Between(e.pid.sp, -8192, 8191) /\ Between(e.pid.bias, -8191, 8191)
  /\ Between(e.pid.dec, 1, 16383) /\ Between(e.pid.alpha, 0, 15) /\ Between(e.pid.sat, 15, 31)

OnCapture(e) == e.dec >= 1
OnMetrics(e) == e.dec >= 1
OnRunPsd(e) == e.dec >= 1 /\ 0 <= e.fstart /\ e.fstart < e.fstop /\ e.cols /= <<>>
OnRunSweep(e) == Voltage(e.v0) /\ Voltage(e.v1) /\ Between(e.pts, 2, 16384) /\ e.delay >= 0
_on_autolock(e) == OnRunSweep(e) /\ e.peak_pts >= 1

Accepted(e) ==
  IF e.by = "script" THEN e.op /= "get_frame" \/ e.code \in DOMAIN FrameCode
  ELSE CASE e.op = "set_led"         -> _on_set_led(e)
         [] e.op = "set_dac"         -> _dac_call(e)
         [] e.op = "set_nco"         -> OnApplyNco(e)
         [] e.op = "config_demod"    -> OnApplyDemod(e)
         [] e.op = "set_fir"         -> OnApplyFir(e)
         [] e.op = "set_pid"         -> OnApplyPid(e)
         [] e.op = "get_frame"       -> OnCapture(e)
         [] e.op = "control_metrics" -> OnMetrics(e)
         [] e.op = "psd"             -> OnRunPsd(e)
         [] e.op = "sweep_ramp"      -> OnRunSweep(e)
         [] e.op = "autolock"        -> _on_autolock(e)
         [] OTHER                    -> TRUE

----------------------------------------------------------------------------
(* api_*: requests, and the fields of the results. *)

Request(cmd, f, u) == [cmd |-> cmd, F |-> f, U |-> u, bytes |-> 64]

api_reset_fpga(e) == Request("reset_fpga", <<>>, <<>>)
api_set_led(e) == Request("set_led", <<>>, <<e.value>>)
api_get_adc(e) == Request("get_adc", <<>>, <<>>)
api_set_dac(e) == Request("set_dac", <<e.value>>, <<DacSel[e.dac]>>)
api_check_signed(e) == Request("check_signed", <<>>, <<CsSel[e.sel]>>)
api_set_rotation(e) == Request("set_rotation", <<e.angle>>, <<>>)
api_set_nco(e) == Request("set_nco", <<e.freq, e.shift>>, <<e.en>>)

\* Mutant: the gains in the order of the panel.
SetPidPanelOrder(e) ==
  LET p == e.pid
  IN  Request("set_pid", <<p.kp, p.ki, p.kd, p.sp, p.gain, p.bias, p.egain>>, <<p.dec, p.alpha, p.sat, p.en>>)

api_set_pid(e) ==
  LET p == e.pid
  IN  Request("set_pid", <<p.kp, p.kd, p.ki, p.sp, p.gain, p.bias, p.egain>>, <<p.dec, p.alpha, p.sat, p.en>>)

\* A coefficient takes e.width characters with its comma.
_send_fir_coeffs(e) ==
  [cmd |-> "set_fir", F |-> e.coeffs, U |-> <<FirInputSel[e.sel]>>, bytes |-> 18 + Len(e.coeffs) * e.width]

\* The coefficients come from a file, a line each, or from memory.
api_set_fir_coeffs(e) == _send_fir_coeffs(e)

api_config_io(e) == Request("config_io", <<>>, <<DacDatSel[e.dac1], DacDatSel[e.dac2], PidDatSel[e.pid_sel]>>)
api_config_demod(e) == Request("config_demod", <<>>, <<DemodRefSel[e.ref], DemodInSel[e.in], e.alpha>>)
api_get_frame(e) == Request("get_frame", <<>>, <<e.dec, FrameCode[e.code]>>)
api_sweep_ramp(e) == Request("sweep_ramp", <<e.v0, e.v1>>, <<e.pts, DacSel[e.dac], e.delay, e.mode>>)

\* The routing and the settings an autolock sends: those of the panels, but for what
\* it has found.  The bias is the lock point, the input gain CALIBRATION / slope.
ChanToPidSel == [adc_a |-> "ADC_A", adc_b |-> "ADC_B", i_feed |-> "I_FEED", q_feed |-> "Q_FEED"]
LockRouting(e) == [dac1 |-> "PID", dac2 |-> e.dac2, pid_sel |-> ChanToPidSel[e.chan]]

InputGain(slope) ==
  IF slope.n > 0 THEN HalfEven(1024 * CALIBRATION * slope.d, slope.n)
  ELSE IF slope.n < 0 THEN -HalfEven(1024 * CALIBRATION * slope.d, -slope.n) ELSE 0

LockSettings(e, found) ==
  [pid |-> [e.pid EXCEPT !.sp = 0, !.en = 1, !.bias = HalfEven(8191 * found.v, 8192),
                         !.egain = InputGain(found.slope)]]

\* The commands of an operation, in order.
Commands(op) ==
  CASE op \in {"psd", "control_metrics", "get_frame"} -> <<"get_frame">>
    [] op = "lockpoint" -> <<"sweep_ramp">>
    [] op = "autolock"  -> <<"sweep_ramp", "config_io", "set_pid">>
    [] OTHER            -> <<op>>

Asked(e, found, cmd) ==
  CASE cmd = "reset_fpga"   -> api_reset_fpga(e)
    [] cmd = "set_led"      -> api_set_led(e)
    [] cmd = "get_adc"      -> api_get_adc(e)
    [] cmd = "set_dac"      -> api_set_dac(e)
    [] cmd = "check_signed" -> api_check_signed(e)
    [] cmd = "set_rotation" -> api_set_rotation(e)
    [] cmd = "set_nco"      -> api_set_nco(e)
    [] cmd = "set_fir"      -> api_set_fir_coeffs(e)
    [] cmd = "config_demod" -> api_config_demod(e)
    [] cmd = "get_frame"    -> api_get_frame(e)
    [] cmd = "sweep_ramp"   -> api_sweep_ramp(e)
    [] cmd = "config_io"    -> api_config_io(IF e.op = "autolock" THEN LockRouting(e) ELSE e)
    [] cmd = "set_pid"      -> api_set_pid(IF e.op = "autolock" THEN LockSettings(e, found) ELSE e)

Command == Commands(entry.op)[stage]

\* The device's answer takes longer than CMD_TIMEOUT_S.
Late ==
  \/ Command = "get_frame" /\ entry.dec >= 38147
  \/ Command = "sweep_ramp" /\ entry.pts > 0 /\ Unsigned(entry.delay) >= 5000000 \div entry.pts

Fields ==
  [reset_fpga |-> ResetResult, set_led |-> SetLedResult, get_adc |-> AdcResult, set_dac |-> SetDacResult,
   check_signed |-> CheckSignedResult, set_rotation |-> SetRotResult, set_nco |-> SetNcoResult,
   set_pid |-> SetPidResult, set_fir |-> SetFirResult, config_io |-> ConfigIoResult,
   config_demod |-> ConfigDemodResult, get_frame |-> FrameResult, sweep_ramp |-> SweepRampResult]

\* Fields the answer does not hold get a default.
Absent == "absent"

\* Mutant: the feedback of DAC 2 is read for both.
ResultOneDac(cmd, answer) ==
  LET out == answer.out
  IN  [field \in Fields[cmd] |-> IF field = "status" THEN answer.status
                                 ELSE IF field \notin DOMAIN out THEN Absent
                                 ELSE IF field = "dac1_dat_sel_cb" THEN out["dac2_dat_sel_cb"] ELSE out[field]]

Result(cmd, answer) ==
  [field \in Fields[cmd] |-> IF field = "status" THEN answer.status
                             ELSE IF field \in DOMAIN answer.out THEN answer.out[field] ELSE Absent]

----------------------------------------------------------------------------
(* What a panel shows of a result. *)

OnOkSystem(op, r) ==
  CASE op = "reset_fpga" -> [rst_raw |-> r.rst_raw_cb]
    [] op = "get_adc"    -> [in1 |-> r.in1_v, in2 |-> r.in2_v]
    [] op = "set_dac"    -> [dac1 |-> r.dac1_code_cb, dac2 |-> r.dac2_code_cb]
    [] op = "set_led"    -> [led |-> r.led_code_cb]

OnOkIo(r) ==
  [dac1 |-> NameOf(DacDatSel, r.dac1_dat_sel_cb), dac2 |-> NameOf(DacDatSel, r.dac2_dat_sel_cb),
   pid |-> NameOf(PidDatSel, r.pid_dat_sel_cb)]
OnOkNco(r) == [freq |-> r.registered_freq, shift |-> r.registered_phase_shift, en |-> r.en_cb]
OnOkRotation(r) == [cos |-> r.cos_cb, sin |-> r.sin_cb]
OnOkDemod(r) ==
  [ref |-> NameOf(DemodRefSel, r.ref_sel_cb), in |-> NameOf(DemodInSel, r.in_sel_cb), alpha |-> r.lpf_alpha_cb]
OnOkFir(e) == [sel |-> e.sel]
OnOkPid(r) ==
  [kp |-> r.kp_cb, ki |-> r.ki_cb, kd |-> r.kd_cb, sp |-> r.sp_cb, dec |-> r.dec_cb, alpha |-> r.alpha_cb,
   sat |-> r.sat_cb, en |-> r.en_cb, gain |-> r.gain_cb, bias |-> r.bias_cb, egain |-> r.egain_cb]

Feedback(e, r) ==
  IF e.by = "script" THEN r
  ELSE CASE e.op = "config_io"    -> OnOkIo(r)
         [] e.op = "set_nco"      -> OnOkNco(r)
         [] e.op = "set_rotation" -> OnOkRotation(r)
         [] e.op = "config_demod" -> OnOkDemod(r)
         [] e.op = "set_fir"      -> OnOkFir(e)
         [] e.op = "set_pid"      -> OnOkPid(r)
         [] OTHER                 -> OnOkSystem(e.op, r)

\* The position of a label, list.index.
Index(columns, label) == CHOOSE k \in DOMAIN columns : columns[k] = label

\* Curves: a label and the signal of the column drawn under it.
_plot_frame(columns, signals) ==
  [k \in 1 .. (IF Len(columns) < Len(signals) THEN Len(columns) ELSE Len(signals)) |-> <<columns[k], signals[k]>>]

ByLabel(columns, signals, labels) == [k \in DOMAIN labels |-> <<labels[k], signals[Index(columns, labels[k])]>>]
_plot_sweep(e, file) == ByLabel(IF e.mode /= 0 THEN SWEEP_DEMOD_COLUMNS ELSE SWEEP_COLUMNS, file.signals, e.cols)

\* The column of a label in a fetched file.
Column(e, file, label) ==
  file.values[file.signals[Index(IF e.mode /= 0 THEN SWEEP_DEMOD_COLUMNS ELSE SWEEP_COLUMNS, label)]]

\* A spectrum needs a column for every label.
api_psd(e, file) ==
  IF Len(file.signals) = Len(FRAME_COLUMNS[e.code]) THEN ByLabel(FRAME_COLUMNS[e.code], file.signals, e.cols) ELSE <<>>

----------------------------------------------------------------------------
(* The steps of a call. *)

NoReply == [status |-> -1, out |-> NoOutput]
Unlocked == [found |-> FALSE]
Blank == [ok |-> FALSE]
AtReset == [dac1 |-> "REGISTER", dac2 |-> "REGISTER", pid_sel |-> "I_FEED"]
Unknown == [dac1 |-> "unknown", dac2 |-> "unknown", pid_sel |-> "unknown"]

\* A panel that does not accept its entry sends nothing.
Enter(e) ==
  /\ pc = "idle" /\ n < MAX_CALLS
  /\ n' = n + 1 /\ entry' = e /\ stage' = 1
  /\ pc' = IF Accepted(e) THEN "exchange" ELSE "idle"
  /\ reply' = NoReply /\ data' = NoFile /\ lock' = Unlocked /\ shown' = Blank
  /\ UNCHANGED <<dev, plant, files, asked>>

\* asked follows what was executed, whether or not the answer arrives.
Due(outcome) ==
  LET e == IF entry.op = "autolock" THEN LockRouting(entry) ELSE entry
  IN  IF outcome.status /= 0 THEN Unknown
      ELSE CASE Command = "reset_fpga" -> AtReset
             [] Command = "config_io" -> [dac1 |-> e.dac1, dac2 |-> e.dac2, pid_sel |-> e.pid_sel]
             [] OTHER -> asked

\* execute_cmd: the handler runs, and the answer comes in time or not.
Exchange ==
  /\ pc = "exchange"
  /\ \E outcome \in Handle(dev, plant, Asked(entry, lock, Command)), lost \in BOOLEAN :
       /\ Late => lost
       /\ dev' = outcome.dev
       /\ files' = IF outcome.file = NoFile THEN files ELSE [files EXCEPT ![outcome.file.name] = outcome.file]
       /\ asked' = Due(outcome)
       /\ reply' = IF lost THEN NoReply ELSE [status |-> outcome.status, out |-> outcome.out]
  /\ pc' = "handle"
  /\ UNCHANGED <<plant, entry, stage, n, data, lock, shown>>

\* The server is not reached.
Unreached ==
  /\ pc = "exchange" /\ pc' = "handle"
  /\ reply' = NoReply
  /\ UNCHANGED <<dev, plant, files, entry, stage, n, data, lock, shown, asked>>

Fail == pc' = "idle" /\ UNCHANGED <<dev, plant, files, entry, stage, n, reply, data, lock, shown, asked>>

\* api_cmd: a timeout or a status other than 0 raises.
Raise == pc = "handle" /\ reply.status /= 0 /\ Fail

Fetches == {"get_frame", "sweep_ramp"}

\* Operations without a file: the feedback of the panel, or the next command.
Return ==
  /\ pc = "handle" /\ reply.status = 0 /\ Command \notin Fetches
  /\ IF stage < Len(Commands(entry.op))
     THEN pc' = "exchange" /\ stage' = stage + 1 /\ UNCHANGED shown
     ELSE /\ pc' = "idle" /\ UNCHANGED stage
          /\ shown' = IF entry.op = "autolock" THEN [ok |-> TRUE, lock |-> lock]
                      ELSE [ok |-> TRUE, feedback |-> Feedback(entry, Result(Command, reply))]
  /\ UNCHANGED <<dev, plant, files, entry, n, reply, data, lock, asked>>

\* _ssh_fetch_csv
Fetch ==
  /\ pc = "handle" /\ reply.status = 0 /\ Command \in Fetches
  /\ pc' = "analyse"
  /\ data' = files[IF Command = "get_frame" THEN "dma_log" ELSE "sweep_log"]
  /\ UNCHANGED <<dev, plant, files, entry, stage, n, reply, lock, shown, asked>>

FetchFails == pc = "handle" /\ reply.status = 0 /\ Command \in Fetches /\ Fail

\* api_control_metrics: the cross-correlation of the columns labelled so.
api_control_metrics(file) ==
  [columns |-> ByLabel(FRAME_COLUMNS["PID_IO"], file.signals, FRAME_COLUMNS["PID_IO"]),
   ccf_peak_lag |-> PeakLag(file.trace.pid_out, file.trace.err)]

Analyse(e) ==
  CASE e.op = "get_frame" -> [ok |-> TRUE, curves |-> _plot_frame(FRAME_COLUMNS[e.code], data.signals)]
    [] e.op = "psd"       -> [ok |-> api_psd(e, data) /= <<>>, curves |-> api_psd(e, data)]
    [] e.op = "control_metrics" -> [ok |-> TRUE, metrics |-> api_control_metrics(data)]
    [] e.op = "sweep_ramp" -> [ok |-> TRUE, curves |-> _plot_sweep(e, data)]
    [] e.op = "lockpoint"  ->
         [ok |-> TRUE, lockpoint |-> compute_lockpoint(data.v, Column(e, data, "i_feed"), Column(e, data, "q_feed"),
                                                       e.sign_sel, e.invert, e.window)]

Show ==
  /\ pc = "analyse" /\ entry.op /= "autolock"
  /\ pc' = "idle" /\ shown' = Analyse(entry)
  /\ UNCHANGED <<dev, plant, files, entry, stage, n, reply, data, lock, asked>>

\* _autolock_bg between its commands.
FindLock ==
  /\ pc = "analyse" /\ entry.op = "autolock"
  /\ LET point == LockPoint(Column(entry, data, entry.chan), data.v, entry.peak_pts)
     IN  IF point.found
         THEN /\ lock' = [found |-> TRUE, v |-> data.v[point.at], slope |-> point.slope]
              /\ pc' = "exchange" /\ stage' = stage + 1
         ELSE pc' = "idle" /\ UNCHANGED <<lock, stage>>
  /\ UNCHANGED <<dev, plant, files, entry, n, reply, data, shown, asked>>

----------------------------------------------------------------------------
Init ==
  /\ dev = ResetDevice /\ plant \in Plants
  /\ files = [dma_log |-> NoFile, sweep_log |-> NoFile]
  /\ pc = "idle" /\ entry \in {e \in Entries : e.op = "get_adc"} /\ stage = 1 /\ n = 0
  /\ reply = NoReply /\ data = NoFile /\ lock = Unlocked /\ shown = Blank
  /\ asked = AtReset

Next ==
  \/ \E e \in Entries : Enter(e)
  \/ Exchange \/ Unreached \/ Raise \/ Return
  \/ Fetch \/ FetchFails \/ Show \/ FindLock

Spec == Init /\ [][Next]_vars

----------------------------------------------------------------------------
(* Properties.  The names are those of the enumerations and of the labels; *)
(* what they should stand for is written out here, in the signals of the   *)
(* FPGA.                                                                   *)

Signal ==
  [REGISTER |-> "dac_dat_r", PID |-> "pid_out_w", NCO_1 |-> "nco_feed1_r", NCO_2 |-> "nco_feed2_r",
   NCO1 |-> "nco_out1_r", NCO2 |-> "nco_out2_r",
   ADC1 |-> "adc_dat_a_16s_r", ADC2 |-> "adc_dat_b_16s_r", ADC_A |-> "adc_dat_a_16s_r", ADC_B |-> "adc_dat_b_16s_r",
   I_FEED |-> "i_feed_r", Q_FEED |-> "q_feed_r", FIR_OUT |-> "fir_out_w",
   IQ_DEMOD_OUT |-> "demod_out_w", IQ_DEMOD_LPF |-> "demod_lpf_r", DEMOD_LPF |-> "demod_lpf_r", IO |-> "io_status"]

Routed(d, io) ==
  /\ Selected(DacFeed, d.io.dac1) = Signal[io.dac1]
  /\ Selected(DacFeed, d.io.dac2) = Signal[io.dac2]
  /\ Selected(PidIn, d.io.pid) = Signal[io.pid_sel]

Shows(op) == pc = "idle" /\ shown.ok /\ entry.op = op
SameAngle(x, y, tolerance) == (x - y + tolerance) % (360 * 91) <= 2 * tolerance

\* The quantities the docstrings of api.py allow, where a handler does not check them.
\* Of a negative frequency cmd_set_nco takes the size, without an error.
Documented(e) ==
  CASE e.op = "set_dac"      -> _dac_call(e)
    [] e.op = "set_rotation" -> Between(e.angle, -180, 180)
    [] e.op = "set_nco"      -> e.freq >= 0
    [] e.op = "set_pid"      -> OnApplyPid(e)
    [] e.op = "set_fir"      -> Len(e.coeffs) <= NTAPS /\ _send_fir_coeffs(e).bytes <= MAX_BYTES
    [] e.op = "config_demod" -> OnApplyDemod(e)
    [] OTHER                 -> TRUE

InForce(d, e) ==
  CASE e.op = "set_led"      -> d.led = e.value
    [] e.op = "reset_fpga"   -> d = ResetDevice
    [] e.op = "set_dac"      -> Size(2 * d.dac[e.dac] - (16383 - e.value)) <= 1
    [] e.op = "set_rotation" -> d.rotation = e.angle
    [] e.op = "set_nco"      -> /\ d.nco.en = e.en
                                /\ 2 * Size(d.nco.stride * 15625 - e.freq * 2048) <= 15625
                                /\ SameAngle(Lead(d.nco), -91 * e.shift, 1)
    [] e.op = "set_pid"      -> d.pid = e.pid
    [] e.op = "set_fir"      -> /\ Selected(FirIn, d.fir.sel) = Signal[e.sel]
                                /\ \A k \in DOMAIN e.coeffs : Size(d.fir.taps[k] - e.coeffs[k]) <= 1
    [] e.op = "config_io"    -> Routed(d, e)
    [] e.op = "config_demod" -> /\ Selected(DemodRef, d.demod.ref) = Signal[e.ref]
                                /\ Selected(DemodIn, d.demod.in) = Signal[e.in]
                                /\ d.demod.alpha = e.alpha
    [] OTHER                 -> TRUE

\* A call that returns without an error has put into the registers what was entered:
\* every field in its place, in the unit of its register, every selection on the
\* signal it names (api.py, dispatch_command of server.c, control.c, pdh_core.sv).
OkMeansInForce == pc = "idle" /\ shown.ok /\ Documented(entry) => InForce(dev, entry)

\* The feedback of a panel is what the device d holds.
Held(d, e, feedback) ==
  CASE e.op = "set_led"      -> feedback.led = d.led
    [] e.op = "set_dac"      -> feedback = [dac1 |-> d.dac.DAC_1, dac2 |-> d.dac.DAC_2]
    [] e.op = "set_rotation" -> feedback = [cos |-> <<"cos", d.rotation>>, sin |-> <<"sin", d.rotation>>]
    [] e.op = "set_nco"      -> /\ feedback.freq = d.nco.stride /\ feedback.en = d.nco.en
                                /\ SameAngle(feedback.shift, -Lead(d.nco), 0)
    [] e.op = "set_pid"      -> feedback = d.pid
    [] e.op = "set_fir"      -> Selected(FirIn, d.fir.sel) = Signal[feedback.sel]
    [] e.op = "config_io"    -> Routed(d, [dac1 |-> feedback.dac1, dac2 |-> feedback.dac2, pid_sel |-> feedback.pid])
    [] e.op = "config_demod" -> /\ Selected(DemodRef, d.demod.ref) = Signal[feedback.ref]
                                /\ Selected(DemodIn, d.demod.in) = Signal[feedback.in]
                                /\ feedback.alpha = d.demod.alpha
    [] OTHER                 -> TRUE

\* The feedback a panel shows after a call is what the device holds: names, shift and
\* gains go back through the answer, the result and the label (_on_ok of gui.py).
ShownIsHeld == pc = "idle" /\ shown.ok /\ entry.by = "gui" => Held(dev, entry, shown.feedback)

\* Between calls the outputs and the PID input are on the signals that were last
\* asked for, whatever sweeps, frames and lost answers came since; after an error
\* status there is no telling (cmd_config_io, cmd_sweep_ramp, cmd_reset_fpga).
RoutingFollows == pc = "idle" /\ asked /= Unknown => Routed(dev, asked)

\* What a label of a column promises.
Meaning ==
  [adc_a |-> {"adc_dat_a_16s_r", "adc_dat_a_i"}, adc_b |-> {"adc_dat_b_16s_r", "adc_dat_b_i"},
   i_feed |-> {"i_feed_r"}, q_feed |-> {"q_feed_r"},
   err |-> {"err_tap_w"}, perr |-> {"perr_tap_w"}, derr |-> {"derr_tap_w"}, ierr |-> {"ierr_tap_w"},
   sum_err |-> {"sum_err_tap_w"}, pid_in |-> {"pid_in_w"}, pid_out |-> {"pid_out_w"},
   nco_out1 |-> {"nco_out1_r"}, nco_out2 |-> {"nco_out2_r"}, nco_feed1 |-> {"nco_feed1_r"}, nco_feed2 |-> {"nco_feed2_r"},
   phi1 |-> {"phi1_w"}, phi2 |-> {"phi2_w"}, addr1 |-> {"addr1_w"}, addr2 |-> {"addr2_w"},
   dac1_feed |-> {"dac1_feed_w"}, dac2_feed |-> {"dac2_feed_w"}, fir_in |-> {"fir_in_w"}, fir_out |-> {"fir_out_w"},
   demod_in |-> {"demod_in_w"}, demod_ref |-> {"demod_ref_w"}, demod_out |-> {"demod_out_w"}, demod_lpf |-> {"demod_lpf_r"}]

\* Every curve shows the signal its legend names, whole and not mixed with another's
\* bits: five lists in three languages, of the word, the structure, the print, the
\* sweep and the labels, have to agree (dma_data_w, dma_frame_t, cmd_get_frame,
\* cmd_sweep_ramp, FRAME_COLUMNS, SWEEP_COLUMNS).  A register read by name is the one named.
LabelsNameSignals ==
  pc = "idle" /\ shown.ok =>
    CASE entry.op \in {"get_frame", "psd", "sweep_ramp"} ->
           \A k \in DOMAIN shown.curves : shown.curves[k][2] \in Meaning[shown.curves[k][1]]
      [] entry.op = "control_metrics" ->
           \A k \in DOMAIN shown.metrics.columns : shown.metrics.columns[k][2] \in Meaning[shown.metrics.columns[k][1]]
      [] entry.op = "check_signed" -> shown.feedback.reg_value_cb = Signal[entry.sel]
      [] OTHER -> TRUE

\* What the plant showed over a sweep, whatever the columns are called.
Seen(signal, v) == [k \in DOMAIN v |-> Response(plant, SweepCode(v[k]))[signal]]

\* A feature to lock on: one maximum and one minimum, no farther than peak_pts apart,
\* the signal strictly monotone from one to the other.
Dispersive(sig, peak_pts) ==
  LET top == ArgMax(sig)  low == ArgMin(sig)
      first == IF top < low THEN top ELSE low
      last == IF top < low THEN low ELSE top
  IN  /\ \A k \in DOMAIN sig : (sig[k] = sig[top] => k = top) /\ (sig[k] = sig[low] => k = low)
      /\ top /= low /\ last - first <= peak_pts
      /\ \A k \in first .. last - 1 : Sign(sig[k + 1] - sig[k]) = Sign(sig[last] - sig[first])

\* The PID reads the channel that was swept, drives DAC 1, and is enabled at setpoint
\* zero when an autolock reports a lock: none of its three commands may have been lost
\* or refused unnoticed (_autolock_bg).
LockEngaged ==
  Shows("autolock") =>
    /\ Routed(dev, [dac1 |-> "PID", dac2 |-> entry.dac2, pid_sel |-> ChanToPidSel[entry.chan]])
    /\ Selected(PidIn, dev.io.pid) = ChannelSignal[entry.chan]
    /\ dev.pid.en = 1 /\ dev.pid.sp = 0

\* Equal steps, the first of which is one.
Evenly(v) == \A k \in DOMAIN v : v[k] = v[1] + (k - 1) * (v[2] - v[1])

\* The device d rests on a feature at a point found: between the extremes, where the
\* signal is at least as steep as their chord and falls or rises as it does, with the
\* output at that voltage and the slope turned into CALIBRATION, to the last bit of the
\* gain, whose largest value is one short of EGAIN_LIMIT.
Rests(d, at, sig, v) ==
  LET top == ArgMax(sig)  low == ArgMin(sig)
      rise == (sig[top] - sig[low]) * Sign(v[top] - v[low])
      run == Size(v[top] - v[low])
      miss == Size(d.pid.egain * at.slope.n - 1024 * CALIBRATION * at.slope.d)
  IN  /\ at.v >= (IF v[top] < v[low] THEN v[top] ELSE v[low])
      /\ at.v <= (IF v[top] < v[low] THEN v[low] ELSE v[top])
      /\ Sign(at.slope.n) = Sign(rise) /\ Size(at.slope.n) * run >= Size(rise) * at.slope.d
      /\ Size(8191 - d.pid.bias - SweepCode(at.v)) <= 2
      /\ 2 * miss <= Size(at.slope.n) \/ (d.pid.egain = 32767 /\ miss <= Size(at.slope.n))

\* An autolock that reports a lock has engaged the PID on the channel that was swept, and
\* if the sweep went in equal steps over such a feature, the device rests on it
\* (_autolock_bg).  Over unequal steps the derivatives are weighted, and the steepest may
\* be less steep than the chord.
LocksOnFeature ==
  LET sig == Seen(ChannelSignal[entry.chan], data.v)
  IN  LockEngaged /\ (Shows("autolock") /\ Evenly(data.v) /\ Dispersive(sig, entry.peak_pts) =>
                        Rests(dev, shown.lock, sig, data.v))

\* The angle of compute_lockpoint turns the feeds so that the feature has its maximum
\* after its minimum (before, when inverted), whichever feed decides the sign; both
\* feeds carry the same signal, which has one maximum and one minimum.
AngleOrients ==
  Shows("lockpoint") =>
    LET i == Seen("i_feed_r", data.v)  q == Seen("q_feed_r", data.v)
        angle == shown.lockpoint.angle
        turned == [k \in DOMAIN i |-> angle[1] * i[k] + angle[2] * q[k]]
        top == ArgMax(turned)  low == ArgMin(turned)
    IN  (\A k \in DOMAIN i : (turned[k] = turned[top] => k = top) /\ (turned[k] = turned[low] => k = low)) =>
          (data.v[top] > data.v[low] <=> ~entry.invert)

\* When the error is the output turned round and k samples later, the lag of the
\* correlation peak that is reported as the delay of the loop is k.
DelayFound ==
  Shows("control_metrics") =>
    \A k \in 0 .. Len(data.trace.err) - 1 :
      (\A t \in DOMAIN data.trace.err :
         data.trace.err[t] = IF t > k THEN -data.trace.pid_out[t - k] ELSE 0) =>
      shown.metrics.ccf_peak_lag = k

====
