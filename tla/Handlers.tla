---- MODULE Handlers ----
(***************************************************************************)
(* What a request does to the device: load_context and dispatch_command of *)
(* core/sw/server.c and the handlers of control.c, from the numbers of a   *)
(* request to the registers of pdh_core.sv they leave.  A handler is an    *)
(* operator: it gives the set of its outcomes, each the registers, the     *)
(* status, the values pushed for the client and the file written, if any.  *)
(* The words that carry a command, one register at a time, are the subject *)
(* of CommandPort, FirLoad and PidCore.                                    *)
(*                                                                         *)
(* Numbers are integers in the unit of what they become: a DAC value in    *)
(* 1/16383 V, a swept voltage in 1/8192 V, a gain or a setpoint in the     *)
(* last bit of its register, an angle in degrees, a frequency in kHz.      *)
(***************************************************************************)
EXTENDS Columns

CONSTANTS
  MAX_BYTES,         \* 1024: what the server reads of a request
  FLOAT_ARGS,        \* 64: floats it keeps
  NTAPS,             \* 32: taps of the filter
  Response(_, _),    \* the signals under a plant at a code of DAC 1
  Traces             \* what PID_IO frames may show: [err |-> , pid_out |-> ]

\* The floats of set_pid and of set_fir are kept, and every request of fixed length.
ASSUME HandlersAssumption ==
  /\ {MAX_BYTES, FLOAT_ARGS, NTAPS} \subseteq Nat \ {0}
  /\ MAX_BYTES >= 64 /\ FLOAT_ARGS >= 7 /\ FLOAT_ARGS >= NTAPS

Clamp(x, low, high) == IF x < low THEN low ELSE IF x > high THEN high ELSE x
Between(x, low, high) == low <= x /\ x <= high
Size(x) == IF x < 0 THEN -x ELSE x

\* lrintf: to the nearest integer, to the even one of two.
HalfEven(n, d) ==
  LET q == n \div d  r == n % d
  IN  IF 2 * r < d \/ (2 * r = d /\ q % 2 = 0) THEN q ELSE q + 1

Huge == 2147483647
Unsigned(x) == IF x < 0 THEN Huge ELSE x       \* strtoul of a negative number

\* A quantity that no argument gives is zero (memset of ctx).
Arg(args, k) == IF k <= Len(args) THEN args[k] ELSE 0

----------------------------------------------------------------------------
(* The registers after reset. *)

ResetDevice ==
  [led |-> 0, dac |-> [DAC_1 |-> 8192, DAC_2 |-> 8192], rotation |-> 0,
   nco |-> [stride |-> 1, shift |-> 0, sub |-> 0, inv |-> 0, en |-> 0],
   pid |-> [kp |-> 0, kd |-> 0, ki |-> 0, dec |-> 1, sp |-> 0, alpha |-> 4, sat |-> 31, en |-> 0,
            gain |-> 1024, bias |-> 0, egain |-> 1024],
   fir |-> [sel |-> 0, taps |-> [k \in 1 .. NTAPS |-> 0]],
   io |-> [dac1 |-> 0, dac2 |-> 0, pid |-> 0],
   demod |-> [ref |-> 0, in |-> 0, alpha |-> 8]]

\* The multiplexers behind the selections.
DacFeed == <<"dac_dat_r", "pid_out_w", "nco_feed1_r", "nco_feed2_r">>
PidIn == <<"i_feed_r", "q_feed_r", "adc_dat_a_16s_r", "adc_dat_b_16s_r", "fir_out_w", "demod_out_w", "demod_lpf_r">>
FirIn == <<"adc_dat_a_16s_r", "adc_dat_b_16s_r", "i_feed_r", "q_feed_r", "demod_out_w", "demod_lpf_r">>
DemodRef == <<"nco_out1_r", "nco_out2_r">>
DemodIn == <<"nco_out1_r", "nco_out2_r", "adc_dat_a_16s_r", "adc_dat_b_16s_r", "i_feed_r", "q_feed_r", "fir_out_w">>
CheckSigned ==
  <<"adc_dat_a_16s_r", "adc_dat_b_16s_r", "cos_theta_r", "sin_theta_r", "rot_cos_theta_r", "rot_sin_theta_r",
    "i_feed_r", "q_feed_r", "dma_ready_3ff", "demod_lpf_r", "kp_r", "kd_r", "ki_r", "dec_r", "sp_r",
    "pid_status", "io_status", "dac1_dat_sel_r", "dac2_dat_sel_r", "pid_sel_r">>
Selected(mux, n) == IF n < Len(mux) THEN mux[n + 1] ELSE Zeros

----------------------------------------------------------------------------
(* Outcomes. *)

NoOutput == [none |-> 0]
NoFile == [name |-> "none", signals |-> <<>>]
Outcome(dev, status, out) == [dev |-> dev, status |-> status, out |-> out, file |-> NoFile]
Ok(dev, out) == {Outcome(dev, 0, out)}
Refused(dev) == {Outcome(dev, 1, NoOutput)}
Checked(dev, valid, out) == {Outcome(dev, IF valid THEN 0 ELSE 1, out)}

cmd_reset_fpga(dev, f, u) == Ok(ResetDevice, [rst_raw_cb |-> 0])

cmd_set_led(dev, f, u) ==
  IF Unsigned(Arg(u, 1)) > 255 THEN Refused(dev)
  ELSE Ok([dev EXCEPT !.led = Arg(u, 1)], [led_code_cb |-> Arg(u, 1), cmd_cb |-> "led"])

\* Codes fall as voltages rise.
cmd_get_adc(dev, f, u) ==
  Ok(dev, [in1_code |-> "adc_dat_a_i", in2_code |-> "adc_dat_b_i", in1_v |-> "adc_dat_a_i", in2_v |-> "adc_dat_b_i"])

cmd_check_signed(dev, f, u) ==
  LET sel == Unsigned(Arg(u, 1)) % 32
  IN  Checked(dev, sel = Arg(u, 1), [reg_sel_cb |-> sel, reg_value_cb |-> Selected(CheckSigned, sel)])

cmd_set_dac(dev, f, u) ==
  LET code == HalfEven(16383 - Clamp(Arg(f, 1), -16383, 16383), 2)
      dac == [dev.dac EXCEPT ![IF Arg(u, 1) = 0 THEN "DAC_1" ELSE "DAC_2"] = code]
  IN  Ok([dev EXCEPT !.dac = dac], [dac1_code_cb |-> dac.DAC_1, dac2_code_cb |-> dac.DAC_2])

\* Sine and cosine are named by the angle.
cmd_set_rot(dev, f, u) ==
  LET angle == Clamp(Arg(f, 1), -180, 180)
  IN  Ok([dev EXCEPT !.rotation = angle],
         [cos_cb |-> <<"cos", angle>>, sin_cb |-> <<"sin", angle>>, i_feed_cb |-> "i_feed_r", q_feed_cb |-> "q_feed_r"])

\* The shift as the NCO takes it: within a quarter turn, with the two signs that
\* bring it there.  At 90 degrees the float lies above M_PI_2.
Quarter(shift) ==
  LET turn == IF -shift < 0 THEN 360 - shift ELSE -shift
      half == IF turn > 180 THEN turn - 180 ELSE turn
      inv == (turn > 180) /= (half >= 90)
  IN  [shift |-> HalfEven(91 * (IF half >= 90 THEN 180 - half ELSE half), 2),
       sub |-> IF half >= 90 THEN 1 ELSE 0, inv |-> IF inv THEN 1 ELSE 0]

\* What nco.sv makes of them: by how much the second output leads the first, in
\* 1/91 degree (shift_r counts 4095 to the quarter).
Lead(nco) == (IF nco.sub = 1 THEN -2 ELSE 2) * nco.shift + (IF nco.inv = 1 THEN 180 * 91 ELSE 0)

\* The shift reported, in 1/91 degree.
Registered(nco) ==
  LET signed == (IF nco.sub = 1 THEN -2 ELSE 2) * nco.shift + (IF nco.inv = 1 THEN 180 * 91 ELSE 0)
  IN  IF signed > 180 * 91 THEN 360 * 91 - signed ELSE -signed

\* The float of 180 degrees lies above M_PI: both ends of the range are refused.
cmd_set_nco(dev, f, u) ==
  LET stride == HalfEven(Size(Arg(f, 1)) * 2048, 15625)
      turn == Quarter(Arg(f, 2))
      nco == [stride |-> stride, shift |-> turn.shift, sub |-> turn.sub, inv |-> turn.inv, en |-> Unsigned(Arg(u, 1)) % 2]
  IN  IF ~Between(stride, 1, 1024) \/ Size(Arg(f, 2)) >= 180 THEN Refused(dev)
      ELSE Checked([dev EXCEPT !.nco = nco], nco.en = Arg(u, 1),
             [stride_cb |-> stride, shift_cb |-> nco.shift, sub_cb |-> nco.sub, inv_cb |-> nco.inv, en_cb |-> nco.en,
              registered_freq |-> stride, registered_freq_error |-> Arg(f, 1),
              registered_phase_shift |-> Registered(nco), registered_shift_error |-> 91 * Arg(f, 2) - Registered(nco)])

Q16(x) == Clamp(x, -32768, 32767)

cmd_set_pid(dev, f, u) ==
  LET pid == [kp |-> Q16(Arg(f, 1)), kd |-> Q16(Arg(f, 2)), ki |-> Q16(Arg(f, 3)),
              sp |-> Clamp(Arg(f, 4), -8192, 8191), gain |-> Q16(Arg(f, 5)),
              bias |-> Clamp(Arg(f, 6), -8191, 8191), egain |-> Q16(Arg(f, 7)),
              dec |-> Clamp(Unsigned(Arg(u, 1)), 0, 16383), alpha |-> Clamp(Unsigned(Arg(u, 2)), 0, 15),
              sat |-> Clamp(Unsigned(Arg(u, 3)), 0, 31), en |-> Unsigned(Arg(u, 4)) % 2]
  IN  Checked([dev EXCEPT !.pid = pid], pid.en = Arg(u, 4),
        [kp_cb |-> pid.kp, kd_cb |-> pid.kd, ki_cb |-> pid.ki, dec_cb |-> pid.dec, sp_cb |-> pid.sp,
         alpha_cb |-> pid.alpha, sat_cb |-> pid.sat, en_cb |-> pid.en, gain_cb |-> pid.gain,
         bias_cb |-> pid.bias, egain_cb |-> pid.egain])

\* The address register wraps: of a list longer than the memory a tap keeps the last
\* coefficient that came its way.
LastOf(f, k) == CHOOSE j \in DOMAIN f : j % NTAPS = k % NTAPS /\ \A i \in DOMAIN f : i % NTAPS = k % NTAPS => i <= j

\* Coefficients in 1/32768.  A longer list is refused when all of it has been written.
cmd_set_fir(dev, f, u) ==
  LET sel == Unsigned(Arg(u, 1))
      taps == [k \in 1 .. NTAPS |-> IF k <= Len(f) THEN Q16(f[LastOf(f, k)]) ELSE dev.fir.taps[k]]
  IN  IF sel > 3 \/ \E k \in DOMAIN f : Size(f[k]) > 32768 THEN Refused(dev)
      ELSE Checked([dev EXCEPT !.fir = [sel |-> sel, taps |-> taps]], Len(f) <= NTAPS,
             [input_sel_cb |-> sel, mem_wen_en_cb |-> 1, mem_wen_dis_cb |-> 0, chain_wen_cb |-> 1])

\* The word is not cleared first: its reset bit may come set, which resets the FPGA
\* and is noticed.
cmd_config_io(dev, f, u) ==
  LET io == [dac1 |-> Unsigned(Arg(u, 1)), dac2 |-> Unsigned(Arg(u, 2)), pid |-> Unsigned(Arg(u, 3))]
  IN  IF io.dac1 > 3 \/ io.dac2 > 3 \/ io.pid > 6 THEN Refused(dev)
      ELSE Ok([dev EXCEPT !.io = io],
              [dac1_dat_sel_cb |-> io.dac1, dac2_dat_sel_cb |-> io.dac2, pid_dat_sel_cb |-> io.pid])
           \cup Refused(ResetDevice)

cmd_config_demod(dev, f, u) ==
  LET demod == [ref |-> Unsigned(Arg(u, 1)), in |-> Unsigned(Arg(u, 2)), alpha |-> Unsigned(Arg(u, 3)) % 16]
  IN  IF demod.ref > 1 \/ demod.in > 6 THEN Refused(dev)
      ELSE Ok([dev EXCEPT !.demod = demod],
              [ref_sel_cb |-> demod.ref, in_sel_cb |-> demod.in, lpf_alpha_cb |-> demod.alpha])

\* dma_log.csv is emptied before the callback is judged.
cmd_get_frame(dev, f, u) ==
  LET asked == IF Unsigned(Arg(u, 1)) < 1 THEN 1 ELSE Unsigned(Arg(u, 1))
      held == asked % (2 ^ 22)
      code == Unsigned(Arg(u, 2))
      valid == held = asked /\ code < 16
      out == [dma_engaged |-> 1, decimation_cb |-> held, frame_code_cb |-> code % 16]
  IN  {[dev |-> dev, status |-> IF valid THEN 0 ELSE 1, out |-> out,
        file |-> [name |-> "dma_log", signals |-> IF valid THEN FrameRow(FrameOf(code)) ELSE <<>>, trace |-> t]] : t \in Traces}

----------------------------------------------------------------------------
(* cmd_sweep_ramp.  Only DAC 1 is given to the register: the plant sees a  *)
(* sweep of DAC 2 only through what DAC 1 puts out meanwhile.              *)

\* v * 8192 cut off at the point, and the output turned round.
SweepCode(v) == Clamp(8192 - v, 0, 16383)

Steps(f, u) == [k \in 1 .. u[1] |-> f[1] + ((k - 1) * (f[2] - f[1])) \div u[1]]

Ramp(dev, plant, f, u) ==
  LET dac == IF Arg(u, 2) % 2 = 0 THEN "DAC_1" ELSE "DAC_2"
      v == Steps(f, u)
      at(k) == [dev EXCEPT !.dac[dac] = SweepCode(v[k])]
      signal(k) == Response(plant, at(k).dac.DAC_1)
      demod == Arg(u, 4)
      names == {"adc_dat_a_16s_r", "adc_dat_b_16s_r", "i_feed_r", "q_feed_r", "demod_lpf_r"}
  IN  [name |-> "sweep_log", signals |-> SweepRow(demod), v |-> v,
       values |-> [name \in names |-> [k \in DOMAIN v |-> signal(k)[name]]], dac |-> dac]

\* Mutant: the routing is left as the sweep needs it.
SweepRampLeaves(dev, plant, f, u) ==
  LET forced == [dev EXCEPT !.io.dac1 = 0]
      file == Ramp(forced, plant, f, u)
  IN  IF Size(Arg(f, 1)) > 8192 \/ Size(Arg(f, 2)) > 8192 \/ ~Between(Unsigned(Arg(u, 1)), 2, 16384) THEN Refused(dev)
      ELSE {[dev |-> [forced EXCEPT !.dac[file.dac] = SweepCode(file.v[u[1]])],
             status |-> 0, out |-> [num_points_cb |-> u[1]], file |-> file]}

\* DAC 1 is given to the register and back to what it showed; not when the file
\* cannot be opened.
cmd_sweep_ramp(dev, plant, f, u) ==
  LET forced == [dev EXCEPT !.io.dac1 = 0]
      file == Ramp(forced, plant, f, u)
  IN  IF Size(Arg(f, 1)) > 8192 \/ Size(Arg(f, 2)) > 8192 \/ ~Between(Unsigned(Arg(u, 1)), 2, 16384) THEN Refused(dev)
      ELSE {[dev |-> [dev EXCEPT !.dac[file.dac] = SweepCode(file.v[u[1]])],
             status |-> 0, out |-> [num_points_cb |-> u[1]], file |-> file]} \cup Refused(forced)

----------------------------------------------------------------------------
(* server.c.  A request is [cmd, F, U, bytes]. *)

\* gCmds: the arguments each command needs.
Required ==
  [set_led |-> <<0, 1>>, reset_fpga |-> <<0, 0>>, set_dac |-> <<1, 1>>, get_adc |-> <<0, 0>>, check_signed |-> <<0, 1>>,
   set_rotation |-> <<1, 0>>, get_frame |-> <<0, 2>>, set_pid |-> <<4, 4>>, set_fir |-> <<0, 1>>, set_nco |-> <<2, 1>>,
   config_io |-> <<0, 3>>, config_demod |-> <<0, 3>>, sweep_ramp |-> <<2, 4>>]

Execute(dev, plant, cmd, f, u) ==
  CASE cmd = "set_led"      -> cmd_set_led(dev, f, u)
    [] cmd = "reset_fpga"   -> cmd_reset_fpga(dev, f, u)
    [] cmd = "set_dac"      -> cmd_set_dac(dev, f, u)
    [] cmd = "get_adc"      -> cmd_get_adc(dev, f, u)
    [] cmd = "check_signed" -> cmd_check_signed(dev, f, u)
    [] cmd = "set_rotation" -> cmd_set_rot(dev, f, u)
    [] cmd = "get_frame"    -> cmd_get_frame(dev, f, u)
    [] cmd = "set_pid"      -> cmd_set_pid(dev, f, u)
    [] cmd = "set_fir"      -> cmd_set_fir(dev, f, u)
    [] cmd = "set_nco"      -> cmd_set_nco(dev, f, u)
    [] cmd = "config_io"    -> cmd_config_io(dev, f, u)
    [] cmd = "config_demod" -> cmd_config_demod(dev, f, u)
    [] cmd = "sweep_ramp"   -> cmd_sweep_ramp(dev, plant, f, u)

\* The U line comes last: a request longer than the buffer loses it.  With an
\* argument missing no handler runs, and the status sent is the zero it began with.
Handle(dev, plant, request) ==
  LET f == SubSeq(request.F, 1, IF Len(request.F) < FLOAT_ARGS THEN Len(request.F) ELSE FLOAT_ARGS)
      u == IF request.bytes <= MAX_BYTES THEN request.U ELSE <<>>
  IN  IF Len(f) < Required[request.cmd][1] \/ Len(u) < Required[request.cmd][2] THEN Ok(dev, NoOutput)
      ELSE Execute(dev, plant, request.cmd, f, u)

====
