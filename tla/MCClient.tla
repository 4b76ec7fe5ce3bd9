---- MODULE MCClient ----
(* Entries and plants for Client: a sweep of 8 points, 8/8192 V apart. *)
EXTENDS Client

By(who, entries) == {[by |-> who] @@ e : e \in entries}

Pids ==
  {[kp |-> 3, ki |-> 5, kd |-> 7, sp |-> 100, gain |-> 512, bias |-> -20, egain |-> 256, dec |-> 2, alpha |-> 3, sat |-> 20, en |-> 1],
   [kp |-> -32768, ki |-> 32767, kd |-> 0, sp |-> -8192, gain |-> 1024, bias |-> 8191, egain |-> -1024, dec |-> 16383, alpha |-> 15, sat |-> 31, en |-> 0],
   [kp |-> 32768, ki |-> 0, kd |-> 0, sp |-> 8192, gain |-> 0, bias |-> 8192, egain |-> 0, dec |-> 16384, alpha |-> 16, sat |-> 32, en |-> 1]}
APid == CHOOSE p \in Pids : p.kp = 3

Settings ==
  {[op |-> "set_led", value |-> v] : v \in {-1, 255, 256}}
  \cup {[op |-> "set_dac", dac |-> d, value |-> v] : d \in DOMAIN DacSel, v \in {-16384, -16383, 1, 16383}}
  \cup {[op |-> "set_nco", freq |-> f, shift |-> s, en |-> 1] :
          f \in {0, 1000, 7817}, s \in {-180, -179, -91, -90, -1, 0, 30, 89, 90, 179, 180}}
  \cup {[op |-> "set_rotation", angle |-> a] : a \in {-181, 90}}
  \cup {[op |-> "config_demod", ref |-> r, in |-> i, alpha |-> a] : r \in DOMAIN DemodRefSel, i \in DOMAIN DemodInSel, a \in {0, 16}}
  \cup {[op |-> "set_fir", sel |-> s, coeffs |-> c, width |-> 5] :
          s \in DOMAIN FirInputSel, c \in {<<3, -32767>>, <<32768, 0>>, <<32769, 0>>, <<5>>, <<1, 2, 3>>}}
  \cup {[op |-> "set_pid", pid |-> p] : p \in Pids}
  \cup {[op |-> "config_io", dac1 |-> a, dac2 |-> b, pid_sel |-> p] :
          a \in DOMAIN DacDatSel, b \in {"REGISTER", "NCO_2"}, p \in {"Q_FEED", "FIR_OUT", "IQ_DEMOD_LPF"}}
  \cup {[op |-> "config_io", dac1 |-> "REGISTER", dac2 |-> "PID", pid_sel |-> p] : p \in DOMAIN PidDatSel}
  \cup {[op |-> "reset_fpga"], [op |-> "get_adc"]}

Frames ==
  {[op |-> "get_frame", code |-> c, dec |-> 1] : c \in DOMAIN FrameCode}
  \cup {[op |-> "get_frame", code |-> "FIR_IO", dec |-> d] : d \in {0, 38147, 2 ^ 22}}
  \cup {[op |-> "psd", code |-> c, dec |-> 1, fstart |-> 0, fstop |-> 1, cols |-> <<FRAME_COLUMNS[c][2], FRAME_COLUMNS[c][1]>>] :
          c \in DOMAIN FrameCode}
  \cup {[op |-> "control_metrics", code |-> "PID_IO", dec |-> 1]}

Range8 == [v0 |-> -32, v1 |-> 32, pts |-> 8, delay |-> 0]
Ramps ==
  {[op |-> "sweep_ramp", dac |-> d, mode |-> m, cols |-> IF m = 0 THEN <<"q_feed", "adc_a", "i_feed", "adc_b">> ELSE <<"demod_lpf">>] @@ r :
     d \in DOMAIN DacSel, m \in {0, 1}, r \in {Range8, [Range8 EXCEPT !.v0 = 32, !.v1 = -32]}}
  \cup {[op |-> "sweep_ramp", dac |-> "DAC_1", mode |-> 0, cols |-> <<"adc_a">>] @@ r :
     r \in {[Range8 EXCEPT !.v1 = 8200], [Range8 EXCEPT !.pts = 1], [Range8 EXCEPT !.delay = -5], [Range8 EXCEPT !.delay = 625000]}}
Locks ==
  {[op |-> "autolock", dac |-> "DAC_1", mode |-> 0, chan |-> c, peak_pts |-> p, dac2 |-> "NCO_1", pid |-> APid] @@ r :
     c \in Channels, p \in {2, 4}, r \in {Range8, [Range8 EXCEPT !.v0 = 32, !.v1 = -32], [Range8 EXCEPT !.v1 = -32]}}
  \cup {[op |-> "autolock", dac |-> "DAC_1", mode |-> 0, chan |-> "adc_a", peak_pts |-> 4, dac2 |-> "NCO_1", pid |-> APid]
          @@ [Range8 EXCEPT !.v1 = 28]}
  \cup {[op |-> "lockpoint", dac |-> "DAC_1", mode |-> 0, sign_sel |-> s, invert |-> i, window |-> w] @@ r :
     s \in {"I", "Q"}, i \in BOOLEAN, w \in {1, 3}, r \in {Range8, [Range8 EXCEPT !.v0 = 32, !.v1 = -32]}}

MCEntries ==
  By("gui", Settings \cup Frames \cup {e \in Ramps \cup Locks : e.op /= "lockpoint"})
  \cup By("script", {e \in Settings : e.op \notin {"config_io", "set_nco", "reset_fpga"}} \cup {e \in Locks : e.op = "lockpoint"}
                    \cup {[op |-> "check_signed", sel |-> s] : s \in DOMAIN CsSel}
                    \cup {[op |-> "set_nco", freq |-> f, shift |-> -30, en |-> 1] : f \in {-1000, 1000}}
                    \cup {[op |-> "set_fir", sel |-> "ADC2", coeffs |-> [k \in 1 .. 9 |-> k], width |-> 5],
                          [op |-> "set_fir", sel |-> "ADC2", coeffs |-> <<7, 8>>, width |-> 30]})

\* Signals over the codes of DAC 1, and the ratio of the feeds.
MCPlants ==
  {[a |-> <<0, 40, 100, 33, -33, -100, -40, 0>>, b |-> <<0, -40, -100, -33, 33, 100, 40, 0>>,
    x |-> <<0, 10, 25, 8, -8, -25, -10, 0>>, q |-> 3],
   [a |-> <<0, 75, 100, 50, 0, -50, -100, 0>>, b |-> <<50, 60, 120, 90, 20, -10, 40, 50>>,
    x |-> <<0, -20, -25, -12, 0, 12, 25, 0>>, q |-> -3],
   [a |-> <<0, 2, 4, 1, -1, -4, -2, 0>>, b |-> <<0, 0, 10, 100, 10, 0, 0, 0>>,
    x |-> <<0, 0, 0, 0, 0, 0, 0, 0>>, q |-> 3]}

MCResponse(p, code) ==
  LET k == Clamp((8192 - code + 32) \div 8, 0, 7) + 1
  IN  [adc_dat_a_16s_r |-> p.a[k], adc_dat_b_16s_r |-> p.b[k], i_feed_r |-> 4 * p.x[k], q_feed_r |-> p.q * p.x[k],
       demod_lpf_r |-> p.b[k]]

\* The answer of the loop to a pulse, one and three samples later, and none.
MCTraces ==
  {[pid_out |-> <<0, 9, 0, 0, 0, 0>>, err |-> <<0, 0, -9, 0, 0, 0>>],
   [pid_out |-> <<0, 9, 0, 0, 0, 0>>, err |-> <<0, 0, 0, 0, -9, 0>>],
   [pid_out |-> <<9, 0, 0, 5, 0, 0>>, err |-> <<0, 0, -9, 0, 0, -5>>],
   [pid_out |-> <<0, 9, 0, 0, 0, 0>>, err |-> <<1, 2, 3, 2, 1, 0>>]}

====
