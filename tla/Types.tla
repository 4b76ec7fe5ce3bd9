---- MODULE Types ----
(***************************************************************************)
(* client/pdh_api/types.py: the enumerations that name what the registers  *)
(* hold, the labels of the columns of a file, and the fields of the result *)
(* of every call.  What they mirror, the selections of pdh_core.sv and the *)
(* rows of control.c, is in Columns and in Client.                         *)
(***************************************************************************)
EXTENDS Integers, Sequences

FrameCode ==
  [ADC_DATA_IN |-> 0, PID_ERR_TAPS |-> 1, IO_SUM_ERR |-> 2, OSC_INSPECT |-> 3,
   OSC_ADDR_CHECK |-> 4, LOOPBACK |-> 5, FIR_IO |-> 6, PID_IO |-> 7, CAPTURE_DEMOD |-> 8]

FirInputSel ==
  [ADC1 |-> 0, ADC2 |-> 1, I_FEED |-> 2, Q_FEED |-> 3, IQ_DEMOD_OUT |-> 4, IQ_DEMOD_LPF |-> 5]

DacSel == [DAC_1 |-> 0, DAC_2 |-> 1]

DacDatSel == [REGISTER |-> 0, PID |-> 1, NCO_1 |-> 2, NCO_2 |-> 3]

PidDatSel ==
  [I_FEED |-> 0, Q_FEED |-> 1, ADC_A |-> 2, ADC_B |-> 3, FIR_OUT |-> 4,
   IQ_DEMOD_OUT |-> 5, IQ_DEMOD_LPF |-> 6]

DemodRefSel == [NCO1 |-> 0, NCO2 |-> 1]

DemodInSel ==
  [NCO1 |-> 0, NCO2 |-> 1, ADC_A |-> 2, ADC_B |-> 3, I_FEED |-> 4, Q_FEED |-> 5, FIR_OUT |-> 6]

CsSel == [ADC_A |-> 0, ADC_B |-> 1, I_FEED |-> 6, Q_FEED |-> 7, DEMOD_LPF |-> 9, IO |-> 16]

\* The member of an enumeration with a value; a value with none raises.
Valued(enum, n) == \E name \in DOMAIN enum : enum[name] = n
NameOf(enum, n) == CHOOSE name \in DOMAIN enum : enum[name] = n

----------------------------------------------------------------------------
(* The label of every column of a frame, and of a sweep. *)

FRAME_COLUMNS ==
  [ADC_DATA_IN    |-> <<"adc_a", "adc_b", "i_feed", "q_feed">>,
   PID_ERR_TAPS   |-> <<"err", "perr", "derr", "ierr">>,
   IO_SUM_ERR     |-> <<"err", "pid_out", "sum_err">>,
   OSC_INSPECT    |-> <<"nco_out1", "nco_out2", "nco_feed1", "nco_feed2">>,
   OSC_ADDR_CHECK |-> <<"phi1", "phi2", "addr1", "addr2">>,
   LOOPBACK       |-> <<"dac1_feed", "dac2_feed", "adc_a", "adc_b">>,
   FIR_IO         |-> <<"fir_in", "fir_out">>,
   PID_IO         |-> <<"pid_in", "err", "pid_out">>,
   CAPTURE_DEMOD  |-> <<"demod_in", "demod_ref", "demod_out", "demod_lpf">>]

SWEEP_COLUMNS == <<"dac_v", "adc_a", "adc_b", "i_feed", "q_feed">>
SWEEP_DEMOD_COLUMNS == <<"dac_v", "demod_lpf">>

----------------------------------------------------------------------------
(* Fields of the results. *)

ResetResult == {"status", "rst_raw_cb"}
SetLedResult == {"status", "led_code_cb", "cmd_cb"}
AdcResult == {"status", "in1_code", "in2_code", "in1_v", "in2_v"}
SetDacResult == {"status", "dac1_code_cb", "dac2_code_cb"}
CheckSignedResult == {"status", "reg_sel_cb", "reg_value_cb"}
SetRotResult == {"status", "cos_cb", "sin_cb", "i_feed_cb", "q_feed_cb"}
SetPidResult ==
  {"status", "kp_cb", "kd_cb", "ki_cb", "dec_cb", "sp_cb", "alpha_cb", "sat_cb", "en_cb",
   "gain_cb", "bias_cb", "egain_cb"}
SetNcoResult ==
  {"status", "stride_cb", "shift_cb", "sub_cb", "inv_cb", "en_cb", "registered_freq",
   "registered_freq_error", "registered_phase_shift", "registered_shift_error"}
ConfigIoResult == {"status", "dac1_dat_sel_cb", "dac2_dat_sel_cb", "pid_dat_sel_cb"}
ConfigDemodResult == {"status", "ref_sel_cb", "in_sel_cb", "lpf_alpha_cb"}
FrameResult == {"status", "dma_engaged", "decimation_cb", "frame_code_cb", "data", "columns"}
SweepRampResult == {"status", "num_points_cb", "data", "columns"}
SetFirResult == {"status", "input_sel_cb", "mem_wen_en_cb", "mem_wen_dis_cb", "chain_wen_cb"}

====
