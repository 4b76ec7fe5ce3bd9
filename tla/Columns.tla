---- MODULE Columns ----
(***************************************************************************)
(* From the registers of the FPGA to the columns of dma_log.csv: the word  *)
(* pdh_core.sv packs for a frame code, the structure hw_common.h lays over *)
(* it, and the fields cmd_get_frame prints (control.c).  Words and         *)
(* structures are sequences of <<name, bits>> from bit 0 upwards; Zeros    *)
(* names bits that hold nothing.                                           *)
(***************************************************************************)
EXTENDS Types, SequencesExt

Zeros == "zeros"

\* dma_data_w
Packed ==
  [ADC_DATA_IN    |-> <<<<"adc_dat_b_16s_r", 16>>, <<"adc_dat_a_16s_r", 16>>, <<"q_feed_r", 16>>, <<"i_feed_r", 16>>>>,
   PID_ERR_TAPS   |-> <<<<"ierr_tap_w", 16>>, <<"derr_tap_w", 16>>, <<"perr_tap_w", 16>>, <<"err_tap_w", 16>>>>,
   IO_SUM_ERR     |-> <<<<"sum_err_tap_w", 32>>, <<"pid_out_w", 14>>, <<Zeros, 2>>, <<"err_tap_w", 16>>>>,
   OSC_INSPECT    |-> <<<<"nco_out1_r", 16>>, <<"nco_out2_r", 16>>, <<"nco_feed1_r", 14>>, <<Zeros, 2>>, <<"nco_feed2_r", 14>>, <<Zeros, 2>>>>,
   OSC_ADDR_CHECK |-> <<<<"phi1_w", 14>>, <<Zeros, 2>>, <<"phi2_w", 14>>, <<Zeros, 2>>, <<"addr1_w", 12>>, <<Zeros, 4>>, <<"addr2_w", 12>>, <<Zeros, 4>>>>,
   LOOPBACK       |-> <<<<"adc_dat_b_i", 14>>, <<Zeros, 2>>, <<"adc_dat_a_i", 14>>, <<Zeros, 2>>, <<"dac2_feed_w", 14>>, <<Zeros, 2>>, <<"dac1_feed_w", 14>>, <<Zeros, 2>>>>,
   FIR_IO         |-> <<<<"fir_in_w", 16>>, <<"fir_out_w", 16>>, <<Zeros, 32>>>>,
   PID_IO         |-> <<<<"pid_in_w", 16>>, <<"err_tap_w", 16>>, <<"pid_out_w", 14>>, <<Zeros, 18>>>>,
   CAPTURE_DEMOD  |-> <<<<"demod_in_w", 16>>, <<"demod_ref_w", 16>>, <<"demod_out_w", 16>>, <<"demod_lpf_r", 16>>>>]

\* dma_frame_t
Layout ==
  [ADC_DATA_IN    |-> <<<<"adc_dat_b_16s", 16>>, <<"adc_dat_a_16s", 16>>, <<"q_feed_w", 16>>, <<"i_feed_w", 16>>>>,
   PID_ERR_TAPS   |-> <<<<"ierr_tap_w", 16>>, <<"derr_tap_w", 16>>, <<"perr_tap_w", 16>>, <<"err_tap_w", 16>>>>,
   IO_SUM_ERR     |-> <<<<"sum_err_tap_w", 32>>, <<"pid_out_w", 14>>, <<Zeros, 2>>, <<"err_tap_w", 16>>>>,
   OSC_INSPECT    |-> <<<<"nco_out1_r", 16>>, <<"nco_out2_r", 16>>, <<"nco_feed1_r", 16>>, <<"nco_feed2_r", 16>>>>,
   OSC_ADDR_CHECK |-> <<<<"phi1_w", 16>>, <<"phi2_w", 16>>, <<"addr1_r", 16>>, <<"addr2_r", 16>>>>,
   LOOPBACK       |-> <<<<"adc_dat_b_i", 16>>, <<"adc_dat_a_i", 16>>, <<"dac2_feed_w", 16>>, <<"dac1_feed_w", 16>>>>,
   FIR_IO         |-> <<<<"fir_in_w", 16>>, <<"fir_out_w", 16>>, <<Zeros, 32>>>>,
   PID_IO         |-> <<<<"pid_in", 16>>, <<"err", 16>>, <<"pid_out", 16>>, <<Zeros, 16>>>>,
   CAPTURE_DEMOD  |-> <<<<"demod_in", 16>>, <<"demod_ref", 16>>, <<"demod_out", 16>>, <<"demod_lpf", 16>>>>]

\* The fields of a row, in the order they are printed.
Printed ==
  [ADC_DATA_IN    |-> <<"adc_dat_a_16s", "adc_dat_b_16s", "i_feed_w", "q_feed_w">>,
   PID_ERR_TAPS   |-> <<"err_tap_w", "perr_tap_w", "derr_tap_w", "ierr_tap_w">>,
   IO_SUM_ERR     |-> <<"err_tap_w", "pid_out_w", "sum_err_tap_w">>,
   OSC_INSPECT    |-> <<"nco_out1_r", "nco_out2_r", "nco_feed1_r", "nco_feed2_r">>,
   OSC_ADDR_CHECK |-> <<"phi1_w", "phi2_w", "addr1_r", "addr2_r">>,
   LOOPBACK       |-> <<"dac1_feed_w", "dac2_feed_w", "adc_dat_a_i", "adc_dat_b_i">>,
   FIR_IO         |-> <<"fir_in_w", "fir_out_w">>,
   PID_IO         |-> <<"pid_in", "err", "pid_out">>,
   CAPTURE_DEMOD  |-> <<"demod_in", "demod_ref", "demod_out", "demod_lpf">>]

----------------------------------------------------------------------------

\* The bits of the k-th part of a word, as <<first, after the last>>.
Span(parts, k) ==
  LET before == FoldLeft(LAMBDA sum, part : sum + part[2], 0, SubSeq(parts, 1, k - 1))
  IN  <<before, before + parts[k][2]>>

\* The bits the structure gives to a field.
FieldSpan(code, field) ==
  Span(Layout[code], CHOOSE k \in DOMAIN Layout[code] : Layout[code][k][1] = field)

\* The signals that have bits in a field.
Within(code, field) ==
  {Packed[code][k][1] : k \in {j \in DOMAIN Packed[code] :
     LET s == Span(Packed[code], j)  f == FieldSpan(code, field)
     IN  Packed[code][j][1] /= Zeros /\ s[1] < f[2] /\ f[1] < s[2]}}

\* A signal is whole in a field when it begins with it and ends in it.
Whole(code, field, signal) ==
  \E k \in DOMAIN Packed[code] :
    /\ Packed[code][k][1] = signal
    /\ Span(Packed[code], k)[1] = FieldSpan(code, field)[1]
    /\ Span(Packed[code], k)[2] <= FieldSpan(code, field)[2]

\* What a printed number is: a signal, or a mixture of bits.
Mixture == "mixture"
Holds(code, field) ==
  IF \E s \in Within(code, field) : Within(code, field) = {s} /\ Whole(code, field, s)
  THEN CHOOSE s \in Within(code, field) : TRUE ELSE Mixture

\* The signals of the columns of dma_log.csv.
FrameRow(code) == [k \in DOMAIN Printed[code] |-> Holds(code, Printed[code][k])]

\* Mutant: the feeds are printed in the other order.
SweepRowCrossed(demod_mode) ==
  IF demod_mode /= 0 THEN <<"v", "demod_lpf_r">>
  ELSE <<"v", "adc_dat_a_16s_r", "adc_dat_b_16s_r", "q_feed_r", "i_feed_r">>

\* The signals behind the columns of sweep_log.csv (cs_cb_w of pdh_core.sv).
SweepRow(demod_mode) ==
  IF demod_mode /= 0 THEN <<"v", "demod_lpf_r">>
  ELSE <<"v", "adc_dat_a_16s_r", "adc_dat_b_16s_r", "i_feed_r", "q_feed_r">>

\* The default of a case is the first frame code.
FrameOf(code) == IF Valued(FrameCode, code) THEN NameOf(FrameCode, code) ELSE "ADC_DATA_IN"

====
