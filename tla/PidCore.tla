---- MODULE PidCore ----
(***************************************************************************)
(* The PID controller (pid_core.sv), with the registers of pdh_core.sv     *)
(* that hold its coefficients and cmd_set_pid of the server (control.c),   *)
(* which writes them one at a time while the controller runs.              *)
(*                                                                         *)
(* The arithmetic is the code's, bit for bit, at widths that are           *)
(* constants; numbers are integers in two's complement, kept in range by   *)
(* ToSigned where the code truncates and by ToRange where it saturates.    *)
(* The command port is what CommandPort shows of it: one word at a time,   *)
(* and the callback of a word answers that word.                           *)
(***************************************************************************)
EXTENDS Integers, Sequences

CONSTANTS
  B,                 \* S16_W, the width of coefficients and errors: 16 in the code
  DAC,               \* the width of samples, setpoint, bias and output: 14
  Q,                 \* fractional bits of the two gains: 10
  GUARD,             \* bits the sum of the terms has above B: 4
  MIN_SAT, MAX_SAT,  \* shifts of the integral's limit: 15 and 31
  ALPHA_INIT,        \* PID_ALPHA_INIT
  MAX_DEC,           \* MAX_DEC of control.c
  Samples,           \* what pid_in_w may be at an edge
  Requests           \* what cmd_set_pid is called with, after lrintf

Low(w) == -(2 ^ (w - 1))
High(w) == 2 ^ (w - 1) - 1
Signed(w) == Low(w) .. High(w)

\* The order in which cmd_set_pid writes the coefficients.
Order == <<"kp", "kd", "ki", "dec", "sp", "alpha", "sat", "en", "gain", "bias", "egain">>
Fields == {Order[n] : n \in 1 .. Len(Order)}

ASSUME PidAssumption ==
  /\ {B, DAC, Q, GUARD, MIN_SAT, MAX_SAT, ALPHA_INIT, MAX_DEC} \subseteq Nat
  /\ DAC > 1 /\ B > DAC /\ Q < B /\ MAX_DEC > 0
  /\ B - 1 <= MIN_SAT /\ MIN_SAT <= MAX_SAT
  /\ Samples \subseteq Signed(DAC)
  /\ Requests \subseteq [Fields -> Int]

VARIABLES
  todo, asked, ok,          \* cmd_set_pid: words left to write, its request, its result
  reg,                      \* kp_r .. pid_enable_r of pdh_core
  coeffs,                   \* the copies pid_core works with
  dat,                      \* pid_in_w, the sample at the input
  sum, yk, err,             \* sum_error_r, yk_r, error_pipe1_r
  p, d, i,                  \* p_error_r, d_error_r, i_error_r
  cnt, tick1, tick2,        \* the decimation counter and the stages of an update
  lowered,                  \* history: sat was lowered while the controller ran
  ideal,                    \* history: err, yk, p and d of a controller without widths
  strained                  \* history: an error left half the range of its width

server == <<todo, asked, ok>>
datapath == <<sum, yk, err, p, d, i, cnt, tick1, tick2>>
history == <<lowered, ideal, strained>>
core == <<coeffs, datapath, history>>
vars == <<server, reg, dat, core>>

ToSigned(x, w) == ((x + 2 ^ (w - 1)) % (2 ^ w)) - 2 ^ (w - 1)
ToRange(x, lo, hi) == IF x > hi THEN hi ELSE IF x < lo THEN lo ELSE x

One == 2 ^ Q                       \* a gain of 1.0
Mid == High(DAC)                   \* 8191, the code of 0 V
MaxOut == 2 ^ DAC - 1

ResetCoeffs ==
  [kp |-> 0, kd |-> 0, ki |-> 0, dec |-> 1, sp |-> 0, alpha |-> 0, sat |-> MAX_SAT,
   gain |-> One, bias |-> 0, egain |-> One]
ResetReg ==
  [kp |-> 0, kd |-> 0, ki |-> 0, dec |-> 1, sp |-> 0, alpha |-> ALPHA_INIT, sat |-> MAX_SAT,
   en |-> 0, gain |-> One, bias |-> 0, egain |-> One]

----------------------------------------------------------------------------
(* pid_out, from the registers *)

PTerm == ToSigned(p \div (2 ^ (B - 1)), B)
DTerm == ToSigned(d \div (2 ^ (B - 1)), B)
ITerm == ToSigned(i \div (2 ^ coeffs.sat), B)
Total == PTerm + DTerm + ITerm
Wide == B + GUARD

Gained == ToRange((Total * coeffs.gain) \div One, Low(Wide), High(Wide))

\* The offset and the bias are added in the width of Gained, and may wrap.
pid_out == ToRange(ToSigned(Gained + Mid + coeffs.bias, Wide), 0, MaxOut)

----------------------------------------------------------------------------
(* One edge of clk in pid_core. *)

Error == ToSigned(dat - coeffs.sp, B)
ErrorGained == ToRange((Error * coeffs.egain) \div One, Low(B), High(B))

Threshold == 2 ^ coeffs.sat

\* Mutant: the lower limit is -threshold.
TruncateLow(x) ==
  IF x >= Threshold THEN Threshold - 1 ELSE IF x <= -Threshold THEN -Threshold ELSE x
apply_satwidth_truncation(x) ==
  IF x >= Threshold THEN Threshold - 1 ELSE IF x <= -Threshold THEN -Threshold + 1 ELSE x

\* Mutant: the integral freezes whenever the output is railed.
NextSumStuck ==
  IF tick1 /\ pid_out \notin {0, MaxOut} THEN apply_satwidth_truncation(sum + ErrorGained) ELSE sum

\* Anti-windup: at a rail the sum may only move away from it, "away" taken to be the
\* sum's own direction.
NextSum ==
  LET sum1 == apply_satwidth_truncation(sum + ErrorGained)
  IN IF /\ tick1
        /\ ~(pid_out = MaxOut /\ sum1 > sum)
        /\ ~(pid_out = 0 /\ sum1 < sum)
     THEN sum1 ELSE sum

\* Mutant: the difference has the width of half the error.
GapNarrow == ToSigned(ErrorGained - yk, B - 1)
Gap == ToSigned(ErrorGained - yk, B)

NextAverage ==
  IF tick1 THEN ToSigned((Gap \div (2 ^ coeffs.alpha)) + yk, B) ELSE yk

NextCount == IF cnt >= coeffs.dec - 1 THEN 0 ELSE cnt + 1

\* History: the same error, average and products in integers, where nothing is truncated
\* to a width.  Only the saturation of the error is kept.
Zeros == [err |-> 0, yk |-> 0, p |-> 0, d |-> 0]
IdealError == ToRange(((dat - coeffs.sp) * coeffs.egain) \div One, Low(B), High(B))
IdealGap == IdealError - ideal.yk
IdealUpdate ==
  [err |-> IdealError,
   yk |-> IF tick1 THEN ideal.yk + (IdealGap \div (2 ^ coeffs.alpha)) ELSE ideal.yk,
   p |-> IF tick2 THEN coeffs.kp * ideal.err ELSE ideal.p,
   d |-> IF tick2 THEN coeffs.kd * IdealGap ELSE ideal.d]
Straining == IdealError \notin Low(B - 1) .. High(B - 1)

Copied ==
  [f \in DOMAIN ResetCoeffs |->
     CASE f = "dec" -> IF reg.dec < 1 THEN 1 ELSE reg.dec
       [] f = "sat" -> IF reg.sat >= MIN_SAT THEN reg.sat ELSE MAX_SAT
       [] OTHER -> reg[f]]

Cleared ==
  /\ sum' = 0 /\ yk' = 0 /\ err' = 0
  /\ p' = 0 /\ d' = 0 /\ i' = 0
  /\ cnt' = 0 /\ tick1' = FALSE /\ tick2' = FALSE
  /\ lowered' = FALSE /\ ideal' = Zeros /\ strained' = FALSE

\* While disabled the core keeps its copies and takes no new ones.
Disabled ==
  /\ reg.en = 0
  /\ Cleared
  /\ UNCHANGED coeffs

AtRest == sum = 0 /\ i = 0 /\ ~tick1

Enabled ==
  /\ reg.en = 1
  /\ coeffs' = Copied
  /\ sum' = NextSum
  /\ yk' = NextAverage
  /\ err' = ErrorGained
  /\ p' = IF tick2 THEN coeffs.kp * err ELSE p
  /\ d' = IF tick2 THEN coeffs.kd * Gap ELSE d
  /\ i' = IF tick2 THEN coeffs.ki * sum ELSE i
  /\ cnt' = NextCount
  /\ tick1' = (cnt = 0)
  /\ tick2' = tick1
  /\ lowered' = (lowered \/ (Copied.sat < coeffs.sat /\ ~AtRest))
  /\ strained' = (strained \/ Straining)
  /\ ideal' = IF strained' THEN Zeros ELSE IdealUpdate

Core == (Disabled \/ Enabled) /\ UNCHANGED dat

\* The sample at the input changes.
Sample ==
  /\ dat' \in Samples
  /\ UNCHANGED <<server, reg, core>>

----------------------------------------------------------------------------
(* cmd_set_pid, and the registers it writes *)

\* Mutant: a bias of -8192 is let through.
LimitBiasLow(x) == ToRange(x, Low(DAC), High(DAC))
\* The lowest number of the width has no negation and is not let through.
LimitBias(x) == ToRange(x, -High(DAC), High(DAC))

\* A request in fixed point: every value limited to what its register holds, except
\* the enable.
Fixed(r) ==
  [kp |-> ToRange(r.kp, Low(B), High(B)), kd |-> ToRange(r.kd, Low(B), High(B)),
   ki |-> ToRange(r.ki, Low(B), High(B)), dec |-> ToRange(r.dec, 0, MAX_DEC),
   sp |-> ToRange(r.sp, Low(DAC), High(DAC)), alpha |-> ToRange(r.alpha, 0, B - 1),
   sat |-> ToRange(r.sat, 0, MAX_SAT), en |-> r.en,
   gain |-> ToRange(r.gain, Low(B), High(B)), egain |-> ToRange(r.egain, Low(B), High(B)),
   bias |-> LimitBias(r.bias)]

\* What a register keeps of the payload: the bias is stored negated, and of the
\* enable only the lowest bit.
Kept(field, payload) ==
  CASE field = "bias" -> ToSigned(-payload, DAC)
    [] field = "en" -> payload % 2
    [] OTHER -> payload

\* pid_payload_w: what the callback of the word shows.
Echo(field, held) == IF field = "bias" THEN ToSigned(-held, DAC) ELSE held

SetPid(r) ==
  /\ todo = <<>>
  /\ asked' = r
  /\ todo' = [n \in 1 .. Len(Order) |-> [field |-> Order[n], payload |-> Fixed(r)[Order[n]]]]
  /\ ok' = TRUE
  /\ UNCHANGED <<reg, dat, core>>

\* An edge at which no register is written.
Clk == Core /\ UNCHANGED <<server, reg>>

\* An edge that writes the register of the first word, whose echo is then compared; a
\* wrong one fails the call and does not stop it.
Coefficient ==
  LET word == Head(todo)
      held == Kept(word.field, word.payload)
  IN /\ todo /= <<>>
     /\ Core
     /\ reg' = [reg EXCEPT ![word.field] = held]
     /\ ok' = (ok /\ Echo(word.field, held) = word.payload)
     /\ todo' = Tail(todo)
     /\ UNCHANGED asked

\* cmd_reset_fpga: pid_core's copies are reset too.
ResetFpga ==
  /\ todo = <<>>
  /\ Cleared
  /\ coeffs' = ResetCoeffs /\ reg' = ResetReg
  /\ ok' = FALSE
  /\ UNCHANGED <<todo, asked, dat>>

----------------------------------------------------------------------------
Init ==
  /\ todo = <<>> /\ asked \in Requests /\ ok = FALSE
  /\ reg = ResetReg /\ coeffs = ResetCoeffs
  /\ dat \in Samples
  /\ sum = 0 /\ yk = 0 /\ err = 0
  /\ p = 0 /\ d = 0 /\ i = 0
  /\ cnt = 0 /\ tick1 = FALSE /\ tick2 = FALSE
  /\ lowered = FALSE /\ ideal = Zeros /\ strained = FALSE

Next ==
  \/ Sample \/ Clk \/ Coefficient \/ ResetFpga
  \/ \E r \in Requests : SetPid(r)

Spec == Init /\ [][Next]_vars

\* The clock does not stop, and a call of cmd_set_pid goes on.
FairSpec == Spec /\ WF_vars(Clk \/ Coefficient) /\ WF_vars(Coefficient)

----------------------------------------------------------------------------
(* Properties. *)

\* A call that reports success with the controller on has its coefficients in the core
\* from the next edge on, the bias subtracted for every value of it, and out-of-range
\* shifts and decimations as documented; an enable that is not 0 or 1 is not reported as
\* success.
OkMeansInForce ==
  todo = <<>> /\ ok /\ asked.en /= 0 /\ coeffs = Copied =>
    /\ asked.en = 1 /\ reg.en = 1
    /\ \A f \in {"kp", "kd", "ki", "sp", "alpha", "gain", "egain"} : coeffs[f] = Fixed(asked)[f]
    /\ coeffs.bias = -ToRange(asked.bias, -Mid, Mid)
    /\ coeffs.sat >= MIN_SAT /\ coeffs.dec >= 1

\* The limit of the sum keeps the integral term, a product of two registers shifted by
\* a third, within its 16 bits, for coefficients of -1.0 too, as long as the shift has
\* not been lowered under a running controller.
IntegralFits == ~lowered => i \div (2 ^ coeffs.sat) \in Signed(B)

\* Up to an output gain of 5.0 either way the output is what the README says: the sum
\* of the three terms of a controller computed without widths, scaled, plus the bias, at
\* the nearest code of the converter.  Two things void it until the controller is next
\* cleared: a shift lowered under the running controller, and an error that the input gain
\* takes past half its range, after which the derivative's difference can wrap, and with
\* kp = -1.0 and the lowest error the proportional term too.  (Above 5.0 the addition of
\* the offset wraps, and the output can jump to the other rail.)
SafeGain == -5 * One .. 5 * One
IdealTotal ==
  (ideal.p \div (2 ^ (B - 1))) + (ideal.d \div (2 ^ (B - 1))) + (i \div (2 ^ coeffs.sat))
IdealOut == ToRange(((IdealTotal * coeffs.gain) \div One) + Mid + coeffs.bias, 0, MaxOut)
OutputFaithful == coeffs.gain \in SafeGain /\ ~lowered /\ ~strained => pid_out = IdealOut

\* A positive loop (integral and output gains positive, output gain within SafeGain, no
\* derivative, a bias that leaves room), whose sum is within the limit in force, comes
\* off a rail when the error stays on the side that leads away from it.
PositiveLoop ==
  /\ reg.en = 1 /\ todo = <<>>
  /\ coeffs.ki > 0 /\ coeffs.kp >= 0 /\ coeffs.kd = 0
  /\ coeffs.gain \in 1 .. 5 * One /\ coeffs.bias \in 1 - Mid .. Mid
  /\ sum \in -Threshold .. Threshold
LeavesRail ==
  /\ <>[](PositiveLoop /\ err > 0) => <>[](pid_out /= 0)
  /\ <>[](PositiveLoop /\ err < 0) => <>[](pid_out /= MaxOut)

\* README: the integrator "freezes in whichever direction would push it further when
\* the output is already railed".  A step of the sum at a rail never moves the output,
\* through the signs of the integral and output gains, further into it.
Push == coeffs.ki * coeffs.gain * (sum' - sum)
FreezesOutward ==
  [][reg.en = 1 /\ reg'.en = 1 =>
       (pid_out = MaxOut => Push <= 0) /\ (pid_out = 0 => Push >= 0)]_vars

====
