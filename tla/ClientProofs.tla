---- MODULE ClientProofs ----
(***************************************************************************)
(* What a call leaves in the registers, proved of Client for every set of  *)
(* entries, every plant and any number of calls: each handler puts what    *)
(* was entered where it belongs and answers with what it put (a lemma for  *)
(* each), and the steps of a call keep the device, the answer and the      *)
(* feedback together (the invariant Consistent).  Then what an autolock    *)
(* finds and where it leaves the device: the derivatives of a sweep, their *)
(* steepest point between the extremes, the bias and the gain that are     *)
(* made of it (the invariants Engaging and Sweeping).                      *)
(***************************************************************************)
EXTENDS Client, SequenceTheorems, WellFoundedInduction, TLAPS

Settings ==
  {"set_led", "reset_fpga", "set_dac", "set_rotation", "set_nco", "set_pid", "set_fir", "config_io",
   "config_demod"}

\* As much of the type of the registers as updating one of them takes.
Registers(d) ==
  /\ DOMAIN d = {"led", "dac", "rotation", "nco", "pid", "fir", "io", "demod"}
  /\ DOMAIN d.dac = {"DAC_1", "DAC_2"}

\* The answer to a setting is that of a device which took it.
Granted(d, e, answer) ==
  /\ Documented(e) => InForce(d, e)
  /\ e.by = "gui" => Held(d, e, Feedback(e, Result(e.op, answer)))

\* What is entered has the type of its fields, an autolock a channel and a sweep of DAC 1.
LEMMA EntriesEntered ==
  ASSUME NEW e \in Entries
  PROVE  Entered(e)
  BY ClientAssumption

LEMMA LockEntered ==
  ASSUME NEW e, Entered(e), e.op = "autolock"
  PROVE  /\ e.chan \in Channels /\ e.dac2 \in DOMAIN DacDatSel /\ e.dac = "DAC_1" /\ e.mode = 0
         /\ e.v0 \in Int /\ e.v1 \in Int /\ e.pts \in Int /\ e.delay \in Int /\ e.peak_pts \in Int
  BY DEF Entered

Answer(outcome) == [status |-> outcome.status, out |-> outcome.out]

Consistent ==
  /\ entry \in Entries /\ pc \in {"idle", "exchange", "handle", "analyse"}
  /\ Registers(dev)
  /\ pc /= "idle" => Accepted(entry) /\ stage \in 1 .. Len(Commands(entry.op)) /\ shown = Blank
  /\ pc = "analyse" => Command \in Fetches
  /\ pc = "handle" /\ reply.status = 0 /\ entry.op \in Settings => Granted(dev, entry, reply)
  /\ asked /= Unknown => Routed(dev, asked)
  /\ OkMeansInForce /\ ShownIsHeld

----------------------------------------------------------------------------
(* The server: a request that is whole reaches its handler.                *)

\* A request with its arguments, within the buffer and the floats kept, is executed
\* as it was sent (load_context and dispatch_command of server.c).
LEMMA Delivers ==
  ASSUME NEW d, NEW p, NEW cmd \in DOMAIN Required, NEW S, NEW f \in Seq(S), NEW u, NEW bytes \in Nat,
         bytes <= MAX_BYTES, Len(f) <= FLOAT_ARGS, Len(u) \in Nat,
         Len(f) >= Required[cmd][1], Len(u) >= Required[cmd][2]
  PROVE  Handle(d, p, [cmd |-> cmd, F |-> f, U |-> u, bytes |-> bytes]) = Execute(d, p, cmd, f, u)
<1>1. FLOAT_ARGS \in Nat /\ MAX_BYTES \in Nat
  BY HandlersAssumption
<1>2. (IF Len(f) < FLOAT_ARGS THEN Len(f) ELSE FLOAT_ARGS) = Len(f)
  BY <1>1
<1>3. SubSeq(f, 1, Len(f)) = f
  BY SubSeqFull
<1>4. /\ Required[cmd][1] \in Nat /\ Required[cmd][2] \in Nat
      /\ ~(Len(f) < Required[cmd][1]) /\ ~(Len(u) < Required[cmd][2])
  BY DEF Required
<1> QED
  BY <1>1, <1>2, <1>3, <1>4 DEF Handle

LEMMA Reaches ==
  ASSUME NEW d, NEW p, NEW cmd \in DOMAIN Required, NEW f \in Seq(Int), NEW u, NEW bytes \in Nat,
         bytes <= MAX_BYTES, Len(f) <= FLOAT_ARGS, Len(u) \in Nat,
         Len(f) >= Required[cmd][1], Len(u) >= Required[cmd][2]
  PROVE  Handle(d, p, [cmd |-> cmd, F |-> f, U |-> u, bytes |-> bytes]) = Execute(d, p, cmd, f, u)
  BY Delivers

LEMMA Runs ==
  ASSUME NEW d, NEW p, NEW cmd \in DOMAIN Required, NEW f \in Seq(Int), NEW u, Len(f) <= 7, Len(u) \in Nat,
         Len(f) >= Required[cmd][1], Len(u) >= Required[cmd][2]
  PROVE  Handle(d, p, Request(cmd, f, u)) = Execute(d, p, cmd, f, u)
<1>1. 64 <= MAX_BYTES /\ Len(f) <= FLOAT_ARGS
  BY HandlersAssumption
<1> QED
  BY <1>1, Reaches DEF Request

----------------------------------------------------------------------------
(* Rounding. *)

\* lrintf is off by a half at most (HalfEven, at the denominators of the handlers).
LEMMA Halves ==
  ASSUME NEW m \in Int, NEW h, h = HalfEven(m, 2)
  PROVE  h \in Int /\ -1 <= 2 * h - m /\ 2 * h - m <= 1
  BY DEF HalfEven

LEMMA Strides ==
  ASSUME NEW m \in Int, NEW h, h = HalfEven(m, 15625)
  PROVE  h \in Int /\ -15625 <= 2 * (15625 * h - m) /\ 2 * (15625 * h - m) <= 15625
<1> DEFINE q == m \div 15625  r == m % 15625
<1>1. q \in Int /\ r \in Int /\ 0 <= r /\ r < 15625 /\ m = 15625 * q + r
  OBVIOUS
<1>2. h = IF 2 * r < 15625 \/ (2 * r = 15625 /\ q % 2 = 0) THEN q ELSE q + 1
  BY DEF HalfEven
<1> HIDE DEF q, r
<1>3. CASE 2 * r < 15625
  BY <1>1, <1>2, <1>3
<1>4. CASE 2 * r > 15625
  BY <1>1, <1>2, <1>4
<1> QED
  BY <1>1, <1>3, <1>4

----------------------------------------------------------------------------
(* The handlers, one by one: an answer without an error is that of a       *)
(* device which holds what was asked.                                      *)

LEMMA GrantsLed ==
  ASSUME NEW d, Registers(d), NEW p, NEW found, NEW e, Entered(e), e.op = "set_led",
         NEW o \in Handle(d, p, Asked(e, found, "set_led")), o.status = 0
  PROVE  Granted(o.dev, e, Answer(o))
<1>1. e.value \in Int
  BY DEF Entered
<1>2. Handle(d, p, Asked(e, found, "set_led")) = cmd_set_led(d, <<>>, <<e.value>>)
  <2> DEFINE f == <<>>
             u == <<e.value>>
  <2>1. Asked(e, found, "set_led") = Request("set_led", f, u)
    BY DEF Asked, api_set_led
  <2>2. "set_led" \in DOMAIN Required /\ Required["set_led"] = <<0, 1>>
    BY DEF Required
  <2>3. f \in Seq(Int) /\ Len(f) = 0 /\ Len(u) = 1
    BY <1>1
  <2>4. Len(f) <= 7 /\ Len(u) \in Nat /\ Len(f) >= Required["set_led"][1] /\ Len(u) >= Required["set_led"][2]
    BY <2>2, <2>3
  <2> HIDE DEF f, u
  <2>5. Handle(d, p, Request("set_led", f, u)) = Execute(d, p, "set_led", f, u)
    BY <2>2, <2>3, <2>4, Runs
  <2> QED
    BY <2>1, <2>5 DEF Execute, f, u
<1>3. o = Outcome([d EXCEPT !.led = e.value], 0, [led_code_cb |-> e.value, cmd_cb |-> "led"])
  BY <1>2 DEF cmd_set_led, Arg, Refused, Ok, Outcome
<1>4. InForce(o.dev, e)
  BY <1>3 DEF InForce, Outcome, Registers
<1>5. e.by = "gui" => Held(o.dev, e, Feedback(e, Result(e.op, Answer(o))))
  BY <1>3 DEF Held, Feedback, OnOkSystem, Result, Answer, Outcome, Registers, Fields, SetLedResult
<1> QED
  BY <1>4, <1>5 DEF Granted

LEMMA GrantsReset ==
  ASSUME NEW d, Registers(d), NEW p, NEW found, NEW e, Entered(e), e.op = "reset_fpga",
         NEW o \in Handle(d, p, Asked(e, found, "reset_fpga")), o.status = 0
  PROVE  Granted(o.dev, e, Answer(o))
<1>1. Handle(d, p, Asked(e, found, "reset_fpga")) = cmd_reset_fpga(d, <<>>, <<>>)
  <2> DEFINE f == <<>>
             u == <<>>
  <2>1. Asked(e, found, "reset_fpga") = Request("reset_fpga", f, u)
    BY DEF Asked, api_reset_fpga
  <2>2. "reset_fpga" \in DOMAIN Required /\ Required["reset_fpga"] = <<0, 0>>
    BY DEF Required
  <2>3. f \in Seq(Int) /\ Len(f) = 0 /\ Len(u) = 0
    OBVIOUS
  <2>4. Len(f) <= 7 /\ Len(u) \in Nat /\ Len(f) >= Required["reset_fpga"][1] /\ Len(u) >= Required["reset_fpga"][2]
    BY <2>2, <2>3
  <2> HIDE DEF f, u
  <2>5. Handle(d, p, Request("reset_fpga", f, u)) = Execute(d, p, "reset_fpga", f, u)
    BY <2>2, <2>3, <2>4, Runs
  <2> QED
    BY <2>1, <2>5 DEF Execute, f, u
<1>2. o.dev = ResetDevice
  BY <1>1 DEF cmd_reset_fpga, Ok, Outcome
<1>3. InForce(o.dev, e) /\ Held(o.dev, e, Feedback(e, Result(e.op, Answer(o))))
  BY <1>2 DEF InForce, Held
<1> QED
  BY <1>3 DEF Granted

LEMMA GrantsDac ==
  ASSUME NEW d, Registers(d), NEW p, NEW found, NEW e, Entered(e), e.op = "set_dac",
         NEW o \in Handle(d, p, Asked(e, found, "set_dac")), o.status = 0
  PROVE  Granted(o.dev, e, Answer(o))
<1>1. e.value \in Int /\ e.dac \in {"DAC_1", "DAC_2"} /\ DacSel[e.dac] \in Int
  BY DEF Entered, DacSel
<1>2. Handle(d, p, Asked(e, found, "set_dac")) = cmd_set_dac(d, <<e.value>>, <<DacSel[e.dac]>>)
  <2> DEFINE f == <<e.value>>
             u == <<DacSel[e.dac]>>
  <2>1. Asked(e, found, "set_dac") = Request("set_dac", f, u)
    BY DEF Asked, api_set_dac
  <2>2. "set_dac" \in DOMAIN Required /\ Required["set_dac"] = <<1, 1>>
    BY DEF Required
  <2>3. f \in Seq(Int) /\ Len(f) = 1 /\ Len(u) = 1
    BY <1>1
  <2>4. Len(f) <= 7 /\ Len(u) \in Nat /\ Len(f) >= Required["set_dac"][1] /\ Len(u) >= Required["set_dac"][2]
    BY <2>2, <2>3
  <2> HIDE DEF f, u
  <2>5. Handle(d, p, Request("set_dac", f, u)) = Execute(d, p, "set_dac", f, u)
    BY <2>2, <2>3, <2>4, Runs
  <2> QED
    BY <2>1, <2>5 DEF Execute, f, u
<1> DEFINE code == HalfEven(16383 - Clamp(e.value, -16383, 16383), 2)
           dac == [d.dac EXCEPT ![e.dac] = code]
<1>3. o = Outcome([d EXCEPT !.dac = dac], 0, [dac1_code_cb |-> dac.DAC_1, dac2_code_cb |-> dac.DAC_2])
  <2>1. (IF DacSel[e.dac] = 0 THEN "DAC_1" ELSE "DAC_2") = e.dac
    BY <1>1 DEF DacSel
  <2>2. Arg(<<e.value>>, 1) = e.value /\ Arg(<<DacSel[e.dac]>>, 1) = DacSel[e.dac]
    BY DEF Arg
  <2> HIDE DEF Arg
  <2> QED
    BY <1>2, <2>1, <2>2 DEF cmd_set_dac, Ok
<1>4. o.dev.dac = dac /\ dac[e.dac] = code
  BY <1>1, <1>3 DEF Outcome, Registers
<1>5. Documented(e) => InForce(o.dev, e)
  <2> HIDE DEF code, dac
  <2>1. SUFFICES ASSUME Between(e.value, -16383, 16383)
                 PROVE  Size(2 * code - (16383 - e.value)) <= 1
    BY <1>4 DEF Documented, _dac_call, InForce
  <2>2. PICK v \in Int : v = e.value
    BY <1>1
  <2>3. PICK m \in Int : m = 16383 - v
    OBVIOUS
  <2>4. code = HalfEven(m, 2)
    BY <2>1, <2>2, <2>3 DEF Clamp, Between, code
  <2>5. code \in Int /\ -1 <= 2 * code - m /\ 2 * code - m <= 1
    BY <2>4, Halves
  <2> QED
    BY <2>2, <2>3, <2>5 DEF Size
<1>6. e.by = "gui" => Held(o.dev, e, Feedback(e, Result(e.op, Answer(o))))
  <2> HIDE DEF dac
  <2> QED
    BY <1>3, <1>4 DEF Held, Feedback, OnOkSystem, Result, Answer, Outcome, Fields, SetDacResult
<1> QED
  BY <1>5, <1>6 DEF Granted

LEMMA GrantsRotation ==
  ASSUME NEW d, Registers(d), NEW p, NEW found, NEW e, Entered(e), e.op = "set_rotation",
         NEW o \in Handle(d, p, Asked(e, found, "set_rotation")), o.status = 0
  PROVE  Granted(o.dev, e, Answer(o))
<1>1. e.angle \in Int
  BY DEF Entered
<1>2. Handle(d, p, Asked(e, found, "set_rotation")) = cmd_set_rot(d, <<e.angle>>, <<>>)
  <2> DEFINE f == <<e.angle>>
             u == <<>>
  <2>1. Asked(e, found, "set_rotation") = Request("set_rotation", f, u)
    BY DEF Asked, api_set_rotation
  <2>2. "set_rotation" \in DOMAIN Required /\ Required["set_rotation"] = <<1, 0>>
    BY DEF Required
  <2>3. f \in Seq(Int) /\ Len(f) = 1 /\ Len(u) = 0
    BY <1>1
  <2>4. Len(f) <= 7 /\ Len(u) \in Nat /\ Len(f) >= Required["set_rotation"][1] /\ Len(u) >= Required["set_rotation"][2]
    BY <2>2, <2>3
  <2> HIDE DEF f, u
  <2>5. Handle(d, p, Request("set_rotation", f, u)) = Execute(d, p, "set_rotation", f, u)
    BY <2>2, <2>3, <2>4, Runs
  <2> QED
    BY <2>1, <2>5 DEF Execute, f, u
<1> DEFINE angle == Clamp(e.angle, -180, 180)
<1>3. o = Outcome([d EXCEPT !.rotation = angle], 0,
            [cos_cb |-> <<"cos", angle>>, sin_cb |-> <<"sin", angle>>, i_feed_cb |-> "i_feed_r", q_feed_cb |-> "q_feed_r"])
  BY <1>2 DEF cmd_set_rot, Arg, Ok
<1>4. o.dev.rotation = angle
  BY <1>3 DEF Outcome, Registers
<1>5. Documented(e) => InForce(o.dev, e)
  <2>1. PICK v \in Int : v = e.angle
    BY <1>1
  <2>2. Between(v, -180, 180) => angle = v
    BY <2>1 DEF Between, Clamp
  <2> QED
    BY <1>4, <2>1, <2>2 DEF Documented, InForce
<1>6. e.by = "gui" => Held(o.dev, e, Feedback(e, Result(e.op, Answer(o))))
  <2> HIDE DEF angle
  <2> QED
    BY <1>3, <1>4 DEF Held, Feedback, OnOkRotation, Result, Answer, Outcome, Fields, SetRotResult
<1> QED
  BY <1>5, <1>6 DEF Granted

\* Every selection of the client is the input of the multiplexer it names
\* (the enumerations of types.py against the multiplexers of pdh_core.sv).
LEMMA Selections ==
  /\ \A name \in DOMAIN DacDatSel : DacDatSel[name] \in 0 .. 3 /\ Selected(DacFeed, DacDatSel[name]) = Signal[name]
  /\ \A name \in DOMAIN PidDatSel : PidDatSel[name] \in 0 .. 6 /\ Selected(PidIn, PidDatSel[name]) = Signal[name]
  /\ \A name \in DOMAIN DemodRefSel : DemodRefSel[name] \in 0 .. 1 /\ Selected(DemodRef, DemodRefSel[name]) = Signal[name]
  /\ \A name \in DOMAIN DemodInSel : DemodInSel[name] \in 0 .. 6 /\ Selected(DemodIn, DemodInSel[name]) = Signal[name]
  /\ \A name \in DOMAIN FirInputSel : FirInputSel[name] \in 0 .. 5 /\ Selected(FirIn, FirInputSel[name]) = Signal[name]
<1>1. \A name \in DOMAIN DacDatSel : DacDatSel[name] \in 0 .. 3 /\ Selected(DacFeed, DacDatSel[name]) = Signal[name]
  BY DEF DacDatSel, Selected, DacFeed, Signal
<1>2. \A name \in DOMAIN PidDatSel : PidDatSel[name] \in 0 .. 6 /\ Selected(PidIn, PidDatSel[name]) = Signal[name]
  BY DEF PidDatSel, Selected, PidIn, Signal
<1>3. \A name \in DOMAIN DemodRefSel : DemodRefSel[name] \in 0 .. 1 /\ Selected(DemodRef, DemodRefSel[name]) = Signal[name]
  BY DEF DemodRefSel, Selected, DemodRef, Signal
<1>4. \A name \in DOMAIN DemodInSel : DemodInSel[name] \in 0 .. 6 /\ Selected(DemodIn, DemodInSel[name]) = Signal[name]
  BY DEF DemodInSel, Selected, DemodIn, Signal
<1>5. \A name \in DOMAIN FirInputSel : FirInputSel[name] \in 0 .. 5 /\ Selected(FirIn, FirInputSel[name]) = Signal[name]
  BY DEF FirInputSel, Selected, FirIn, Signal
<1> QED
  BY <1>1, <1>2, <1>3, <1>4, <1>5

\* The name that is shown for a selection has its value.
LEMMA Named ==
  ASSUME NEW enum, NEW name \in DOMAIN enum
  PROVE  NameOf(enum, enum[name]) \in DOMAIN enum /\ enum[NameOf(enum, enum[name])] = enum[name]
  BY DEF NameOf

LEMMA GrantsDemod ==
  ASSUME NEW d, Registers(d), NEW p, NEW found, NEW e, Entered(e), e.op = "config_demod",
         NEW o \in Handle(d, p, Asked(e, found, "config_demod")), o.status = 0
  PROVE  Granted(o.dev, e, Answer(o))
<1>1. /\ e.ref \in DOMAIN DemodRefSel /\ DemodRefSel[e.ref] \in Int /\ Unsigned(DemodRefSel[e.ref]) = DemodRefSel[e.ref]
      /\ e.in \in DOMAIN DemodInSel /\ DemodInSel[e.in] \in Int /\ Unsigned(DemodInSel[e.in]) = DemodInSel[e.in]
      /\ e.alpha \in Int
  BY Selections DEF Entered, Unsigned
<1>2. Handle(d, p, Asked(e, found, "config_demod")) = cmd_config_demod(d, <<>>, <<DemodRefSel[e.ref], DemodInSel[e.in], e.alpha>>)
  <2> DEFINE f == <<>>
             u == <<DemodRefSel[e.ref], DemodInSel[e.in], e.alpha>>
  <2>1. Asked(e, found, "config_demod") = Request("config_demod", f, u)
    BY DEF Asked, api_config_demod
  <2>2. "config_demod" \in DOMAIN Required /\ Required["config_demod"] = <<0, 3>>
    BY DEF Required
  <2>3. f \in Seq(Int) /\ Len(f) = 0 /\ Len(u) = 3
    BY <1>1
  <2>4. Len(f) <= 7 /\ Len(u) \in Nat /\ Len(f) >= Required["config_demod"][1] /\ Len(u) >= Required["config_demod"][2]
    BY <2>2, <2>3
  <2> HIDE DEF f, u
  <2>5. Handle(d, p, Request("config_demod", f, u)) = Execute(d, p, "config_demod", f, u)
    BY <2>2, <2>3, <2>4, Runs
  <2> QED
    BY <2>1, <2>5 DEF Execute, f, u
<1> DEFINE demod == [ref |-> DemodRefSel[e.ref], in |-> DemodInSel[e.in], alpha |-> Unsigned(e.alpha) % 16]
<1>3. o = Outcome([d EXCEPT !.demod = demod], 0,
            [ref_sel_cb |-> demod.ref, in_sel_cb |-> demod.in, lpf_alpha_cb |-> demod.alpha])
  <2> DEFINE u == <<DemodRefSel[e.ref], DemodInSel[e.in], e.alpha>>
  <2>1. Arg(u, 1) = DemodRefSel[e.ref] /\ Arg(u, 2) = DemodInSel[e.in] /\ Arg(u, 3) = e.alpha
    BY DEF Arg
  <2> HIDE DEF u
  <2>2. o \in cmd_config_demod(d, <<>>, u)
    BY <1>2 DEF u
  <2> QED
    BY <1>1, <2>1, <2>2 DEF cmd_config_demod, Refused, Ok, Outcome
<1>4. o.dev.demod = demod
  BY <1>3 DEF Outcome, Registers
<1>5. Documented(e) => InForce(o.dev, e)
  <2>1. PICK v \in Int : v = e.alpha
    BY <1>1
  <2>2. Between(v, 0, 15) => Unsigned(v) % 16 = v
    BY <2>1 DEF Between, Unsigned
  <2>3. Documented(e) => demod.alpha = e.alpha
    BY <2>1, <2>2 DEF Documented, OnApplyDemod
  <2>4. /\ Selected(DemodRef, demod.ref) = Signal[e.ref]
        /\ Selected(DemodIn, demod.in) = Signal[e.in]
    BY <1>1, Selections
  <2> HIDE DEF demod
  <2> QED
    BY <1>4, <2>3, <2>4 DEF InForce
<1>6. e.by = "gui" => Held(o.dev, e, Feedback(e, Result(e.op, Answer(o))))
  <2> DEFINE ref == NameOf(DemodRefSel, demod.ref)
             in == NameOf(DemodInSel, demod.in)
  <2>1. ref \in DOMAIN DemodRefSel /\ DemodRefSel[ref] = demod.ref
    BY <1>1, Named
  <2>2. in \in DOMAIN DemodInSel /\ DemodInSel[in] = demod.in
    BY <1>1, Named
  <2>3. Selected(DemodRef, demod.ref) = Signal[ref] /\ Selected(DemodIn, demod.in) = Signal[in]
    BY <2>1, <2>2, Selections
  <2>4. Result(e.op, Answer(o)).ref_sel_cb = demod.ref /\ Result(e.op, Answer(o)).in_sel_cb = demod.in
        /\ Result(e.op, Answer(o)).lpf_alpha_cb = demod.alpha
    <3> HIDE DEF demod
    <3> QED
      BY <1>3 DEF Result, Answer, Outcome, Fields, ConfigDemodResult
  <2> HIDE DEF demod
  <2>5. ASSUME e.by = "gui"
        PROVE  Feedback(e, Result(e.op, Answer(o))) = [ref |-> ref, in |-> in, alpha |-> demod.alpha]
    BY <2>4, <2>5 DEF Feedback, OnOkDemod
  <2> HIDE DEF ref, in
  <2> QED
    BY <1>4, <2>3, <2>5 DEF Held
<1> QED
  BY <1>5, <1>6 DEF Granted

\* The routing of a config_io without an error, and its answer.
LEMMA Routes ==
  ASSUME NEW d, Registers(d), NEW p, NEW r,
         r.dac1 \in DOMAIN DacDatSel, r.dac2 \in DOMAIN DacDatSel, r.pid_sel \in DOMAIN PidDatSel,
         NEW o \in Handle(d, p, api_config_io(r)), o.status = 0
  PROVE  /\ Routed(o.dev, r)
         /\ o.out = [dac1_dat_sel_cb |-> DacDatSel[r.dac1], dac2_dat_sel_cb |-> DacDatSel[r.dac2],
                     pid_dat_sel_cb |-> PidDatSel[r.pid_sel]]
         /\ o.dev.io = [dac1 |-> DacDatSel[r.dac1], dac2 |-> DacDatSel[r.dac2], pid |-> PidDatSel[r.pid_sel]]
<1> DEFINE dac1 == DacDatSel[r.dac1]
           dac2 == DacDatSel[r.dac2]
           pid == PidDatSel[r.pid_sel]
           f == <<>>
           u == <<dac1, dac2, pid>>
<1>1. /\ dac1 \in 0 .. 3 /\ dac2 \in 0 .. 3 /\ pid \in 0 .. 6
      /\ Selected(DacFeed, dac1) = Signal[r.dac1] /\ Selected(DacFeed, dac2) = Signal[r.dac2]
      /\ Selected(PidIn, pid) = Signal[r.pid_sel]
  BY Selections
<1>2. api_config_io(r) = Request("config_io", f, u)
  BY DEF api_config_io
<1> HIDE DEF dac1, dac2, pid
<1>3. "config_io" \in DOMAIN Required /\ Required["config_io"] = <<0, 3>>
  BY DEF Required
<1>4. f \in Seq(Int) /\ Len(f) <= 7 /\ Len(u) \in Nat /\ Len(f) >= Required["config_io"][1] /\ Len(u) >= Required["config_io"][2]
  BY <1>3
<1>5. Arg(u, 1) = dac1 /\ Arg(u, 2) = dac2 /\ Arg(u, 3) = pid
  BY DEF Arg
<1>6. Unsigned(dac1) = dac1 /\ Unsigned(dac2) = dac2 /\ Unsigned(pid) = pid
  BY <1>1 DEF Unsigned
<1> HIDE DEF f, u
<1>7. o \in cmd_config_io(d, f, u)
  <2>1. Handle(d, p, Request("config_io", f, u)) = Execute(d, p, "config_io", f, u)
    BY <1>3, <1>4, Runs
  <2> QED
    BY <1>2, <2>1 DEF Execute
<1>8. o = Outcome([d EXCEPT !.io = [dac1 |-> dac1, dac2 |-> dac2, pid |-> pid]], 0,
            [dac1_dat_sel_cb |-> dac1, dac2_dat_sel_cb |-> dac2, pid_dat_sel_cb |-> pid])
  BY <1>5, <1>6, <1>7 DEF cmd_config_io, Refused, Ok, Outcome
<1>9. o.dev.io = [dac1 |-> dac1, dac2 |-> dac2, pid |-> pid]
  BY <1>8 DEF Outcome, Registers
<1> QED
  BY <1>1, <1>8, <1>9 DEF Routed, Outcome, dac1, dac2, pid

LEMMA GrantsIo ==
  ASSUME NEW d, Registers(d), NEW p, NEW found, NEW e, Entered(e), e.op = "config_io",
         NEW o \in Handle(d, p, Asked(e, found, "config_io")), o.status = 0
  PROVE  Granted(o.dev, e, Answer(o))
<1>1. e.dac1 \in DOMAIN DacDatSel /\ e.dac2 \in DOMAIN DacDatSel /\ e.pid_sel \in DOMAIN PidDatSel
  BY DEF Entered
<1>2. Asked(e, found, "config_io") = api_config_io(e)
  BY DEF Asked
<1>3. /\ Routed(o.dev, e)
      /\ o.out = [dac1_dat_sel_cb |-> DacDatSel[e.dac1], dac2_dat_sel_cb |-> DacDatSel[e.dac2],
                  pid_dat_sel_cb |-> PidDatSel[e.pid_sel]]
      /\ o.dev.io = [dac1 |-> DacDatSel[e.dac1], dac2 |-> DacDatSel[e.dac2], pid |-> PidDatSel[e.pid_sel]]
  <2>1. o \in Handle(d, p, api_config_io(e))
    BY <1>2
  <2> QED
    BY <1>1, <2>1, Routes
<1>4. InForce(o.dev, e)
  BY <1>3 DEF InForce
<1>5. e.by = "gui" => Held(o.dev, e, Feedback(e, Result(e.op, Answer(o))))
  <2> DEFINE dac1 == NameOf(DacDatSel, DacDatSel[e.dac1])
             dac2 == NameOf(DacDatSel, DacDatSel[e.dac2])
             pid == NameOf(PidDatSel, PidDatSel[e.pid_sel])
  <2>1. dac1 \in DOMAIN DacDatSel /\ DacDatSel[dac1] = DacDatSel[e.dac1]
    BY <1>1, Named
  <2>2. dac2 \in DOMAIN DacDatSel /\ DacDatSel[dac2] = DacDatSel[e.dac2]
    BY <1>1, Named
  <2>3. pid \in DOMAIN PidDatSel /\ PidDatSel[pid] = PidDatSel[e.pid_sel]
    BY <1>1, Named
  <2>4. Selected(DacFeed, DacDatSel[e.dac1]) = Signal[dac1] /\ Selected(DacFeed, DacDatSel[e.dac2]) = Signal[dac2]
        /\ Selected(PidIn, PidDatSel[e.pid_sel]) = Signal[pid]
    BY <2>1, <2>2, <2>3, Selections
  <2>5. Result(e.op, Answer(o)).dac1_dat_sel_cb = DacDatSel[e.dac1]
        /\ Result(e.op, Answer(o)).dac2_dat_sel_cb = DacDatSel[e.dac2]
        /\ Result(e.op, Answer(o)).pid_dat_sel_cb = PidDatSel[e.pid_sel]
    BY <1>3 DEF Result, Answer, Fields, ConfigIoResult
  <2>6. ASSUME e.by = "gui"
        PROVE  Feedback(e, Result(e.op, Answer(o))) = [dac1 |-> dac1, dac2 |-> dac2, pid |-> pid]
    BY <2>5, <2>6 DEF Feedback, OnOkIo
  <2> HIDE DEF dac1, dac2, pid
  <2> QED
    BY <1>3, <2>4, <2>6 DEF Held, Routed
<1> QED
  BY <1>4, <1>5 DEF Granted

LEMMA GrantsPid ==
  ASSUME NEW d, Registers(d), NEW p, NEW found, NEW e, Entered(e), e.op = "set_pid",
         NEW o \in Handle(d, p, Asked(e, found, "set_pid")), o.status = 0
  PROVE  Granted(o.dev, e, Answer(o))
<1> DEFINE q == e.pid
<1>1. /\ q \in [kp : Int, ki : Int, kd : Int, sp : Int, gain : Int, bias : Int, egain : Int,
                dec : Int, alpha : Int, sat : Int, en : Int]
      /\ q.kp \in Int /\ q.kd \in Int /\ q.ki \in Int /\ q.sp \in Int /\ q.gain \in Int /\ q.bias \in Int
      /\ q.egain \in Int /\ q.dec \in Int /\ q.alpha \in Int /\ q.sat \in Int /\ q.en \in Int
  BY DEF Entered
<1>2. Handle(d, p, Asked(e, found, "set_pid")) = cmd_set_pid(d, <<q.kp, q.kd, q.ki, q.sp, q.gain, q.bias, q.egain>>, <<q.dec, q.alpha, q.sat, q.en>>)
  <2> DEFINE f == <<q.kp, q.kd, q.ki, q.sp, q.gain, q.bias, q.egain>>
             u == <<q.dec, q.alpha, q.sat, q.en>>
  <2>1. Asked(e, found, "set_pid") = Request("set_pid", f, u)
    BY DEF Asked, api_set_pid
  <2>2. "set_pid" \in DOMAIN Required /\ Required["set_pid"] = <<4, 4>>
    BY DEF Required
  <2>3. f \in Seq(Int) /\ Len(f) = 7 /\ Len(u) = 4
    BY <1>1
  <2>4. Len(f) <= 7 /\ Len(u) \in Nat /\ Len(f) >= Required["set_pid"][1] /\ Len(u) >= Required["set_pid"][2]
    BY <2>2, <2>3
  <2> HIDE DEF f, u
  <2>5. Handle(d, p, Request("set_pid", f, u)) = Execute(d, p, "set_pid", f, u)
    BY <2>2, <2>3, <2>4, Runs
  <2> QED
    BY <2>1, <2>5 DEF Execute, f, u
<1> DEFINE pid == [kp |-> Q16(q.kp), kd |-> Q16(q.kd), ki |-> Q16(q.ki), sp |-> Clamp(q.sp, -8192, 8191),
                   gain |-> Q16(q.gain), bias |-> Clamp(q.bias, -8191, 8191), egain |-> Q16(q.egain),
                   dec |-> Clamp(Unsigned(q.dec), 0, 16383), alpha |-> Clamp(Unsigned(q.alpha), 0, 15),
                   sat |-> Clamp(Unsigned(q.sat), 0, 31), en |-> Unsigned(q.en) % 2]
<1>3. /\ pid.en = q.en
      /\ o = Outcome([d EXCEPT !.pid = pid], 0,
               [kp_cb |-> pid.kp, kd_cb |-> pid.kd, ki_cb |-> pid.ki, dec_cb |-> pid.dec, sp_cb |-> pid.sp,
                alpha_cb |-> pid.alpha, sat_cb |-> pid.sat, en_cb |-> pid.en, gain_cb |-> pid.gain,
                bias_cb |-> pid.bias, egain_cb |-> pid.egain])
  <2> DEFINE f == <<q.kp, q.kd, q.ki, q.sp, q.gain, q.bias, q.egain>>
             u == <<q.dec, q.alpha, q.sat, q.en>>
  <2>1. /\ Arg(f, 1) = q.kp /\ Arg(f, 2) = q.kd /\ Arg(f, 3) = q.ki /\ Arg(f, 4) = q.sp
        /\ Arg(f, 5) = q.gain /\ Arg(f, 6) = q.bias /\ Arg(f, 7) = q.egain
        /\ Arg(u, 1) = q.dec /\ Arg(u, 2) = q.alpha /\ Arg(u, 3) = q.sat /\ Arg(u, 4) = q.en
    BY DEF Arg
  <2> HIDE DEF f, u
  <2>2. o \in cmd_set_pid(d, f, u)
    BY <1>2 DEF f, u
  <2>3. o \in Checked([d EXCEPT !.pid = pid], pid.en = q.en,
               [kp_cb |-> pid.kp, kd_cb |-> pid.kd, ki_cb |-> pid.ki, dec_cb |-> pid.dec, sp_cb |-> pid.sp,
                alpha_cb |-> pid.alpha, sat_cb |-> pid.sat, en_cb |-> pid.en, gain_cb |-> pid.gain,
                bias_cb |-> pid.bias, egain_cb |-> pid.egain])
    BY <2>1, <2>2 DEF cmd_set_pid
  <2> HIDE DEF pid
  <2> QED
    BY <2>3 DEF Checked, Outcome
<1>4. o.dev.pid = pid
  BY <1>3 DEF Outcome, Registers
<1>5. Documented(e) => InForce(o.dev, e)
  <2>1. ASSUME NEW x \in Int, Between(x, -32768, 32767)
        PROVE  Q16(x) = x
    BY <2>1 DEF Between, Q16, Clamp
  <2>2. ASSUME NEW x \in Int, NEW low \in Int, NEW high \in Int, Between(x, low, high)
        PROVE  Clamp(x, low, high) = x
    BY <2>2 DEF Between, Clamp
  <2>3. ASSUME NEW x \in Int, NEW low \in Int, NEW high \in Int, Between(x, low, high), low >= 0
        PROVE  Clamp(Unsigned(x), 0, high) = x
    BY <2>3 DEF Between, Clamp, Unsigned
  <2> SUFFICES ASSUME OnApplyPid(e)
               PROVE  q = pid
    <3> HIDE DEF pid
    <3>1. Documented(e) => OnApplyPid(e)
      BY DEF Documented
    <3>2. (o.dev.pid = e.pid) => InForce(o.dev, e)
      BY DEF InForce
    <3> QED
      BY <1>4, <3>1, <3>2
  <2>4. Q16(q.kp) = q.kp /\ Q16(q.ki) = q.ki /\ Q16(q.kd) = q.kd /\ Q16(q.gain) = q.gain /\ Q16(q.egain) = q.egain
    BY <1>1, <2>1 DEF OnApplyPid
  <2>5. Clamp(q.sp, -8192, 8191) = q.sp /\ Clamp(q.bias, -8191, 8191) = q.bias
    BY <1>1, <2>2 DEF OnApplyPid
  <2>6. Clamp(Unsigned(q.dec), 0, 16383) = q.dec /\ Clamp(Unsigned(q.alpha), 0, 15) = q.alpha
        /\ Clamp(Unsigned(q.sat), 0, 31) = q.sat
    BY <1>1, <2>3 DEF OnApplyPid
  <2>7. pid = [kp |-> q.kp, kd |-> q.kd, ki |-> q.ki, sp |-> q.sp, gain |-> q.gain, bias |-> q.bias, egain |-> q.egain,
               dec |-> q.dec, alpha |-> q.alpha, sat |-> q.sat, en |-> q.en]
    BY <1>3, <2>4, <2>5, <2>6
  <2> HIDE DEF pid
  <2> QED
    BY <1>1, <2>7
<1>6. e.by = "gui" => Held(o.dev, e, Feedback(e, Result(e.op, Answer(o))))
  <2> DEFINE r == Result(e.op, Answer(o))
  <2>1. ASSUME e.by = "gui"
        PROVE  Feedback(e, r) = OnOkPid(r)
    BY <2>1 DEF Feedback
  <2> HIDE DEF pid
  <2>2. /\ r.kp_cb = pid.kp /\ r.ki_cb = pid.ki /\ r.kd_cb = pid.kd /\ r.sp_cb = pid.sp /\ r.dec_cb = pid.dec
        /\ r.alpha_cb = pid.alpha /\ r.sat_cb = pid.sat /\ r.en_cb = pid.en /\ r.gain_cb = pid.gain
        /\ r.bias_cb = pid.bias /\ r.egain_cb = pid.egain
    BY <1>3 DEF Result, Answer, Outcome, Fields, SetPidResult
  <2>3. pid = [kp |-> pid.kp, ki |-> pid.ki, kd |-> pid.kd, sp |-> pid.sp, dec |-> pid.dec, alpha |-> pid.alpha,
               sat |-> pid.sat, en |-> pid.en, gain |-> pid.gain, bias |-> pid.bias, egain |-> pid.egain]
    BY DEF pid
  <2> HIDE DEF r
  <2>4. OnOkPid(r) = pid
    BY <2>2, <2>3 DEF OnOkPid
  <2> QED
    BY <1>4, <2>1, <2>4 DEF Held, r
<1> QED
  BY <1>5, <1>6 DEF Granted

\* The quarter and the signs make the angle that was asked for, to 1/91 degree
\* (cmd_set_nco, nco.sv).
LEMMA Turns ==
  ASSUME NEW s \in Int, -180 < s, s < 180
  PROVE  /\ Quarter(s).shift \in Int
         /\ SameAngle(Lead(Quarter(s)), -91 * s, 1)
<1> DEFINE turn == IF -s < 0 THEN 360 - s ELSE -s
           half == IF turn > 180 THEN turn - 180 ELSE turn
           inv == (turn > 180) /= (half >= 90)
           x == IF half >= 90 THEN 180 - half ELSE half
           h == HalfEven(91 * x, 2)
           q == [shift |-> h, sub |-> IF half >= 90 THEN 1 ELSE 0, inv |-> IF inv THEN 1 ELSE 0]
<1>1. Quarter(s) = q
  BY DEF Quarter
<1>2. x \in Int /\ h \in Int /\ -1 <= 2 * h - 91 * x /\ 2 * h - 91 * x <= 1
  <2>1. x \in Int
    OBVIOUS
  <2> HIDE DEF x
  <2>2. PICK m \in Int : m = 91 * x
    BY <2>1
  <2>3. h = HalfEven(m, 2)
    BY <2>2
  <2> HIDE DEF h
  <2> QED
    BY <2>1, <2>2, <2>3, Halves
<1>3. Lead(q) = (IF half >= 90 THEN -2 * h ELSE 2 * h) + (IF inv THEN 16380 ELSE 0)
  <2> HIDE DEF half, inv, h
  <2> QED
    BY <1>2 DEF Lead
<1> HIDE DEF h, q
<1>4. \/ Lead(q) + 91 * s = 2 * h - 91 * x
      \/ Lead(q) + 91 * s = 91 * x - 2 * h
      \/ Lead(q) + 91 * s = 2 * h - 91 * x + 32760
  <2>1. CASE s <= 0 /\ -s < 90
    BY <1>2, <1>3, <2>1
  <2>2. CASE s <= 0 /\ -s >= 90
    BY <1>2, <1>3, <2>2
  <2>3. CASE s > 0 /\ s > 90
    BY <1>2, <1>3, <2>3
  <2>4. CASE s > 0 /\ s <= 90
    BY <1>2, <1>3, <2>4
  <2> QED
    BY <2>1, <2>2, <2>3, <2>4
<1>5. Lead(q) \in Int
  BY <1>2, <1>3
<1> HIDE DEF x
<1>6. PICK y \in Int : y = Lead(q) + 91 * s /\ ((-1 <= y /\ y <= 1) \/ (32759 <= y /\ y <= 32761))
  BY <1>2, <1>4, <1>5
<1>7. (y + 1) % 32760 <= 2
  BY <1>6
<1>8. y + 1 = Lead(q) - -91 * s + 1
  BY <1>5, <1>6
<1> QED
  BY <1>1, <1>2, <1>7, <1>8 DEF SameAngle, q

LEMMA GrantsNco ==
  ASSUME NEW d, Registers(d), NEW p, NEW found, NEW e, Entered(e), e.op = "set_nco",
         NEW o \in Handle(d, p, Asked(e, found, "set_nco")), o.status = 0
  PROVE  Granted(o.dev, e, Answer(o))
<1>1. e.freq \in Int /\ e.shift \in Int /\ e.en \in Int
  BY DEF Entered
<1>2. Handle(d, p, Asked(e, found, "set_nco")) = cmd_set_nco(d, <<e.freq, e.shift>>, <<e.en>>)
  <2> DEFINE f == <<e.freq, e.shift>>
             u == <<e.en>>
  <2>1. Asked(e, found, "set_nco") = Request("set_nco", f, u)
    BY DEF Asked, api_set_nco
  <2>2. "set_nco" \in DOMAIN Required /\ Required["set_nco"] = <<2, 1>>
    BY DEF Required
  <2>3. f \in Seq(Int) /\ Len(f) = 2 /\ Len(u) = 1
    BY <1>1
  <2>4. Len(f) <= 7 /\ Len(u) \in Nat /\ Len(f) >= Required["set_nco"][1] /\ Len(u) >= Required["set_nco"][2]
    BY <2>2, <2>3
  <2> HIDE DEF f, u
  <2>5. Handle(d, p, Request("set_nco", f, u)) = Execute(d, p, "set_nco", f, u)
    BY <2>2, <2>3, <2>4, Runs
  <2> QED
    BY <2>1, <2>5 DEF Execute, f, u
<1> DEFINE stride == HalfEven(Size(e.freq) * 2048, 15625)
           turn == Quarter(e.shift)
           nco == [stride |-> stride, shift |-> turn.shift, sub |-> turn.sub, inv |-> turn.inv, en |-> Unsigned(e.en) % 2]
           out == [stride_cb |-> stride, shift_cb |-> nco.shift, sub_cb |-> nco.sub, inv_cb |-> nco.inv, en_cb |-> nco.en,
              registered_freq |-> stride, registered_freq_error |-> e.freq,
              registered_phase_shift |-> Registered(nco), registered_shift_error |-> 91 * e.shift - Registered(nco)]
<1>3. ~(Size(e.shift) >= 180) /\ nco.en = e.en /\ o = Outcome([d EXCEPT !.nco = nco], 0, out)
  <2> DEFINE f == <<e.freq, e.shift>>
             u == <<e.en>>
  <2>1. Arg(f, 1) = e.freq /\ Arg(f, 2) = e.shift /\ Arg(u, 1) = e.en
    BY DEF Arg
  <2> HIDE DEF f, u
  <2>2. o \in cmd_set_nco(d, f, u)
    BY <1>2 DEF f, u
  <2>3. cmd_set_nco(d, f, u) =
          IF ~Between(stride, 1, 1024) \/ Size(e.shift) >= 180 THEN Refused(d)
          ELSE Checked([d EXCEPT !.nco = nco], nco.en = e.en, out)
    BY <2>1 DEF cmd_set_nco
  <2> HIDE DEF stride, turn, nco, out
  <2> QED
    BY <2>2, <2>3 DEF Checked, Refused, Outcome
<1>4. o.dev.nco = nco
  BY <1>3 DEF Outcome, Registers
<1>5. /\ nco.stride = stride /\ nco.shift = Quarter(e.shift).shift
      /\ nco.sub = Quarter(e.shift).sub /\ nco.inv = Quarter(e.shift).inv
  OBVIOUS
<1>6. Lead(nco) = Lead(Quarter(e.shift))
  BY <1>5 DEF Lead
<1>7. nco.shift \in Int /\ SameAngle(Lead(nco), -91 * e.shift, 1)
  <2>1. PICK s \in Int : s = e.shift
    BY <1>1
  <2>2. -180 < s /\ s < 180
    BY <1>3, <2>1 DEF Size
  <2> QED
    BY <1>5, <1>6, <2>1, <2>2, Turns
<1>8. e.freq >= 0 => 2 * Size(stride * 15625 - e.freq * 2048) <= 15625
  <2>1. PICK v \in Int : v = e.freq
    BY <1>1
  <2>2. SUFFICES ASSUME v >= 0
                 PROVE  2 * Size(stride * 15625 - v * 2048) <= 15625
    BY <2>1
  <2>3. PICK m \in Int : m = v * 2048
    OBVIOUS
  <2>4. stride = HalfEven(m, 15625)
    BY <2>1, <2>2, <2>3 DEF Size
  <2> HIDE DEF stride
  <2>5. stride \in Int /\ -15625 <= 2 * (15625 * stride - m) /\ 2 * (15625 * stride - m) <= 15625
    BY <2>3, <2>4, Strides
  <2> QED
    BY <2>3, <2>5 DEF Size
<1> HIDE DEF stride, turn, nco
<1>9. Documented(e) => InForce(o.dev, e)
  BY <1>3, <1>4, <1>5, <1>7, <1>8 DEF Documented, InForce
<1>10. SameAngle(Registered(nco), -Lead(nco), 0)
  <2>1. Lead(nco) \in Int
    BY <1>7 DEF Lead
  <2>2. Registered(nco) = IF Lead(nco) > 16380 THEN 32760 - Lead(nco) ELSE -Lead(nco)
    BY DEF Registered, Lead
  <2>3. (Registered(nco) - -Lead(nco)) + 0 \in {0, 32760}
    BY <2>1, <2>2
  <2>4. 0 % (360 * 91) = 0 /\ 32760 % (360 * 91) = 0
    OBVIOUS
  <2> QED
    BY <2>3, <2>4 DEF SameAngle
<1>11. e.by = "gui" => Held(o.dev, e, Feedback(e, Result(e.op, Answer(o))))
  <2> DEFINE r == Result(e.op, Answer(o))
  <2>1. r.registered_freq = stride /\ r.registered_phase_shift = Registered(nco) /\ r.en_cb = nco.en
    BY <1>3 DEF Result, Answer, Outcome, Fields, SetNcoResult
  <2> HIDE DEF r
  <2>2. ASSUME e.by = "gui"
        PROVE  Feedback(e, r) = [freq |-> stride, shift |-> Registered(nco), en |-> nco.en]
    BY <2>1, <2>2 DEF Feedback, OnOkNco
  <2> QED
    BY <1>4, <1>5, <1>10, <2>2 DEF Held, r
<1> QED
  BY <1>9, <1>11 DEF Granted

LEMMA GrantsFir ==
  ASSUME NEW d, Registers(d), NEW p, NEW found, NEW e, Entered(e), e.op = "set_fir", Accepted(e),
         NEW o \in Handle(d, p, Asked(e, found, "set_fir")), o.status = 0
  PROVE  Granted(o.dev, e, Answer(o))
<1> DEFINE f == e.coeffs
           sel == FirInputSel[e.sel]
           fits == Len(f) <= NTAPS /\ 18 + Len(f) * e.width <= MAX_BYTES
<1>1. f \in Seq(Int) /\ e.width \in Nat /\ e.sel \in DOMAIN FirInputSel /\ Len(f) \in Nat /\ DOMAIN f = 1 .. Len(f)
      /\ sel \in 0 .. 5 /\ Selected(FirIn, sel) = Signal[e.sel]
  <2>1. e.coeffs \in Seq(Int) /\ e.width \in Nat /\ e.sel \in DOMAIN FirInputSel
    BY DEF Entered
  <2> QED
    BY <2>1, Selections
<1>2. NTAPS \in Nat \ {0} /\ NTAPS <= FLOAT_ARGS /\ FLOAT_ARGS \in Nat
  BY HandlersAssumption
<1>3. Documented(e) => fits
  BY DEF Documented, _send_fir_coeffs
<1>4. e.by = "gui" => fits
  <2>1. SUFFICES ASSUME e.by = "gui" PROVE fits
    OBVIOUS
  <2>2. Len(f) = NTAPS
    BY <2>1 DEF Accepted, OnApplyFir, design_lowpass
  <2>3. 18 + NTAPS * e.width <= MAX_BYTES
    BY <2>1 DEF Entered
  <2> QED
    BY <1>2, <2>2, <2>3
<1> DEFINE taps == [k \in 1 .. NTAPS |-> IF k <= Len(f) THEN Q16(f[LastOf(f, k)]) ELSE d.fir.taps[k]]
           taken(s) ==
             IF s > 3 \/ \E k \in DOMAIN f : Size(f[k]) > 32768 THEN Refused(d)
             ELSE Checked([d EXCEPT !.fir = [sel |-> s, taps |-> taps]], Len(f) <= NTAPS,
                    [input_sel_cb |-> s, mem_wen_en_cb |-> 1, mem_wen_dis_cb |-> 0, chain_wen_cb |-> 1])
<1>5. ASSUME fits
      PROVE  /\ \A k \in DOMAIN f : ~(Size(f[k]) > 32768)
             /\ o.dev.fir = [sel |-> sel, taps |-> taps]
  <2> DEFINE u == <<sel>>
  <2>1. Asked(e, found, "set_fir") = [cmd |-> "set_fir", F |-> f, U |-> u, bytes |-> 18 + Len(f) * e.width]
    BY DEF Asked, api_set_fir_coeffs, _send_fir_coeffs
  <2>2. "set_fir" \in DOMAIN Required /\ Required["set_fir"] = <<0, 1>>
    BY DEF Required
  <2>3. 18 + Len(f) * e.width \in Nat
    <3>1. \A a \in Nat, b \in Nat : 18 + a * b \in Nat
      OBVIOUS
    <3> QED
      BY <1>1, <3>1
  <2>4. Len(f) <= FLOAT_ARGS
    BY <1>1, <1>2, <1>5
  <2>5. Len(u) \in Nat /\ Len(f) >= Required["set_fir"][1] /\ Len(u) >= Required["set_fir"][2]
    BY <1>1, <2>2
  <2>6. Arg(u, 1) = sel /\ Unsigned(sel) = sel
    BY <1>1 DEF Arg, Unsigned
  <2> HIDE DEF f, u, sel
  <2>7. o \in cmd_set_fir(d, f, u)
    <3>1. 18 + Len(f) * e.width <= MAX_BYTES
      BY <1>5
    <3> DEFINE size == 18 + Len(f) * e.width
    <3> HIDE DEF size, fits
    <3>2. size \in Nat /\ size <= MAX_BYTES
      BY <2>3, <3>1 DEF size
    <3>3. Handle(d, p, [cmd |-> "set_fir", F |-> f, U |-> u, bytes |-> size]) = Execute(d, p, "set_fir", f, u)
      BY <1>1, <2>2, <2>4, <2>5, <3>2, Reaches
    <3> QED
      BY <2>1, <3>3 DEF Execute, size
  <2>8. cmd_set_fir(d, f, u) = taken(Unsigned(Arg(u, 1)))
    BY DEF cmd_set_fir
  <2>9. o \in taken(sel)
    <3> HIDE DEF taken
    <3> QED
      BY <2>6, <2>7, <2>8
  <2> HIDE DEF taps
  <2> QED
    BY <2>9 DEF Checked, Refused, Outcome, Registers
<1>6. ASSUME fits, NEW k \in DOMAIN f
      PROVE  Size(o.dev.fir.taps[k] - f[k]) <= 1
  <2>1. k \in 1 .. NTAPS /\ k <= Len(f) /\ k \in Int /\ f[k] \in Int
    BY <1>1, <1>2, <1>6
  <2>2. ASSUME NEW j \in DOMAIN f, j % NTAPS = k % NTAPS
        PROVE  j = k
    <3>1. j \in 1 .. NTAPS
      BY <1>1, <1>2, <1>6
    <3>2. ASSUME NEW i \in 1 .. NTAPS PROVE i % NTAPS = IF i = NTAPS THEN 0 ELSE i
      BY <1>2, <3>2
    <3> QED
      BY <1>2, <2>1, <2>2, <3>1, <3>2
  <2>3. LastOf(f, k) = k
    <3>1. \A i \in DOMAIN f : i % NTAPS = k % NTAPS => i <= k
      BY <2>1, <2>2
    <3> QED
      BY <2>2, <3>1 DEF LastOf
  <2>4. o.dev.fir.taps[k] = Q16(f[k])
    <3>1. o.dev.fir.taps = taps
      <4> HIDE DEF fits, taps
      <4> QED
        BY <1>5, <1>6
    <3>2. taps[k] = Q16(f[LastOf(f, k)])
      BY <2>1
    <3> QED
      BY <2>3, <3>1, <3>2
  <2>5. PICK x \in Int : x = f[k]
    BY <2>1
  <2>6. ~(Size(x) > 32768)
    BY <1>5, <1>6, <2>5
  <2>7. Size(Q16(x) - x) <= 1
    BY <2>6 DEF Size, Q16, Clamp
  <2> QED
    BY <2>4, <2>5, <2>7
<1>7. fits => Selected(FirIn, o.dev.fir.sel) = Signal[e.sel]
  BY <1>1, <1>5
<1> HIDE DEF fits, taps, taken
<1>8. Documented(e) => InForce(o.dev, e)
  BY <1>3, <1>6, <1>7 DEF InForce
<1>9. e.by = "gui" => Held(o.dev, e, Feedback(e, Result(e.op, Answer(o))))
  BY <1>4, <1>7 DEF Held, Feedback, OnOkFir
<1> QED
  BY <1>8, <1>9 DEF Granted

\* The handlers together.
LEMMA Grants ==
  ASSUME NEW d, Registers(d), NEW p, NEW found, NEW e, Entered(e), Accepted(e), e.op \in Settings,
         NEW o \in Handle(d, p, Asked(e, found, e.op)), o.status = 0
  PROVE  Granted(o.dev, e, Answer(o))
<1>1. CASE e.op = "set_led"
  BY <1>1, GrantsLed
<1>2. CASE e.op = "reset_fpga"
  BY <1>2, GrantsReset
<1>3. CASE e.op = "set_dac"
  BY <1>3, GrantsDac
<1>4. CASE e.op = "set_rotation"
  BY <1>4, GrantsRotation
<1>5. CASE e.op = "set_nco"
  BY <1>5, GrantsNco
<1>6. CASE e.op = "set_pid"
  BY <1>6, GrantsPid
<1>7. CASE e.op = "set_fir"
  BY <1>7, GrantsFir
<1>8. CASE e.op = "config_io"
  BY <1>8, GrantsIo
<1>9. CASE e.op = "config_demod"
  BY <1>9, GrantsDemod
<1> QED
  BY <1>1, <1>2, <1>3, <1>4, <1>5, <1>6, <1>7, <1>8, <1>9 DEF Settings

\* No command but config_io and reset_fpga leaves the routing changed, unless it
\* answers with an error; cmd_sweep_ramp gives it back.
LEMMA Kept ==
  ASSUME NEW d, Registers(d), NEW p, NEW request, request.cmd \in DOMAIN Required,
         NEW o \in Handle(d, p, request)
  PROVE  /\ Registers(o.dev)
         /\ request.cmd \notin {"config_io", "reset_fpga"} /\ o.status = 0 => o.dev.io = d.io
<1> DEFINE kept(x) == Registers(x.dev) /\ (x.status = 0 => x.dev.io = d.io)
<1>1. ASSUME NEW s, NEW out PROVE kept(Outcome(d, s, out))
  BY DEF Outcome
<1>2. ASSUME NEW x, x \in Refused(d) PROVE kept(x)
  BY <1>2, <1>1 DEF Refused
<1>3. Registers(ResetDevice)
  BY DEF Registers, ResetDevice
<1>4. ASSUME NEW f, NEW u, o \in cmd_set_led(d, f, u) PROVE kept(o)
  BY <1>2, <1>4 DEF cmd_set_led, Ok, Outcome, Registers
<1>5. ASSUME NEW f, NEW u, o \in cmd_get_adc(d, f, u) PROVE kept(o)
  BY <1>5 DEF cmd_get_adc, Ok, Outcome
<1>6. ASSUME NEW f, NEW u, o \in cmd_check_signed(d, f, u) PROVE kept(o)
  BY <1>6 DEF cmd_check_signed, Checked, Outcome
<1>7. ASSUME NEW f, NEW u, o \in cmd_set_dac(d, f, u) PROVE kept(o)
  BY <1>7 DEF cmd_set_dac, Ok, Outcome, Registers
<1>8. ASSUME NEW f, NEW u, o \in cmd_set_rot(d, f, u) PROVE kept(o)
  BY <1>8 DEF cmd_set_rot, Ok, Outcome, Registers
<1>9. ASSUME NEW f, NEW u, o \in cmd_set_nco(d, f, u) PROVE kept(o)
  BY <1>2, <1>9 DEF cmd_set_nco, Checked, Outcome, Registers
<1>10. ASSUME NEW f, NEW u, o \in cmd_set_pid(d, f, u) PROVE kept(o)
  BY <1>10 DEF cmd_set_pid, Checked, Outcome, Registers
<1>11. ASSUME NEW f, NEW u, o \in cmd_set_fir(d, f, u) PROVE kept(o)
  BY <1>2, <1>11 DEF cmd_set_fir, Checked, Outcome, Registers
<1>12. ASSUME NEW f, NEW u, o \in cmd_config_demod(d, f, u) PROVE kept(o)
  BY <1>2, <1>12 DEF cmd_config_demod, Ok, Outcome, Registers
<1>13. ASSUME NEW f, NEW u, o \in cmd_get_frame(d, f, u) PROVE kept(o)
  BY <1>13 DEF cmd_get_frame
<1>14. ASSUME NEW f, NEW u, o \in cmd_sweep_ramp(d, p, f, u) PROVE kept(o)
  <2> DEFINE forced == [d EXCEPT !.io.dac1 = 0]
             file == Ramp(forced, p, f, u)
  <2>1. kept([dev |-> [d EXCEPT !.dac[file.dac] = SweepCode(file.v[u[1]])],
              status |-> 0, out |-> [num_points_cb |-> u[1]], file |-> file])
    <3> HIDE DEF file
    <3> QED
      BY DEF Registers
  <2>2. ASSUME NEW x, x \in Refused(forced) PROVE kept(x)
    BY <2>2 DEF Refused, Outcome, Registers
  <2>3. \/ o \in Refused(d) \/ o \in Refused(forced)
        \/ o = [dev |-> [d EXCEPT !.dac[file.dac] = SweepCode(file.v[u[1]])],
                status |-> 0, out |-> [num_points_cb |-> u[1]], file |-> file]
    <3> HIDE DEF file, forced
    <3> QED
      BY <1>14 DEF cmd_sweep_ramp, file, forced
  <2> QED
    BY <1>2, <2>1, <2>2, <2>3
<1>15. ASSUME NEW f, NEW u, o \in cmd_config_io(d, f, u) PROVE Registers(o.dev)
  BY <1>2, <1>3, <1>15 DEF cmd_config_io, Ok, Refused, Outcome, Registers
<1>16. ASSUME NEW f, NEW u, o \in cmd_reset_fpga(d, f, u) PROVE Registers(o.dev)
  BY <1>3, <1>16 DEF cmd_reset_fpga, Ok, Outcome
<1>17. PICK f, u : o \in Ok(d, NoOutput) \/ o \in Execute(d, p, request.cmd, f, u)
  BY DEF Handle
<1>18. CASE o \in Ok(d, NoOutput)
  BY <1>18 DEF Ok, Outcome
<1>19. CASE o \in Execute(d, p, request.cmd, f, u)
  <2> HIDE DEF kept
  <2>1. request.cmd \notin {"config_io", "reset_fpga"} => kept(o)
    BY <1>4, <1>5, <1>6, <1>7, <1>8, <1>9, <1>10, <1>11, <1>12, <1>13, <1>14, <1>19 DEF Execute, Required
  <2>2. request.cmd \in {"config_io", "reset_fpga"} => Registers(o.dev)
    BY <1>15, <1>16, <1>19 DEF Execute
  <2> QED
    BY <2>1, <2>2 DEF kept
<1> QED
  BY <1>17, <1>18, <1>19

----------------------------------------------------------------------------
(* The steps of a call.                                                    *)

\* Every command of an operation is one the server knows, and a setting is its own
\* and only command.
LEMMA Sent ==
  ASSUME NEW e, Entered(e), NEW found, NEW k \in 1 .. Len(Commands(e.op)),
         NEW cmd, cmd = Commands(e.op)[k]
  PROVE  /\ Asked(e, found, cmd).cmd = cmd
         /\ cmd \in DOMAIN Required
         /\ e.op \in Settings => Len(Commands(e.op)) = 1 /\ cmd = e.op
         /\ cmd \in {"config_io", "reset_fpga"} =>
              e.op = cmd \/ (e.op = "autolock" /\ cmd = "config_io")
         /\ e.op = "autolock" /\ cmd \in Fetches => k < Len(Commands(e.op))
<1>1. e.op \in {"set_led", "reset_fpga", "set_dac", "set_rotation", "set_nco", "set_pid", "set_fir", "config_io",
                "config_demod", "get_adc", "check_signed", "get_frame", "psd", "control_metrics", "sweep_ramp",
                "lockpoint", "autolock"}
  BY DEF Entered
<1>2. CASE e.op \in {"psd", "control_metrics", "get_frame"}
  <2>1. Commands(e.op) = <<"get_frame">>
    BY <1>2 DEF Commands
  <2>2. Len(Commands(e.op)) = 1 /\ cmd = "get_frame"
    BY <2>1
  <2>3. Asked(e, found, cmd).cmd = cmd /\ cmd \in DOMAIN Required
    BY <2>2 DEF Asked, api_get_frame, Request, Required
  <2> QED
    BY <1>2, <2>2, <2>3 DEF Settings
<1>3. CASE e.op = "lockpoint"
  <2>1. Commands(e.op) = <<"sweep_ramp">>
    BY <1>3 DEF Commands
  <2>2. Len(Commands(e.op)) = 1 /\ cmd = "sweep_ramp"
    BY <2>1
  <2>3. Asked(e, found, cmd).cmd = cmd /\ cmd \in DOMAIN Required
    BY <2>2 DEF Asked, api_sweep_ramp, Request, Required
  <2> QED
    BY <1>3, <2>2, <2>3 DEF Settings
<1>4. CASE e.op = "autolock"
  <2>1. Commands(e.op) = <<"sweep_ramp", "config_io", "set_pid">>
    BY <1>4 DEF Commands
  <2>2. /\ Len(Commands(e.op)) = 3
        /\ (cmd = "sweep_ramp" /\ k = 1) \/ (cmd = "config_io" /\ k = 2) \/ (cmd = "set_pid" /\ k = 3)
    <3>1. Len(Commands(e.op)) = 3
      BY <2>1
    <3>2. k = 1 \/ k = 2 \/ k = 3
      BY <3>1
    <3>3. CASE k = 1
      BY <2>1, <3>1, <3>3
    <3>4. CASE k = 2
      BY <2>1, <3>1, <3>4
    <3>5. CASE k = 3
      BY <2>1, <3>1, <3>5
    <3> QED
      BY <3>2, <3>3, <3>4, <3>5
  <2>3. Asked(e, found, cmd).cmd = cmd /\ cmd \in DOMAIN Required
    BY <2>2 DEF Asked, api_sweep_ramp, api_config_io, api_set_pid, Request, Required
  <2> QED
    BY <1>4, <2>2, <2>3 DEF Settings, Fetches
<1>5. CASE e.op \notin {"psd", "control_metrics", "get_frame", "lockpoint", "autolock"}
  <2>1. Commands(e.op) = <<e.op>>
    BY <1>1, <1>5 DEF Commands
  <2>2. Len(Commands(e.op)) = 1 /\ cmd = e.op
    BY <2>1
  <2>3. cmd \in DOMAIN Required
    BY <1>1, <1>5, <2>2 DEF Required
  <2>4. Asked(e, found, cmd).cmd = cmd
    BY <1>1, <1>5, <2>2
    DEF Asked, Request, api_reset_fpga, api_set_led, api_get_adc, api_set_dac, api_check_signed, api_set_rotation,
        api_set_nco, api_set_pid, _send_fir_coeffs, api_set_fir_coeffs, api_config_io, api_config_demod, api_sweep_ramp
  <2> QED
    <3>1. cmd \in {"config_io", "reset_fpga"} => e.op = cmd
      BY <2>2
    <3>2. e.op /= "autolock"
      BY <1>5
    <3> QED
      BY <2>2, <2>3, <2>4, <3>1, <3>2
<1> QED
  BY <1>2, <1>3, <1>4, <1>5

\* What an executed command makes due holds of the device it leaves.
LEMMA DueHolds ==
  ASSUME Registers(dev), Entered(entry), stage \in 1 .. Len(Commands(entry.op)),
         asked /= Unknown => Routed(dev, asked),
         NEW o \in Handle(dev, plant, Asked(entry, lock, Command)), Due(o) /= Unknown
  PROVE  Routed(o.dev, Due(o))
<1>1. o.status = 0
  BY DEF Due
<1>2. CASE Command = "reset_fpga"
  <2>1. entry.op = "reset_fpga"
    BY <1>2, Sent DEF Command
  <2>2. Granted(o.dev, entry, Answer(o))
    BY <1>1, <1>2, <2>1, GrantsReset
  <2>3. o.dev = ResetDevice
    BY <2>1, <2>2 DEF Granted, Documented, InForce
  <2>4. Routed(ResetDevice, AtReset)
    BY DEF Routed, ResetDevice, AtReset, Selected, DacFeed, PidIn, Signal
  <2> QED
    BY <1>1, <1>2, <2>3, <2>4 DEF Due
<1>3. CASE Command = "config_io"
  <2> DEFINE r == IF entry.op = "autolock" THEN LockRouting(entry) ELSE entry
  <2>1. Asked(entry, lock, Command) = api_config_io(r)
    BY <1>3 DEF Asked
  <2>2. entry.op = "autolock" \/ entry.op = "config_io"
    BY <1>3, Sent DEF Command
  <2>3. r.dac1 \in DOMAIN DacDatSel /\ r.dac2 \in DOMAIN DacDatSel /\ r.pid_sel \in DOMAIN PidDatSel
    <3>1. CASE entry.op = "autolock"
      <4>1. entry.chan \in Channels /\ entry.dac2 \in DOMAIN DacDatSel
        BY <3>1, LockEntered
      <4>2. r.dac1 = "PID" /\ r.dac2 = entry.dac2 /\ r.pid_sel = ChanToPidSel[entry.chan]
        BY <3>1 DEF LockRouting
      <4> QED
        BY <4>1, <4>2 DEF ChanToPidSel, Channels, DacDatSel, PidDatSel
    <3>2. CASE entry.op = "config_io"
      BY <3>2 DEF Entered
    <3> QED
      BY <2>2, <3>1, <3>2
  <2>4. Due(o) = [dac1 |-> r.dac1, dac2 |-> r.dac2, pid_sel |-> r.pid_sel]
    BY <1>1, <1>3 DEF Due
  <2> HIDE DEF r
  <2>5. Routed(o.dev, r)
    BY <1>1, <2>1, <2>3, Routes
  <2> QED
    BY <2>4, <2>5 DEF Routed
<1>4. CASE Command \notin {"config_io", "reset_fpga"}
  <2>1. Due(o) = asked
    BY <1>1, <1>4 DEF Due
  <2>2. o.dev.io = dev.io
    BY <1>1, <1>4, Sent, Kept DEF Command
  <2> QED
    BY <2>1, <2>2 DEF Routed
<1> QED
  BY <1>2, <1>3, <1>4

\* The device, the answer of its handler and what a panel shows agree at every step of
\* a call, whatever answers are lost on the way.
THEOREM Consistency == Spec => []Consistent
<1>1. Init => Consistent
  <2>1. SUFFICES ASSUME Init PROVE Consistent
    OBVIOUS
  <2>2. entry \in Entries /\ dev = ResetDevice /\ pc = "idle" /\ shown.ok = FALSE /\ asked = AtReset
    BY <2>1 DEF Init, Blank
  <2>3. Registers(ResetDevice) /\ Routed(ResetDevice, AtReset)
    BY DEF Registers, Routed, ResetDevice, AtReset, Selected, DacFeed, PidIn, Signal
  <2> QED
    BY <2>2, <2>3 DEF Consistent, OkMeansInForce, ShownIsHeld
<1>2. Consistent /\ [Next]_vars => Consistent'
  <2> SUFFICES ASSUME Consistent, [Next]_vars PROVE Consistent'
    OBVIOUS
  <2>0. Entered(entry)
    BY EntriesEntered DEF Consistent
  <2>1. ASSUME NEW e \in Entries, Enter(e) PROVE Consistent'
    <3>1. shown'.ok = FALSE /\ shown' = Blank
      BY <2>1 DEF Enter, Blank
    <3>2. Len(Commands(e.op)) >= 1 /\ Len(Commands(e.op)) \in Nat
      BY DEF Commands
    <3> QED
      BY <2>1, <3>1, <3>2 DEF Enter, Consistent, OkMeansInForce, ShownIsHeld
  <2>2. CASE Exchange
    <3>1. PICK o \in Handle(dev, plant, Asked(entry, lock, Command)), lost \in BOOLEAN :
            /\ dev' = o.dev /\ asked' = Due(o)
            /\ reply' = IF lost THEN NoReply ELSE [status |-> o.status, out |-> o.out]
      BY <2>2 DEF Exchange
    <3>2. /\ pc = "exchange" /\ pc' = "handle" /\ entry' = entry /\ stage' = stage /\ shown' = shown
          /\ Accepted(entry) /\ stage \in 1 .. Len(Commands(entry.op)) /\ shown = Blank /\ Registers(dev)
          /\ asked /= Unknown => Routed(dev, asked)
      BY <2>2 DEF Exchange, Consistent
    <3>3. Registers(dev')
      <4>1. Asked(entry, lock, Command).cmd \in DOMAIN Required
        BY <2>0, <3>2, Sent DEF Command
      <4> QED
        BY <3>1, <3>2, <4>1, Kept
    <3>4. asked' /= Unknown => Routed(dev', asked')
      BY <2>0, <3>1, <3>2, DueHolds
    <3>5. ASSUME reply'.status = 0, entry.op \in Settings
          PROVE  Granted(dev', entry, reply')
      <4>1. reply' = Answer(o) /\ o.status = 0
        BY <3>1, <3>5 DEF NoReply, Answer
      <4>2. Command = entry.op
        BY <2>0, <3>2, <3>5, Sent DEF Command
      <4> QED
        BY <2>0, <3>1, <3>2, <3>5, <4>1, <4>2, Grants
    <3> QED
      BY <3>2, <3>3, <3>4, <3>5 DEF Consistent, OkMeansInForce, ShownIsHeld
  <2>3. CASE Unreached
    BY <2>3 DEF Unreached, NoReply, Consistent, OkMeansInForce, ShownIsHeld
  <2>4. CASE Raise
    BY <2>4 DEF Raise, Fail, Blank, Consistent, OkMeansInForce, ShownIsHeld
  <2>5. CASE Return
    <3>1. /\ pc = "handle" /\ reply.status = 0 /\ entry' = entry /\ dev' = dev /\ asked' = asked
          /\ Accepted(entry) /\ stage \in 1 .. Len(Commands(entry.op)) /\ shown = Blank /\ Len(Commands(entry.op)) \in Nat
      BY <2>5 DEF Return, Consistent, Commands
    <3>2. CASE stage < Len(Commands(entry.op))
      BY <2>5, <3>1, <3>2 DEF Return, Consistent, OkMeansInForce, ShownIsHeld
    <3>3. CASE ~(stage < Len(Commands(entry.op))) /\ entry.op \in Settings
      <4>1. Granted(dev, entry, reply)
        BY <3>1, <3>3 DEF Consistent
      <4>2. Command = entry.op /\ entry.op /= "autolock"
        BY <2>0, <3>1, <3>3, Sent DEF Command, Settings
      <4>3. pc' = "idle" /\ shown' = [ok |-> TRUE, feedback |-> Feedback(entry, Result(entry.op, reply))]
        BY <2>5, <3>3, <4>2 DEF Return
      <4> QED
        BY <3>1, <4>1, <4>3 DEF Granted, Consistent, OkMeansInForce, ShownIsHeld
    <3>4. CASE ~(stage < Len(Commands(entry.op))) /\ entry.op \notin Settings
      <4>1. pc' = "idle"
        BY <2>5, <3>4 DEF Return
      <4>2. InForce(dev', entry') /\ Held(dev', entry', shown'.feedback)
        BY <3>1, <3>4 DEF InForce, Held, Settings
      <4> QED
        BY <3>1, <4>1, <4>2 DEF Consistent, OkMeansInForce, ShownIsHeld
    <3> QED
      BY <3>2, <3>3, <3>4
  <2>6. CASE Fetch
    BY <2>6 DEF Fetch, Command, Consistent, OkMeansInForce, ShownIsHeld
  <2>7. CASE FetchFails
    BY <2>7 DEF FetchFails, Fail, Blank, Consistent, OkMeansInForce, ShownIsHeld
  <2>8. CASE Show
    <3>1. /\ pc = "analyse" /\ pc' = "idle" /\ entry' = entry /\ dev' = dev /\ asked' = asked
          /\ Command \in Fetches /\ stage \in 1 .. Len(Commands(entry.op))
      BY <2>8 DEF Show, Consistent
    <3>2. entry.op \notin Settings
      BY <2>0, <3>1, Sent DEF Command, Fetches, Settings
    <3>3. InForce(dev', entry') /\ Held(dev', entry', shown'.feedback)
      BY <3>1, <3>2 DEF InForce, Held, Settings
    <3> QED
      BY <3>1, <3>3 DEF Consistent, OkMeansInForce, ShownIsHeld
  <2>9. CASE FindLock
    <3>1. /\ pc = "analyse" /\ entry' = entry /\ dev' = dev /\ asked' = asked /\ shown' = shown
          /\ Accepted(entry) /\ stage \in 1 .. Len(Commands(entry.op)) /\ shown = Blank
          /\ entry.op = "autolock" /\ Command \in Fetches
          /\ \/ pc' = "exchange" /\ stage' = stage + 1
             \/ pc' = "idle"
      BY <2>9 DEF FindLock, Consistent
    <3>2. stage + 1 \in 1 .. Len(Commands(entry.op))
      BY <2>0, <3>1, Sent DEF Command
    <3>3. shown'.ok = FALSE
      BY <3>1 DEF Blank
    <3> QED
      BY <3>1, <3>2, <3>3 DEF Consistent, OkMeansInForce, ShownIsHeld
  <2>10. CASE UNCHANGED vars
    BY <2>10 DEF vars, Command, Consistent, OkMeansInForce, ShownIsHeld
  <2> QED
    BY <2>1, <2>2, <2>3, <2>4, <2>5, <2>6, <2>7, <2>8, <2>9, <2>10 DEF Next
<1> QED
  BY <1>1, <1>2, PTL DEF Spec

\* A call that returns without an error has put into the registers what was entered.
THEOREM SettingsInForce == Spec => []OkMeansInForce
<1>1. Consistent => OkMeansInForce
  BY DEF Consistent
<1> QED
  BY <1>1, Consistency, PTL

\* The feedback that a panel shows after a call is what the device holds.
THEOREM FeedbackHeld == Spec => []ShownIsHeld
<1>1. Consistent => ShownIsHeld
  BY DEF Consistent
<1> QED
  BY <1>1, Consistency, PTL

\* The outputs and the PID input stay on the signals that were last asked for, over
\* sweeps, frames and lost answers.
THEOREM RoutingKept == Spec => []RoutingFollows
<1>1. Consistent => RoutingFollows
  BY DEF Consistent, RoutingFollows
<1> QED
  BY <1>1, Consistency, PTL

----------------------------------------------------------------------------
(* The autolock: three commands, of which the last two must leave the PID  *)
(* on the channel that was swept.                                          *)

Engaged(d, e) == Routed(d, LockRouting(e)) /\ d.pid.en = 1 /\ d.pid.sp = 0

Engaging ==
  entry.op = "autolock" =>
    /\ pc = "handle" /\ stage = 2 /\ reply.status = 0 => Routed(dev, LockRouting(entry))
    /\ pc = "exchange" /\ stage = 3 => Routed(dev, LockRouting(entry))
    /\ pc = "handle" /\ stage = 3 /\ reply.status = 0 => Engaged(dev, entry)
    /\ pc = "idle" /\ shown.ok => Engaged(dev, entry)

\* The output rests at the voltage of a lock that was found, and the input gain is that of
\* its slope.
Settled(d, found) ==
  /\ d.pid.bias = Clamp(HalfEven(8191 * found.v, 8192), -8191, 8191)
  /\ d.pid.egain = Q16(InputGain(found.slope))

\* Whatever lock was found, a set_pid of it that is answered without an error leaves
\* the PID enabled at setpoint zero, settled on it, and the routing as it was.
LEMMA Engages ==
  ASSUME NEW d, Registers(d), NEW p, NEW found, NEW e, Entered(e), e.op = "autolock",
         NEW o \in Handle(d, p, Asked(e, found, "set_pid")), o.status = 0
  PROVE  o.dev.pid.en = 1 /\ o.dev.pid.sp = 0 /\ o.dev.io = d.io /\ Settled(o.dev, found)
<1> DEFINE q == LockSettings(e, found).pid
           f == <<q.kp, q.kd, q.ki, q.sp, q.gain, q.bias, q.egain>>
           u == <<q.dec, q.alpha, q.sat, q.en>>
           S == {q.kp, q.kd, q.ki, q.sp, q.gain, q.bias, q.egain}
<1>1. /\ q.sp = 0 /\ q.en = 1
      /\ q.bias = HalfEven(8191 * found.v, 8192) /\ q.egain = InputGain(found.slope)
  <2>1. e.pid \in [kp : Int, ki : Int, kd : Int, sp : Int, gain : Int, bias : Int, egain : Int,
                   dec : Int, alpha : Int, sat : Int, en : Int]
    BY DEF Entered
  <2>2. \A b, g : [e.pid EXCEPT !.sp = 0, !.en = 1, !.bias = b, !.egain = g].sp = 0
                /\ [e.pid EXCEPT !.sp = 0, !.en = 1, !.bias = b, !.egain = g].en = 1
                /\ [e.pid EXCEPT !.sp = 0, !.en = 1, !.bias = b, !.egain = g].bias = b
                /\ [e.pid EXCEPT !.sp = 0, !.en = 1, !.bias = b, !.egain = g].egain = g
    BY <2>1
  <2>3. \A x : [pid |-> x].pid = x
    OBVIOUS
  <2>4. q = [e.pid EXCEPT !.sp = 0, !.en = 1, !.bias = HalfEven(8191 * found.v, 8192),
                         !.egain = InputGain(found.slope)]
    <3> DEFINE x == [e.pid EXCEPT !.sp = 0, !.en = 1, !.bias = HalfEven(8191 * found.v, 8192),
                                  !.egain = InputGain(found.slope)]
    <3>1. LockSettings(e, found) = [pid |-> x]
      BY SMT DEF LockSettings, x
    <3> HIDE DEF x
    <3>2. LockSettings(e, found).pid = x
      BY <2>3, <3>1
    <3> QED
      BY <3>2 DEF x
  <2> HIDE DEF q
  <2> QED
    BY <2>2, <2>4
<1>2. Asked(e, found, "set_pid") = [cmd |-> "set_pid", F |-> f, U |-> u, bytes |-> 64]
  BY DEF Asked, api_set_pid, Request
<1> HIDE DEF q
<1>3. f \in Seq(S) /\ Len(f) = 7 /\ Len(u) = 4
  OBVIOUS
<1>4. "set_pid" \in DOMAIN Required /\ Required["set_pid"] = <<4, 4>>
  BY DEF Required
<1>5. /\ Arg(f, 4) = 0 /\ Arg(u, 4) = 1
      /\ Arg(f, 6) = HalfEven(8191 * found.v, 8192) /\ Arg(f, 7) = InputGain(found.slope)
  BY <1>1 DEF Arg
<1> HIDE DEF f, u, S
<1>6. o \in cmd_set_pid(d, f, u)
  <2>1. Len(f) <= FLOAT_ARGS /\ 64 <= MAX_BYTES
    BY <1>3, HandlersAssumption
  <2>2. Len(u) \in Nat /\ Len(f) >= Required["set_pid"][1] /\ Len(u) >= Required["set_pid"][2]
    BY <1>3, <1>4
  <2>3. Handle(d, p, [cmd |-> "set_pid", F |-> f, U |-> u, bytes |-> 64]) = Execute(d, p, "set_pid", f, u)
    BY <1>3, <1>4, <2>1, <2>2, Delivers
  <2> QED
    BY <1>2, <2>3 DEF Execute
<1>7. Unsigned(1) % 2 = 1 /\ Clamp(0, -8192, 8191) = 0
  BY DEF Unsigned, Clamp
<1>8. /\ o.dev.pid.en = Unsigned(Arg(u, 4)) % 2 /\ o.dev.pid.sp = Clamp(Arg(f, 4), -8192, 8191) /\ o.dev.io = d.io
      /\ o.dev.pid.bias = Clamp(Arg(f, 6), -8191, 8191) /\ o.dev.pid.egain = Q16(Arg(f, 7))
  BY <1>6 DEF cmd_set_pid, Checked, Outcome, Registers
<1> QED
  BY <1>5, <1>7, <1>8 DEF Settled

\* An autolock that reports a lock has enabled the PID at setpoint zero, on the channel
\* that was swept, for every lock point and every entry.
THEOREM AutolockEngages == Spec => []LockEngaged
<1>1. Init => Engaging
  BY DEF Init, Engaging
<1>2. Consistent /\ Consistent' /\ Engaging /\ [Next]_vars => Engaging'
  <2> SUFFICES ASSUME Consistent, Consistent', Engaging, [Next]_vars, entry'.op = "autolock" PROVE Engaging'
    BY DEF Engaging
  <2>1. ASSUME NEW e \in Entries, Enter(e) PROVE Engaging'
    BY <2>1 DEF Enter, Blank, Engaging
  <2>2. CASE Exchange
    <3>1. PICK o \in Handle(dev, plant, Asked(entry, lock, Command)), lost \in BOOLEAN :
            /\ dev' = o.dev
            /\ reply' = IF lost THEN NoReply ELSE [status |-> o.status, out |-> o.out]
      BY <2>2 DEF Exchange
    <3>2. /\ pc = "exchange" /\ pc' = "handle" /\ entry' = entry /\ stage' = stage
          /\ entry.op = "autolock" /\ Entered(entry) /\ Registers(dev)
      BY <2>2, EntriesEntered DEF Exchange, Consistent
    <3>3. stage = 2 => Command = "config_io"
      BY <3>2 DEF Command, Commands
    <3>4. stage = 3 => Command = "set_pid"
      BY <3>2 DEF Command, Commands
    <3>5. reply'.status = 0 => o.status = 0
      BY <3>1 DEF NoReply
    <3>6. ASSUME stage = 2, o.status = 0 PROVE Routed(dev', LockRouting(entry))
      <4> DEFINE r == LockRouting(entry)
      <4>1. o \in Handle(dev, plant, api_config_io(r))
        BY <3>1, <3>2, <3>3, <3>6 DEF Asked
      <4>2. r.dac1 \in DOMAIN DacDatSel /\ r.dac2 \in DOMAIN DacDatSel /\ r.pid_sel \in DOMAIN PidDatSel
        BY <3>2 DEF Entered, LockRouting, ChanToPidSel, Channels, DacDatSel, PidDatSel
      <4> HIDE DEF r
      <4>3. Routed(o.dev, r)
        BY <3>2, <3>6, <4>1, <4>2, Routes
      <4> QED
        BY <3>1, <4>3 DEF r
    <3>7. ASSUME stage = 3, o.status = 0 PROVE Engaged(dev', entry)
      <4>1. o.dev.pid.en = 1 /\ o.dev.pid.sp = 0 /\ o.dev.io = dev.io
        BY <3>1, <3>2, <3>4, <3>7, Engages
      <4>2. Routed(dev, LockRouting(entry))
        BY <3>2, <3>7 DEF Engaging
      <4> QED
        BY <3>1, <4>1, <4>2 DEF Engaged, Routed
    <3> QED
      BY <3>2, <3>5, <3>6, <3>7 DEF Engaging
  <2>3. CASE Unreached
    BY <2>3 DEF Unreached, NoReply, Engaging
  <2>4. CASE Raise
    BY <2>4 DEF Raise, Fail, Blank, Consistent, Engaging
  <2>5. CASE Return
    <3>1. /\ pc = "handle" /\ reply.status = 0 /\ entry' = entry /\ dev' = dev /\ entry.op = "autolock"
          /\ stage \in 1 .. Len(Commands(entry.op)) /\ shown = Blank
      BY <2>5 DEF Return, Consistent
    <3>2. Len(Commands(entry.op)) = 3 /\ stage \in {1, 2, 3}
      <4>1. Commands(entry.op) = <<"sweep_ramp", "config_io", "set_pid">>
        BY <3>1 DEF Commands
      <4>2. Len(Commands(entry.op)) = 3
        BY <4>1
      <4>3. \A k \in 1 .. 3 : k \in {1, 2, 3}
        OBVIOUS
      <4>4. stage \in 1 .. 3
        BY <3>1, <4>2
      <4> QED
        BY <4>2, <4>3, <4>4
    <3>3. stage /= 1
      BY <2>5, <3>1 DEF Return, Command, Commands, Fetches
    <3>4. \/ stage = 2 /\ pc' = "exchange" /\ stage' = 3
          \/ stage = 3 /\ pc' = "idle"
      BY <2>5, <3>2, <3>3 DEF Return
    <3> QED
      BY <3>1, <3>4 DEF Engaging
  <2>6. CASE Fetch
    BY <2>6 DEF Fetch, Engaging
  <2>7. CASE FetchFails
    BY <2>7 DEF FetchFails, Fail, Blank, Consistent, Engaging
  <2>8. CASE Show
    BY <2>8 DEF Show
  <2>9. CASE FindLock
    <3>1. Command \in Fetches /\ shown = Blank /\ pc = "analyse" /\ entry' = entry /\ shown' = shown
          /\ entry.op = "autolock" /\ stage \in 1 .. Len(Commands(entry.op)) /\ Entered(entry)
          /\ \/ pc' = "exchange" /\ stage' = stage + 1
             \/ pc' = "idle"
      BY <2>9, EntriesEntered DEF FindLock, Consistent
    <3>2. Commands(entry.op) = <<"sweep_ramp", "config_io", "set_pid">>
      BY <3>1 DEF Commands
    <3>3. stage /= 2 /\ stage \in Int
      BY <3>1, <3>2 DEF Command, Fetches
    <3> QED
      BY <3>1, <3>3 DEF Blank, Engaging
  <2>10. CASE UNCHANGED vars
    BY <2>10 DEF vars, Engaging
  <2> QED
    BY <2>1, <2>2, <2>3, <2>4, <2>5, <2>6, <2>7, <2>8, <2>9, <2>10 DEF Next
<1>3. Consistent /\ Engaging => LockEngaged
  <2> SUFFICES ASSUME Consistent, Engaging, Shows("autolock") PROVE LockEngaged
    BY DEF LockEngaged
  <2>1. Engaged(dev, entry)
    BY DEF Engaging, Shows
  <2>2. entry.chan \in Channels
    BY EntriesEntered, LockEntered DEF Consistent, Shows
  <2>3. Signal[ChanToPidSel[entry.chan]] = ChannelSignal[entry.chan]
    BY <2>2 DEF Channels, Signal, ChanToPidSel, ChannelSignal
  <2> QED
    BY <2>1, <2>3 DEF LockEngaged, Engaged, LockRouting, Routed
<1> QED
  BY <1>1, <1>2, <1>3, Consistency, PTL DEF Spec

----------------------------------------------------------------------------
(* What _autolock_bg computes: np.argmax, np.gradient, and the steepest    *)
(* point of a strictly monotone part of a sweep in equal steps.  The proofs *)
(* that go along a column are inductions for a set of numbers (Climb).     *)

\* A set of numbers that has 0 and every successor has them all: induction, for a set.
LEMMA Climb ==
  ASSUME NEW T, 0 \in T, \A k \in Nat : k \in T => k + 1 \in T
  PROVE  \A k \in Nat : k \in T
<1> DEFINE rest == {k \in Nat : k \notin T}
<1> SUFFICES ASSUME rest # {} PROVE FALSE
  OBVIOUS
<1>1. \E x \in rest : \A y \in rest : ~(<<y, x>> \in OpToRel(<, Nat))
  <2>1. rest \subseteq Nat
    OBVIOUS
  <2> QED
    BY <2>1, NatLessThanWellFounded, WFMin
<1>2. PICK x \in rest : \A y \in rest : ~(<<y, x>> \in OpToRel(<, Nat))
  BY <1>1
<1>3. x \in Nat /\ x /= 0
  OBVIOUS
<1>4. x - 1 \in Nat /\ x - 1 < x /\ x = (x - 1) + 1
  BY <1>3
<1>5. <<x - 1, x>> \in OpToRel(<, Nat)
  BY <1>3, <1>4 DEF OpToRel
<1>6. x - 1 \in T
  BY <1>2, <1>4, <1>5
<1> QED
  BY <1>2, <1>4, <1>6

\* np.argmax finds the first of the largest.
LEMMA ArgMaxFinds ==
  ASSUME NEW s \in Seq(Int), Len(s) >= 1
  PROVE  /\ ArgMax(s) \in 1 .. Len(s)
         /\ \A j \in 1 .. Len(s) : s[j] <= s[ArgMax(s)]
         /\ \A j \in 1 .. ArgMax(s) - 1 : s[j] < s[ArgMax(s)]
<1> DEFINE P(k, i) == (\A j \in 1 .. k : s[j] <= s[i]) /\ (\A j \in 1 .. i - 1 : s[j] < s[i])
           T == {k \in Nat : k + 1 <= Len(s) => \E i \in 1 .. k + 1 : P(k + 1, i)}
<1>1. \A j \in 1 .. Len(s) : s[j] \in Int
  OBVIOUS
<1>2. 0 \in T
  <2>1. P(1, 1)
    BY <1>1
  <2> QED
    BY <2>1
<1>3. ASSUME NEW k \in Nat, k \in T PROVE k + 1 \in T
  <2> SUFFICES ASSUME k + 2 <= Len(s) PROVE \E i \in 1 .. k + 2 : P(k + 2, i)
    OBVIOUS
  <2>1. PICK i \in 1 .. k + 1 : P(k + 1, i)
    BY <1>3
  <2>2. i \in Int /\ s[i] \in Int /\ s[k + 2] \in Int
    BY <1>1, <2>1
  <2>3. CASE s[k + 2] <= s[i]
    <3>1. P(k + 2, i)
      BY <1>1, <2>1, <2>2, <2>3
    <3>2. i \in 1 .. k + 2
      OBVIOUS
    <3> QED
      BY <3>1, <3>2
  <2>4. CASE s[i] < s[k + 2]
    <3>1. \A j \in 1 .. k + 1 : s[j] < s[k + 2]
      <4>1. \A j \in 1 .. k + 1 : s[j] \in Int /\ s[j] <= s[i]
        BY <1>1, <2>1
      <4> QED
        BY <2>2, <2>4, <4>1
    <3>2. \A j \in 1 .. k + 2 : j = k + 2 \/ j \in 1 .. k + 1
      OBVIOUS
    <3>3. \A j \in 1 .. k + 2 : s[j] <= s[k + 2]
      <4>1. \A j \in 1 .. k + 1 : s[j] \in Int /\ s[j] <= s[k + 2]
        BY <1>1, <2>2, <3>1
      <4>2. s[k + 2] <= s[k + 2]
        BY <2>2
      <4> QED
        BY <3>2, <4>1, <4>2
    <3>4. k + 2 \in 1 .. k + 2 /\ (k + 2) - 1 = k + 1
      OBVIOUS
    <3> QED
      BY <3>1, <3>3, <3>4
  <2> QED
    BY <2>2, <2>3, <2>4
<1> HIDE DEF T
<1>4. \A k \in Nat : k \in T
  BY <1>2, <1>3, Climb
<1>5. \E i \in 1 .. Len(s) : P(Len(s), i)
  <2>1. Len(s) - 1 \in T
    BY <1>4
  <2>2. Len(s) - 1 + 1 = Len(s)
    OBVIOUS
  <2> QED
    BY <2>1, <2>2 DEF T
<1>6. DOMAIN s = 1 .. Len(s)
  OBVIOUS
<1> HIDE DEF P
<1>7. ArgMax(s) = CHOOSE i \in 1 .. Len(s) : P(Len(s), i)
  BY <1>6 DEF ArgMax, P
<1>8. ArgMax(s) \in 1 .. Len(s) /\ P(Len(s), ArgMax(s))
  BY <1>5, <1>7
<1> QED
  BY <1>8 DEF P

\* And of the negatives: one of the smallest.
LEMMA ArgMinFinds ==
  ASSUME NEW s \in Seq(Int), Len(s) >= 1
  PROVE  /\ ArgMin(s) \in 1 .. Len(s)
         /\ \A j \in 1 .. Len(s) : s[ArgMin(s)] <= s[j]
<1> DEFINE t == [i \in DOMAIN s |-> -s[i]]
<1>1. t \in Seq(Int) /\ Len(t) = Len(s) /\ \A j \in 1 .. Len(s) : t[j] = -s[j] /\ s[j] \in Int
  OBVIOUS
<1>2. ArgMin(s) = ArgMax(t)
  BY DEF ArgMin
<1> HIDE DEF t
<1>3. /\ ArgMax(t) \in 1 .. Len(s)
      /\ \A j \in 1 .. Len(s) : t[j] <= t[ArgMax(t)]
  BY <1>1, ArgMaxFinds
<1> DEFINE a == ArgMax(t)
<1>4. a \in 1 .. Len(s) /\ t[a] = -s[a] /\ s[a] \in Int
  BY <1>1, <1>3
<1>5. ASSUME NEW j \in 1 .. Len(s) PROVE s[a] <= s[j]
  <2>1. t[j] = -s[j] /\ s[j] \in Int /\ t[j] <= t[a]
    BY <1>1, <1>3
  <2> HIDE DEF a
  <2> QED
    BY <1>4, <2>1
<1> QED
  BY <1>2, <1>4, <1>5

\* A rise over m intervals is not steeper everywhere than what the derivatives, one
\* interval at the ends and two in between, are bounded by.
LEMMA MeanValue ==
  ASSUME NEW m \in Nat, m >= 1, NEW f, \A k \in 1 .. m + 1 : f[k] \in Int, NEW M \in Int,
         2 * (f[2] - f[1]) <= M, 2 * (f[m + 1] - f[m]) <= M,
         \A k \in 2 .. m : f[k + 1] - f[k - 1] <= M
  PROVE  2 * (f[m + 1] - f[1]) <= m * M
<1> DEFINE J(k) == 2 * (f[k + 1] + f[k] - 2 * f[1]) <= (2 * k - 1) * M
           T == {k \in Nat : k + 1 <= m => J(k + 1)}
<1>1. 0 \in T
  <2>1. f[1] \in Int /\ f[2] \in Int
    OBVIOUS
  <2> QED
    BY <2>1
<1>2. ASSUME NEW k \in Nat, k \in T PROVE k + 1 \in T
  <2> SUFFICES ASSUME k + 2 <= m PROVE J(k + 2)
    OBVIOUS
  <2>1. J(k + 1)
    BY <1>2
  <2>2. f[1] \in Int /\ f[k + 1] \in Int /\ f[k + 2] \in Int /\ f[k + 3] \in Int
    OBVIOUS
  <2>3. f[k + 3] - f[k + 1] <= M
    <3>1. k + 2 \in 2 .. m /\ (k + 2) + 1 = k + 3 /\ (k + 2) - 1 = k + 1
      OBVIOUS
    <3> QED
      BY <3>1
  <2>4. (2 * (k + 2) - 1) * M = (2 * (k + 1) - 1) * M + 2 * M
    OBVIOUS
  <2>5. (2 * (k + 2) - 1) * M \in Int /\ (2 * (k + 1) - 1) * M \in Int
    OBVIOUS
  <2> DEFINE a == (2 * (k + 2) - 1) * M  b == (2 * (k + 1) - 1) * M
  <2>6. k + 1 + 1 = k + 2 /\ k + 2 + 1 = k + 3
    OBVIOUS
  <2>7. 2 * (f[k + 2] + f[k + 1] - 2 * f[1]) <= b
    BY <2>1, <2>6
  <2> HIDE DEF a, b
  <2>8. a = b + 2 * M /\ a \in Int /\ b \in Int
    BY <2>4, <2>5 DEF a, b
  <2>9. 2 * (f[k + 3] + f[k + 2] - 2 * f[1]) <= a
    BY <2>2, <2>3, <2>7, <2>8
  <2> QED
    BY <2>6, <2>9 DEF a
<1> HIDE DEF T
<1>3. \A k \in Nat : k \in T
  BY <1>1, <1>2, Climb
<1>4. J(m)
  <2>1. m - 1 \in T /\ m - 1 + 1 = m
    BY <1>3
  <2> QED
    BY <2>1 DEF T
<1>5. f[1] \in Int /\ f[m] \in Int /\ f[m + 1] \in Int
  OBVIOUS
<1>6. (2 * m - 1) * M = 2 * (m * M) - M /\ m * M \in Int
  OBVIOUS
<1> DEFINE a == m * M
<1>7. 2 * (f[m + 1] + f[m] - 2 * f[1]) <= 2 * a - M /\ a \in Int
  BY <1>4, <1>6
<1> HIDE DEF a
<1>8. 2 * (f[m + 1] - f[1]) <= a
  BY <1>5, <1>7
<1> QED
  BY <1>8 DEF a

\* A derivative of a strictly monotone column f over an even one x: it has the sign of the
\* rise, over one interval at the ends and over two in between.
Derived(f, x, m, h, turn, k, r) ==
  LET size == Abs(r.n)  rise == turn * (IF k = 1 THEN f[2] - f[1] ELSE IF k = m + 1 THEN f[m + 1] - f[m] ELSE f[k + 1] - f[k - 1])
  IN  /\ size = rise /\ rise \in Nat /\ rise > 0
      /\ r.n \in Int /\ Sign(r.n) = turn * Sign(h)
      /\ r.d = IF k \in {1, m + 1} THEN Abs(h) ELSE 2 * Abs(h)

\* m equal steps of h; m steps all of the direction turn.
Spaced(x, m, h) == \A k \in 1 .. m : x[k + 1] - x[k] = h
Monotone(f, m, turn) == \A k \in 1 .. m : turn * (f[k + 1] - f[k]) > 0

\* np.gradient gives such derivatives.
LEMMA Derivatives ==
  ASSUME NEW m \in Nat, m >= 1, NEW f \in Seq(Int), NEW x \in Seq(Int), Len(f) = m + 1, Len(x) = m + 1,
         NEW h \in Int, h /= 0, Spaced(x, m, h),
         NEW turn \in Int, turn = 1 \/ turn = -1, Monotone(f, m, turn)
  PROVE  /\ DOMAIN Gradient(f, x) = 1 .. m + 1
         /\ \A k \in 1 .. m + 1 : Derived(f, x, m, h, turn, k, Gradient(f, x)[k])
<1> DEFINE g == Gradient(f, x)
           even == \A i \in 2 .. Len(f) - 1 : x[i + 1] - x[i] = x[2] - x[1]
<1>1. \A k \in 1 .. m + 1 : f[k] \in Int /\ x[k] \in Int
  OBVIOUS
<1>2. even
  <2>1. x[2] - x[1] = h
    <3>1. 1 \in 1 .. m /\ 1 + 1 = 2
      OBVIOUS
    <3> QED
      BY <3>1 DEF Spaced
  <2>2. \A i \in 2 .. Len(f) - 1 : i \in 1 .. m
    OBVIOUS
  <2> QED
    BY <2>1, <2>2 DEF Spaced
<1>3. DOMAIN g = 1 .. m + 1
  BY DEF Gradient
<1>4. /\ g[1] = Quotient(f[2] - f[1], x[2] - x[1])
      /\ g[m + 1] = Quotient(f[m + 1] - f[m], x[m + 1] - x[m])
      /\ \A k \in 2 .. m : g[k] = Quotient(f[k + 1] - f[k - 1], 2 * (x[k] - x[k - 1]))
  <2> HIDE DEF even
  <2>1. g[1] = Quotient(f[2] - f[1], x[2] - x[1])
    BY DEF Gradient
  <2>2. g[m + 1] = Quotient(f[m + 1] - f[m], x[m + 1] - x[m])
    <3>1. m + 1 \in 1 .. Len(f) /\ m + 1 /= 1 /\ m + 1 = Len(f) /\ Len(f) - 1 = m
      OBVIOUS
    <3> QED
      BY <3>1 DEF Gradient
  <2>3. ASSUME NEW k \in 2 .. m PROVE g[k] = Quotient(f[k + 1] - f[k - 1], 2 * (x[k] - x[k - 1]))
    <3>1. k \in 1 .. Len(f) /\ k /= 1 /\ k /= Len(f)
      OBVIOUS
    <3> QED
      BY <1>2, <3>1 DEF Gradient, even
  <2> QED
    BY <2>1, <2>2, <2>3
<1>5. ASSUME NEW k \in 1 .. m PROVE turn * (f[k + 1] - f[k]) > 0 /\ f[k + 1] - f[k] \in Int /\ x[k + 1] - x[k] = h
  <2>1. k \in 1 .. m + 1 /\ k + 1 \in 1 .. m + 1
    OBVIOUS
  <2>2. f[k] \in Int /\ f[k + 1] \in Int
    BY <1>1, <2>1
  <2>3. f[k + 1] - f[k] \in Int
    BY <2>2
  <2> QED
    BY <2>3 DEF Spaced, Monotone
<1>6. Abs(2 * h) = 2 * Abs(h) /\ Sign(2 * h) = Sign(h) /\ 2 * h /= 0 /\ 2 * h \in Int
  BY DEF Abs, Sign
<1> HIDE DEF g
<1>7. ASSUME NEW k \in 1 .. m + 1 PROVE Derived(f, x, m, h, turn, k, g[k])
  <2>1. CASE k = 1
    <3>1. turn * (f[2] - f[1]) > 0 /\ f[2] - f[1] \in Int /\ x[2] - x[1] = h
      <4>1. 1 \in 1 .. m /\ 1 + 1 = 2
        OBVIOUS
      <4> QED
        BY <1>5, <4>1
    <3>2. PICK a \in Int : a = f[2] - f[1]
      BY <3>1
    <3>3. PICK r : r = Quotient(a, h)
      OBVIOUS
    <3>4. turn * a > 0 /\ g[k] = r
      BY <1>4, <2>1, <3>1, <3>2, <3>3
    <3>5. /\ Abs(r.n) = turn * a /\ turn * a \in Nat /\ r.n \in Int
          /\ Sign(r.n) = turn * Sign(h) /\ r.d = Abs(h)
      <4>1. r.n = (IF h < 0 THEN -a ELSE a) /\ r.d = (IF h < 0 THEN -h ELSE h)
        BY <3>3 DEF Quotient
      <4>2. PICK u \in Int : u = r.n
        BY <4>1
      <4>3. CASE turn = 1
        BY <3>4, <4>1, <4>2, <4>3 DEF Abs, Sign
      <4>4. CASE turn = -1
        BY <3>4, <4>1, <4>2, <4>4 DEF Abs, Sign
      <4> QED
        BY <4>3, <4>4
    <3>6. k \in {1, m + 1} /\ (k = 1 <=> TRUE)
      BY <2>1
    <3> QED
      BY <2>1, <3>2, <3>4, <3>5, <3>6 DEF Derived
  <2>2. CASE k = m + 1
    <3>1. turn * (f[m + 1] - f[m]) > 0 /\ f[m + 1] - f[m] \in Int /\ x[m + 1] - x[m] = h
      <4>1. m \in 1 .. m
        OBVIOUS
      <4> QED
        BY <1>5, <4>1
    <3>2. PICK a \in Int : a = f[m + 1] - f[m]
      BY <3>1
    <3>3. PICK r : r = Quotient(a, h)
      OBVIOUS
    <3>4. turn * a > 0 /\ g[k] = r
      BY <1>4, <2>2, <3>1, <3>2, <3>3
    <3>5. /\ Abs(r.n) = turn * a /\ turn * a \in Nat /\ r.n \in Int
          /\ Sign(r.n) = turn * Sign(h) /\ r.d = Abs(h)
      <4>1. r.n = (IF h < 0 THEN -a ELSE a) /\ r.d = (IF h < 0 THEN -h ELSE h)
        BY <3>3 DEF Quotient
      <4>2. PICK u \in Int : u = r.n
        BY <4>1
      <4>3. CASE turn = 1
        BY <3>4, <4>1, <4>2, <4>3 DEF Abs, Sign
      <4>4. CASE turn = -1
        BY <3>4, <4>1, <4>2, <4>4 DEF Abs, Sign
      <4> QED
        BY <4>3, <4>4
    <3>6. k \in {1, m + 1} /\ (k = 1 <=> FALSE)
      BY <2>2
    <3> QED
      BY <2>2, <3>2, <3>4, <3>5, <3>6 DEF Derived
  <2>3. CASE k \in 2 .. m
    <3>1. /\ turn * (f[k + 1] - f[k]) > 0 /\ turn * (f[k] - f[k - 1]) > 0 /\ x[k] - x[k - 1] = h
          /\ f[k - 1] \in Int /\ f[k] \in Int /\ f[k + 1] \in Int
      <4>1. k \in 1 .. m /\ k - 1 \in 1 .. m /\ k - 1 + 1 = k /\ k + 1 \in 1 .. m + 1
        BY <2>3
      <4>2. turn * (f[k - 1 + 1] - f[k - 1]) > 0 /\ x[k - 1 + 1] - x[k - 1] = h
        BY <1>5, <4>1
      <4> QED
        BY <1>1, <1>5, <4>1, <4>2
    <3>2. PICK b \in Int, c \in Int, d \in Int : b = f[k + 1] /\ c = f[k] /\ d = f[k - 1]
      BY <3>1
    <3>3. PICK a \in Int : a = b - d
      OBVIOUS
    <3>4. turn * a > 0
      <4>1. turn * (b - c) > 0 /\ turn * (c - d) > 0
        BY <3>1, <3>2
      <4>2. CASE turn = 1
        BY <3>3, <4>1, <4>2
      <4>3. CASE turn = -1
        BY <3>3, <4>1, <4>3
      <4> QED
        BY <4>2, <4>3
    <3>5. PICK e \in Int : e = 2 * h /\ e /= 0 /\ Abs(e) = 2 * Abs(h) /\ Sign(e) = Sign(h)
      BY <1>6
    <3>6. PICK r : r = Quotient(a, e)
      OBVIOUS
    <3>7. g[k] = r
      BY <1>4, <2>3, <3>1, <3>2, <3>3, <3>5, <3>6
    <3>8. /\ Abs(r.n) = turn * a /\ turn * a \in Nat /\ r.n \in Int
          /\ Sign(r.n) = turn * Sign(e) /\ r.d = Abs(e)
      <4>1. r.n = (IF e < 0 THEN -a ELSE a) /\ r.d = (IF e < 0 THEN -e ELSE e)
        BY <3>6 DEF Quotient
      <4>2. PICK u \in Int : u = r.n
        BY <4>1
      <4>3. CASE turn = 1
        BY <3>4, <3>5, <4>1, <4>2, <4>3 DEF Abs, Sign
      <4>4. CASE turn = -1
        BY <3>4, <3>5, <4>1, <4>2, <4>4 DEF Abs, Sign
      <4> QED
        BY <4>3, <4>4
    <3>9. k \notin {1, m + 1} /\ k /= 1 /\ k /= m + 1
      BY <2>3
    <3> QED
      BY <3>2, <3>3, <3>4, <3>5, <3>7, <3>8, <3>9 DEF Derived
  <2>4. k = 1 \/ k = m + 1 \/ k \in 2 .. m
    OBVIOUS
  <2> QED
    BY <2>1, <2>2, <2>3, <2>4
<1> QED
  BY <1>3, <1>7 DEF g

\* A positive factor keeps an order.
LEMMA Scales ==
  ASSUME NEW p \in Int, NEW q \in Int, NEW c \in Int, c > 0
  PROVE  (p * c > q * c <=> p > q) /\ (p * c >= q * c <=> p >= q)
<1>1. (p - q) * c = p * c - q * c /\ p * c \in Int /\ q * c \in Int
  OBVIOUS
<1>2. CASE p > q
  <2>1. (p - q) * c > 0
    BY <1>2
  <2> QED
    BY <1>1, <1>2, <2>1
<1>3. CASE p = q
  BY <1>1, <1>3
<1>4. CASE p < q
  <2>1. (q - p) * c > 0 /\ (q - p) * c = q * c - p * c
    BY <1>4
  <2> QED
    BY <1>1, <1>4, <2>1
<1> QED
  BY <1>2, <1>3, <1>4

\* np.argmax over quotients of this kind is that over the numerators, brought to the
\* width of two intervals.
LEMMA SteepestFound ==
  ASSUME NEW m \in Nat, m >= 1, NEW g, DOMAIN g = 1 .. m + 1, NEW H \in Nat, H > 0, NEW N \in Seq(Int), Len(N) = m + 1,
         \A k \in 1 .. m + 1 : /\ Abs(g[k].n) \in Nat
                               /\ (g[k].d = H /\ N[k] = 2 * Abs(g[k].n)) \/ (g[k].d = 2 * H /\ N[k] = Abs(g[k].n))
  PROVE  ArgSteepest(g) \in 1 .. m + 1 /\ \A k \in 1 .. m + 1 : N[k] <= N[ArgSteepest(g)]
<1>1. ASSUME NEW j \in 1 .. m + 1 PROVE N[j] \in Int
  OBVIOUS
<1>2. ASSUME NEW j \in 1 .. m + 1, NEW i \in 1 .. m + 1 PROVE Steeper(g[j], g[i]) <=> N[j] > N[i]
  <2>1. PICK a \in Nat, b \in Nat : a = Abs(g[j].n) /\ b = Abs(g[i].n)
    OBVIOUS
  <2>2. a * (2 * H) = (2 * a) * H /\ b * (2 * H) = (2 * b) * H
    OBVIOUS
  <2>3. PICK c \in Int, d \in Int : c = 2 * a /\ d = 2 * b
    OBVIOUS
  <2>4. H \in Int /\ 2 * H \in Int /\ 2 * H > 0
    OBVIOUS
  <2>5. /\ a * H > b * H <=> a > b
        /\ c * H > b * H <=> c > b
        /\ a * H > d * H <=> a > d
    BY Scales, <2>4
  <2>6. a * (2 * H) > b * (2 * H) <=> a > b
    BY Scales, <2>4
  <2>7. CASE g[j].d = H /\ N[j] = c
    <3>1. CASE g[i].d = H /\ N[i] = d
      <4>1. Steeper(g[j], g[i]) <=> a * H > b * H
        BY <2>1, <2>7, <3>1 DEF Steeper
      <4>2. c > d <=> a > b
        BY <2>3
      <4> QED
        BY <2>5, <2>7, <3>1, <4>1, <4>2
    <3>2. CASE g[i].d = 2 * H /\ N[i] = b
      BY <2>1, <2>2, <2>3, <2>5, <2>7, <3>2 DEF Steeper
    <3> QED
      BY <2>1, <2>3, <3>1, <3>2
  <2>8. CASE g[j].d = 2 * H /\ N[j] = a
    <3>1. CASE g[i].d = H /\ N[i] = d
      BY <2>1, <2>2, <2>3, <2>5, <2>8, <3>1 DEF Steeper
    <3>2. CASE g[i].d = 2 * H /\ N[i] = b
      BY <2>1, <2>6, <2>8, <3>2 DEF Steeper
    <3> QED
      BY <2>1, <2>3, <3>1, <3>2
  <2> QED
    BY <2>1, <2>3, <2>7, <2>8
<1>3. \A k \in 1 .. m + 1 : IsNumber(g[k])
  <2> SUFFICES ASSUME NEW k \in 1 .. m + 1 PROVE g[k].d /= 0
    BY DEF IsNumber
  <2>1. g[k].d = H \/ g[k].d = 2 * H
    OBVIOUS
  <2> QED
    BY <2>1
<1> DEFINE P(i) == (\A j \in 1 .. m + 1 : ~Steeper(g[j], g[i])) /\ (\A j \in 1 .. i - 1 : Steeper(g[i], g[j]))
<1>4. ArgSteepest(g) = CHOOSE i \in 1 .. m + 1 : P(i)
  BY <1>3 DEF ArgSteepest
<1> DEFINE a == ArgMax(N)
<1>5. /\ a \in 1 .. m + 1
      /\ \A j \in 1 .. m + 1 : N[j] <= N[a]
      /\ \A j \in 1 .. a - 1 : N[j] < N[a]
  <2>1. Len(N) >= 1
    OBVIOUS
  <2> QED
    BY <2>1, ArgMaxFinds
<1> HIDE DEF a
<1>6. P(a)
  <2>1. ASSUME NEW j \in 1 .. m + 1 PROVE ~Steeper(g[j], g[a])
    <3>1. N[j] \in Int /\ N[a] \in Int /\ N[j] <= N[a]
      BY <1>1, <1>5
    <3>2. ~(N[j] > N[a])
      BY <3>1
    <3> QED
      BY <1>2, <1>5, <3>2
  <2>2. ASSUME NEW j \in 1 .. a - 1 PROVE Steeper(g[a], g[j])
    <3>1. j \in 1 .. m + 1
      BY <1>5
    <3>2. N[j] \in Int /\ N[a] \in Int /\ N[j] < N[a]
      BY <1>1, <1>5, <3>1
    <3>3. N[a] > N[j]
      BY <3>2
    <3> QED
      BY <1>2, <1>5, <3>1, <3>3
  <2> QED
    BY <2>1, <2>2
<1> HIDE DEF P
<1> DEFINE at == ArgSteepest(g)
<1>7. at \in 1 .. m + 1 /\ P(at)
  BY <1>4, <1>5, <1>6
<1> HIDE DEF at
<1>8. ASSUME NEW k \in 1 .. m + 1 PROVE N[k] <= N[at]
  <2>1. ~Steeper(g[k], g[at])
    BY <1>7 DEF P
  <2>2. ~(N[k] > N[at])
    BY <1>2, <1>7, <2>1
  <2> QED
    BY <1>1, <1>7, <2>2
<1> QED
  BY <1>7, <1>8 DEF at

\* The quotient a/d as M/2H, and at least as large as D/mH.
Scaled(a, d, H, M) == (d = H /\ M = 2 * a) \/ (d = 2 * H /\ M = a)
Covers(a, d, m, H, D) == d \in Nat /\ d > 0 /\ a * (m * H) >= D * d

\* From the mean of the numerators to the chord.
LEMMA Widths ==
  ASSUME NEW H \in Nat, H > 0, NEW m \in Nat, NEW M \in Int, NEW D \in Int, 2 * D <= m * M,
         NEW a \in Nat, NEW d, Scaled(a, d, H, M)
  PROVE  Covers(a, d, m, H, D)
<1>1. PICK p \in Int : p = a * m
  OBVIOUS
<1>2. a * (m * H) = p * H
  BY <1>1
<1>3. ASSUME d = H, M = 2 * a PROVE d \in Nat /\ d > 0 /\ a * (m * H) >= D * d
  <2>1. m * M = 2 * p
    BY <1>1, <1>3
  <2>2. PICK z \in Nat : p = D + z
    BY <2>1
  <2>3. p * H = D * H + z * H /\ z * H >= 0
    BY <2>2
  <2> QED
    BY <1>2, <1>3, <2>3
<1>4. ASSUME d = 2 * H, M = a PROVE d \in Nat /\ d > 0 /\ a * (m * H) >= D * d
  <2>1. m * M = p
    BY <1>1, <1>4
  <2>2. PICK z \in Nat : p = 2 * D + z
    BY <2>1
  <2>3. p * H = D * (2 * H) + z * H /\ z * H >= 0
    BY <2>2
  <2> QED
    BY <1>2, <1>4, <2>3
<1>5. /\ d \in Nat /\ d > 0 /\ a * (m * H) >= D * d
  BY <1>3, <1>4 DEF Scaled
<1> QED
  BY <1>5 DEF Covers

\* A strictly monotone column over an even one; the steepest derivative of it; and that
\* it is as steep as the chord.
Sloping(f, x, m, h, turn) ==
  /\ f \in Seq(Int) /\ x \in Seq(Int) /\ Len(f) = m + 1 /\ Len(x) = m + 1
  /\ h /= 0 /\ Spaced(x, m, h) /\ (turn = 1 \/ turn = -1) /\ Monotone(f, m, turn)
Found(f, x, at, r) == at = ArgSteepest(Gradient(f, x)) /\ r = Gradient(f, x)[at]
Steep(f, m, h, turn, at, r) ==
  /\ at \in 1 .. m + 1
  /\ r.n \in Int /\ r.d \in Nat /\ r.d > 0 /\ Sign(r.n) = turn * Sign(h)
  /\ Abs(r.n) * (m * Abs(h)) >= turn * (f[m + 1] - f[1]) * r.d

\* Where np.gradient is steepest it is at least as steep as the chord.
LEMMA SteepEnough ==
  ASSUME NEW m \in Nat, m >= 1, NEW h \in Int, NEW turn \in Int, NEW f, NEW x, Sloping(f, x, m, h, turn),
         NEW at, NEW r, Found(f, x, at, r)
  PROVE  Steep(f, m, h, turn, at, r)
<1> SUFFICES ASSUME f \in Seq(Int), x \in Seq(Int), Len(f) = m + 1, Len(x) = m + 1,
                    h /= 0, Spaced(x, m, h), turn = 1 \/ turn = -1, Monotone(f, m, turn),
                    at = ArgSteepest(Gradient(f, x)), r = Gradient(f, x)[at]
             PROVE  /\ at \in 1 .. m + 1
                    /\ r.n \in Int /\ r.d \in Nat /\ r.d > 0 /\ Sign(r.n) = turn * Sign(h)
                    /\ Abs(r.n) * (m * Abs(h)) >= turn * (f[m + 1] - f[1]) * r.d
  BY DEF Sloping, Found, Steep
<1> DEFINE g == Gradient(f, x)
           rise(k) == turn * (IF k = 1 THEN f[2] - f[1] ELSE IF k = m + 1 THEN f[m + 1] - f[m] ELSE f[k + 1] - f[k - 1])
           N == [k \in 1 .. m + 1 |-> IF k \in {1, m + 1} THEN 2 * Abs(g[k].n) ELSE Abs(g[k].n)]
           F == [k \in 1 .. m + 1 |-> turn * f[k]]
<1>1. PICK H \in Nat : H = Abs(h) /\ H > 0
  BY DEF Abs
<1>2. /\ DOMAIN g = 1 .. m + 1
      /\ \A k \in 1 .. m + 1 : Derived(f, x, m, h, turn, k, g[k])
  BY Derivatives
<1> HIDE DEF g
<1>3. ASSUME NEW k \in 1 .. m + 1
      PROVE  /\ Abs(g[k].n) = rise(k) /\ rise(k) \in Nat /\ g[k].n \in Int /\ Sign(g[k].n) = turn * Sign(h)
             /\ g[k].d = IF k \in {1, m + 1} THEN H ELSE 2 * H
  BY <1>1, <1>2 DEF Derived
<1> HIDE DEF rise
<1>4. N \in Seq(Int) /\ Len(N) = m + 1
  <2>1. ASSUME NEW k \in 1 .. m + 1
        PROVE  (IF k \in {1, m + 1} THEN 2 * Abs(g[k].n) ELSE Abs(g[k].n)) \in Int
    <3>1. PICK a \in Nat : a = Abs(g[k].n)
      BY <1>3
    <3> QED
      BY <3>1
  <2>2. N \in [1 .. m + 1 -> Int]
    BY <2>1
  <2> HIDE DEF N
  <2>3. m + 1 \in Nat
    OBVIOUS
  <2> QED
    BY <2>2, <2>3
<1>5. ASSUME NEW k \in 1 .. m + 1
      PROVE  /\ Abs(g[k].n) \in Nat
             /\ (g[k].d = H /\ N[k] = 2 * Abs(g[k].n)) \/ (g[k].d = 2 * H /\ N[k] = Abs(g[k].n))
  BY <1>3
<1>6. at \in 1 .. m + 1 /\ \A k \in 1 .. m + 1 : N[k] <= N[at]
  <2> HIDE DEF N
  <2>1. at = ArgSteepest(g)
    BY DEF g
  <2> QED
    BY <1>1, <1>2, <1>4, <1>5, <2>1, SteepestFound
<1>7. PICK M \in Int : M = N[at]
  <2> HIDE DEF N
  <2>1. N[at] \in Int
    BY <1>4, <1>6
  <2> QED
    BY <2>1
<1>8. ASSUME NEW k \in 1 .. m + 1 PROVE F[k] \in Int /\ f[k] \in Int
  <2>1. PICK b \in Int : b = f[k]
    OBVIOUS
  <2>2. F[k] = turn * b
    BY <2>1
  <2> QED
    BY <2>1, <2>2
<1>9. /\ 2 * (F[2] - F[1]) <= M /\ 2 * (F[m + 1] - F[m]) <= M
      /\ \A k \in 2 .. m : F[k + 1] - F[k - 1] <= M
  <2>1. N[1] = 2 * (F[2] - F[1])
    <3>1. 1 \in 1 .. m + 1 /\ 2 \in 1 .. m + 1
      OBVIOUS
    <3>2. f[1] \in Int /\ f[2] \in Int
      BY <1>8, <3>1
    <3>3. Abs(g[1].n) = turn * (f[2] - f[1])
      BY <1>3, <3>1 DEF rise
    <3>4. turn * (f[2] - f[1]) = F[2] - F[1]
      BY <3>1, <3>2
    <3> QED
      BY <3>1, <3>3, <3>4
  <2>2. N[m + 1] = 2 * (F[m + 1] - F[m])
    <3>1. m \in 1 .. m + 1 /\ m + 1 \in 1 .. m + 1 /\ m + 1 /= 1
      OBVIOUS
    <3>2. f[m] \in Int /\ f[m + 1] \in Int
      BY <1>8, <3>1
    <3>3. Abs(g[m + 1].n) = turn * (f[m + 1] - f[m])
      BY <1>3, <3>1 DEF rise
    <3>4. turn * (f[m + 1] - f[m]) = F[m + 1] - F[m]
      BY <3>1, <3>2
    <3> QED
      BY <3>1, <3>3, <3>4
  <2>3. ASSUME NEW k \in 2 .. m PROVE N[k] = F[k + 1] - F[k - 1]
    <3>1. /\ k \in 1 .. m + 1 /\ k /= 1 /\ k /= m + 1
          /\ k + 1 \in 1 .. m + 1 /\ k - 1 \in 1 .. m + 1
      OBVIOUS
    <3>2. f[k + 1] \in Int /\ f[k - 1] \in Int
      BY <1>8, <3>1
    <3>3. Abs(g[k].n) = turn * (f[k + 1] - f[k - 1])
      BY <1>3, <3>1 DEF rise
    <3>4. turn * (f[k + 1] - f[k - 1]) = F[k + 1] - F[k - 1]
      BY <3>1, <3>2
    <3> QED
      BY <3>1, <3>3, <3>4
  <2> HIDE DEF N, F
  <2>4. 1 \in 1 .. m + 1 /\ m + 1 \in 1 .. m + 1 /\ \A k \in 2 .. m : k \in 1 .. m + 1
    OBVIOUS
  <2> QED
    BY <1>6, <1>7, <2>1, <2>2, <2>3, <2>4
<1>10. 2 * (F[m + 1] - F[1]) <= m * M
  <2> HIDE DEF F
  <2> QED
    BY <1>8, <1>9, MeanValue
<1>11. PICK D \in Int : D = turn * (f[m + 1] - f[1]) /\ 2 * D <= m * M
  <2>1. 1 \in 1 .. m + 1 /\ m + 1 \in 1 .. m + 1
    OBVIOUS
  <2>2. f[1] \in Int /\ f[m + 1] \in Int
    BY <1>8, <2>1
  <2>3. F[m + 1] - F[1] = turn * (f[m + 1] - f[1])
    BY <2>1, <2>2
  <2>4. PICK D \in Int : D = turn * (f[m + 1] - f[1])
    BY <2>2
  <2>5. 2 * D <= m * M
    <3>1. F[m + 1] - F[1] = D
      BY <2>3, <2>4
    <3> HIDE DEF F
    <3> QED
      BY <1>10, <3>1
  <2> QED
    BY <2>4, <2>5
<1>12. r = g[at]
  BY DEF g
<1>13. /\ Abs(r.n) \in Nat
       /\ (r.d = H /\ M = 2 * Abs(r.n)) \/ (r.d = 2 * H /\ M = Abs(r.n))
  <2> HIDE DEF N
  <2> QED
    BY <1>5, <1>6, <1>7, <1>12
<1>14. r.d \in Nat /\ r.d > 0 /\ Abs(r.n) * (m * H) >= D * r.d
  <2>0. PICK d : d = r.d
    OBVIOUS
  <2>1. PICK a \in Nat : a = Abs(r.n) /\ d = r.d
    BY <1>13, <2>0
  <2>2. Scaled(a, d, H, M)
    BY <1>13, <2>1 DEF Scaled
  <2>3. Covers(a, d, m, H, D)
    BY <1>1, <1>11, <2>2, Widths
  <2> QED
    BY <2>1, <2>3 DEF Covers
<1>15. r.n \in Int /\ Sign(r.n) = turn * Sign(h)
  BY <1>3, <1>6, <1>12
<1> QED
  BY <1>1, <1>6, <1>11, <1>14, <1>15

----------------------------------------------------------------------------
(* The lock point of a sweep over a feature.                               *)

\* A part of a column.
LEMMA Segment ==
  ASSUME NEW s \in Seq(Int), NEW i \in 1 .. Len(s), NEW j \in 1 .. Len(s), i <= j
  PROVE  /\ SubSeq(s, i, j) \in Seq(Int) /\ Len(SubSeq(s, i, j)) = j - i + 1
         /\ \A k \in 1 .. j - i + 1 : SubSeq(s, i, j)[k] = s[i + k - 1]
  OBVIOUS

Extremes(sig, top, low) == top = ArgMax(sig) /\ low = ArgMin(sig)

\* The extremes of a feature, and that the smallest value near the largest is the
\* smallest of all.
LEMMA FeatureFinds ==
  ASSUME NEW sig \in Seq(Int), Len(sig) >= 1, NEW pts \in Int, Dispersive(sig, pts),
         NEW top \in Int, NEW low \in Int, Extremes(sig, top, low)
  PROVE  /\ top \in 1 .. Len(sig) /\ low \in 1 .. Len(sig) /\ top /= low
         /\ sig[top] /= sig[low]
         /\ Feature(sig, pts) = [max |-> top, min |-> low]
         /\ top < low => \A k \in top .. low - 1 : Sign(sig[k + 1] - sig[k]) = Sign(sig[low] - sig[top])
         /\ low < top => \A k \in low .. top - 1 : Sign(sig[k + 1] - sig[k]) = Sign(sig[top] - sig[low])
<1>1. /\ top \in 1 .. Len(sig) /\ \A j \in 1 .. Len(sig) : sig[j] <= sig[top]
      /\ low \in 1 .. Len(sig) /\ \A j \in 1 .. Len(sig) : sig[low] <= sig[j]
  BY ArgMaxFinds, ArgMinFinds DEF Extremes
<1>2. DOMAIN sig = 1 .. Len(sig) /\ Len(sig) \in Nat
  OBVIOUS
<1> DEFINE first == IF top < low THEN top ELSE low
           last == IF top < low THEN low ELSE top
<1>3. /\ \A k \in 1 .. Len(sig) : (sig[k] = sig[top] => k = top) /\ (sig[k] = sig[low] => k = low)
      /\ top /= low /\ last - first <= pts
      /\ \A k \in first .. last - 1 : Sign(sig[k + 1] - sig[k]) = Sign(sig[last] - sig[first])
  BY <1>2, Zenon DEF Dispersive, Extremes
<1>4. ASSUME NEW k \in 1 .. Len(sig) PROVE sig[k] \in Int
  OBVIOUS
<1>5. sig[top] /= sig[low]
  BY <1>1, <1>3
<1>6. low - top <= pts /\ top - low <= pts
  BY <1>3
<1>7. Feature(sig, pts) = [max |-> top, min |-> low]
  <2> DEFINE lo == IF top - pts < 1 THEN 1 ELSE top - pts
             hi == IF top + pts > Len(sig) THEN Len(sig) ELSE top + pts
             near == SubSeq(sig, lo, hi)
             j == ArgMin(near)
  <2>1. lo \in 1 .. Len(sig) /\ hi \in 1 .. Len(sig) /\ lo <= low /\ low <= hi
    <3>1. PICK len \in Nat : len = Len(sig)
      BY <1>2
    <3>2. 1 <= top /\ top <= len /\ 1 <= low /\ low <= len
      BY <1>1, <3>1
    <3>3. 1 <= lo /\ lo <= len /\ lo <= low /\ lo \in Int
      BY <1>6, <3>2
    <3>4. hi = IF top + pts > len THEN len ELSE top + pts
      BY <3>1
    <3>5. 1 <= hi /\ hi <= len /\ low <= hi /\ hi \in Int
      <4> HIDE DEF hi
      <4>1. top + pts >= low
        BY <1>6
      <4> QED
        BY <3>2, <3>4, <4>1
    <3> QED
      BY <3>1, <3>3, <3>5
  <2> HIDE DEF lo, hi
  <2>2. lo \in Int /\ hi \in Int /\ lo <= hi /\ hi - lo + 1 \in Nat /\ hi - lo + 1 >= 1
    BY <2>1
  <2>3. /\ near \in Seq(Int) /\ Len(near) = hi - lo + 1
        /\ \A k \in 1 .. hi - lo + 1 : near[k] = sig[lo + k - 1]
    BY <2>1, <2>2, Segment
  <2> HIDE DEF near
  <2>4. Len(near) >= 1
    BY <2>2, <2>3
  <2>5. j \in 1 .. hi - lo + 1 /\ \A k \in 1 .. hi - lo + 1 : near[j] <= near[k]
    BY <2>3, <2>4, ArgMinFinds
  <2> HIDE DEF j
  <2>6. PICK c \in Int : c = lo + j - 1 /\ c \in 1 .. Len(sig) /\ near[j] = sig[c]
    BY <2>1, <2>2, <2>3, <2>5
  <2>7. PICK e \in Int : e = low - lo + 1 /\ e \in 1 .. hi - lo + 1 /\ lo + e - 1 = low
    BY <2>1, <2>2
  <2>8. near[e] = sig[low] /\ near[j] <= near[e]
    BY <2>3, <2>5, <2>7
  <2>9. sig[c] = sig[low]
    <3>1. sig[c] \in Int /\ sig[low] \in Int /\ sig[c] <= sig[low] /\ sig[low] <= sig[c]
      BY <1>1, <1>4, <2>6, <2>8
    <3> QED
      BY <3>1
  <2>10. c = low
    BY <1>3, <2>6, <2>9
  <2>11. Feature(sig, pts) = [max |-> top, min |-> lo - 1 + j]
    BY DEF Feature, lo, hi, near, j, Extremes
  <2>12. lo - 1 + j = low
    BY <2>2, <2>5, <2>6, <2>10
  <2> QED
    BY <2>11, <2>12
<1>8. ASSUME top < low PROVE \A k \in top .. low - 1 : Sign(sig[k + 1] - sig[k]) = Sign(sig[low] - sig[top])
  BY <1>3, <1>8
<1>9. ASSUME low < top PROVE \A k \in low .. top - 1 : Sign(sig[k + 1] - sig[k]) = Sign(sig[top] - sig[low])
  <2>1. first = low /\ last = top
    BY <1>9
  <2> QED
    BY <1>3, <2>1
<1> QED
  BY <1>1, <1>3, <1>5, <1>7, <1>8, <1>9

\* What the lemmas below say of the sweep, of the segment between the extremes and of the
\* steepest point of it.
Even(v, a, h) == \A k \in 1 .. Len(v) : v[k] = a + (k - 1) * h
Cut(sig, v, first, last) ==
  /\ sig \in Seq(Int) /\ v \in Seq(Int) /\ Len(sig) = Len(v)
  /\ first \in 1 .. Len(v) /\ last \in 1 .. Len(v) /\ first < last
SteepestOf(sig, v, first, last, at, r) ==
  LET g == Gradient(SubSeq(sig, first, last), SubSeq(v, first, last)) IN at = ArgSteepest(g) /\ r = g[at]
RiseOf(sig, first, last, p) == p = sig[last] - sig[first]
Steady(sig, first, last, turn) == \A k \in first .. last - 1 : Sign(sig[k + 1] - sig[k]) = turn

\* The steepest point of a segment on which the signal is strictly monotone.
LEMMA SegmentSteep ==
  ASSUME NEW sig, NEW v, NEW first \in Int, NEW last \in Int, Cut(sig, v, first, last),
         NEW a \in Int, NEW h \in Int, h /= 0, Even(v, a, h),
         NEW turn \in Int, turn = 1 \/ turn = -1, Steady(sig, first, last, turn),
         NEW at, NEW r, SteepestOf(sig, v, first, last, at, r),
         NEW p \in Int, RiseOf(sig, first, last, p)
  PROVE  /\ at \in Int /\ first <= first - 1 + at /\ first - 1 + at <= last
         /\ r.n \in Int /\ r.d \in Nat /\ r.d > 0 /\ Sign(r.n) = turn * Sign(h)
         /\ Abs(r.n) * ((last - first) * Abs(h)) >= turn * p * r.d
<1> DEFINE f == SubSeq(sig, first, last)
           x == SubSeq(v, first, last)
<1>0. PICK len \in Nat : len = Len(v) /\ 1 <= first /\ last <= len /\ first < last
  BY DEF Cut
<1>1. PICK m \in Nat : m = last - first /\ m >= 1
  BY <1>0
<1>2. \A k \in 1 .. Len(v) : sig[k] \in Int /\ v[k] \in Int
  BY DEF Cut
<1>3. /\ f \in Seq(Int) /\ Len(f) = m + 1 /\ \A k \in 1 .. m + 1 : f[k] = sig[first + k - 1]
      /\ x \in Seq(Int) /\ Len(x) = m + 1 /\ \A k \in 1 .. m + 1 : x[k] = v[first + k - 1]
  <2>1. last - first + 1 = m + 1 /\ first <= last
    BY <1>1
  <2>2. /\ f \in Seq(Int) /\ Len(f) = last - first + 1 /\ \A k \in 1 .. last - first + 1 : f[k] = sig[first + k - 1]
    BY <2>1, Segment DEF Cut
  <2>3. /\ x \in Seq(Int) /\ Len(x) = last - first + 1 /\ \A k \in 1 .. last - first + 1 : x[k] = v[first + k - 1]
    BY <2>1, Segment DEF Cut
  <2> HIDE DEF f, x
  <2> QED
    BY <2>1, <2>2, <2>3
<1>4. at = ArgSteepest(Gradient(f, x)) /\ r = Gradient(f, x)[at]
  BY DEF SteepestOf
<1> HIDE DEF f, x
<1>5. ASSUME NEW k \in 1 .. m PROVE x[k + 1] - x[k] = h /\ turn * (f[k + 1] - f[k]) > 0
  <2>1. k + 1 \in 1 .. m + 1 /\ k \in 1 .. m + 1 /\ first + (k + 1) - 1 = first + k
    BY <1>1
  <2>2. PICK j \in Int : j = first + k - 1 /\ j \in 1 .. Len(v) /\ j + 1 \in 1 .. Len(v) /\ j \in first .. last - 1 /\ first + k = j + 1
    <3>1. PICK j \in Int : j = first + k - 1
      OBVIOUS
    <3>2. first <= j /\ j < last
      BY <1>1, <3>1
    <3> QED
      BY <1>0, <3>1, <3>2
  <2>3. x[k] = v[j] /\ x[k + 1] = v[j + 1] /\ f[k] = sig[j] /\ f[k + 1] = sig[j + 1]
    BY <1>3, <2>1, <2>2
  <2>4. v[j + 1] - v[j] = h
    <3>1. v[j] = a + (j - 1) * h
      BY <2>2 DEF Even
    <3>2. v[j + 1] = a + ((j + 1) - 1) * h
      BY <2>2 DEF Even
    <3>3. a + ((j + 1) - 1) * h - (a + (j - 1) * h) = h
      OBVIOUS
    <3> QED
      BY <3>1, <3>2, <3>3
  <2>5. PICK b \in Int, c \in Int : b = sig[j + 1] /\ c = sig[j]
    BY <1>2, <2>2
  <2>6. PICK q \in Int : q = b - c
    OBVIOUS
  <2>7. Sign(q) = turn
    BY <2>2, <2>5, <2>6 DEF Steady
  <2>8. turn * q > 0
    <3>1. CASE turn = 1
      BY <2>7, <3>1 DEF Sign
    <3>2. CASE turn = -1
      BY <2>7, <3>2 DEF Sign
    <3> QED
      BY <3>1, <3>2
  <2> QED
    BY <2>3, <2>4, <2>5, <2>6, <2>8
<1>6. /\ at \in 1 .. m + 1
      /\ r.n \in Int /\ r.d \in Nat /\ r.d > 0 /\ Sign(r.n) = turn * Sign(h)
      /\ Abs(r.n) * (m * Abs(h)) >= turn * (f[m + 1] - f[1]) * r.d
  <2>1. Sloping(f, x, m, h, turn)
    BY <1>3, <1>5 DEF Sloping, Spaced, Monotone
  <2>2. Found(f, x, at, r)
    BY <1>4 DEF Found
  <2>3. Steep(f, m, h, turn, at, r)
    BY <1>1, <2>1, <2>2, SteepEnough
  <2> QED
    BY <2>3 DEF Steep
<1>7. f[m + 1] - f[1] = p
  <2>1. m + 1 \in 1 .. m + 1 /\ 1 \in 1 .. m + 1 /\ first + (m + 1) - 1 = last /\ first + 1 - 1 = first
    BY <1>1
  <2> QED
    BY <1>3, <2>1 DEF RiseOf
<1>8. at \in Int /\ first <= first - 1 + at /\ first - 1 + at <= last
  BY <1>1, <1>6
<1> QED
  BY <1>1, <1>6, <1>7, <1>8

\* The extremes in the order of the sweep; a slope the input gain can bring to
\* CALIBRATION.
Ends(top, low, first, last) ==
  /\ first = (IF top < low THEN top ELSE low)
  /\ last = (IF top < low THEN low ELSE top)
InRange(r) == r.n /= 0 /\ CALIBRATION * r.d < EGAIN_LIMIT * Abs(r.n)

\* A lock point that is found is the steepest between the extremes, and its slope is in
\* range if it is a number.
LEMMA PointFound ==
  ASSUME NEW sig, NEW v, NEW pts, NEW point, point = LockPoint(sig, v, pts), point.found,
         NEW top, NEW low, Feature(sig, pts) = [max |-> top, min |-> low],
         NEW first, NEW last, Ends(top, low, first, last)
  PROVE  /\ v[top] /= v[low]
         /\ \E at, r : /\ SteepestOf(sig, v, first, last, at, r)
                       /\ point.at = first - 1 + at /\ point.slope = r
                       /\ IsNumber(r) => r.n /= 0 /\ ~(CALIBRATION * r.d >= EGAIN_LIMIT * Abs(r.n))
<1> DEFINE f == Feature(sig, pts)
           lo == IF f.max < f.min THEN f.max ELSE f.min
           hi == IF f.max < f.min THEN f.min ELSE f.max
           deriv == Gradient(SubSeq(sig, lo, hi), SubSeq(v, lo, hi))
           at == ArgSteepest(deriv)
           r == deriv[at]
           none == \/ v[f.max] = v[f.min]
                   \/ IsNumber(r) /\ r.n = 0
                   \/ IsNumber(r) /\ CALIBRATION * r.d >= EGAIN_LIMIT * Abs(r.n)
<1>1. point = IF none THEN NoLock ELSE [found |-> TRUE, at |-> lo - 1 + at, slope |-> r]
  BY Zenon DEF LockPoint
<1>2. f.max = top /\ f.min = low
  OBVIOUS
<1> HIDE DEF f
<1>3. lo = first /\ hi = last
  BY <1>2 DEF Ends
<1> HIDE DEF lo, hi
<1>4. SteepestOf(sig, v, first, last, at, r)
  BY <1>3 DEF SteepestOf
<1> HIDE DEF deriv, at
<1> HIDE DEF r
<1>5. ~none
  <2> HIDE DEF none
  <2> QED
    BY <1>1 DEF NoLock
<1>6. point.at = first - 1 + at /\ point.slope = r
  <2> HIDE DEF none
  <2> QED
    BY <1>1, <1>3, <1>5
<1>7. v[top] /= v[low] /\ (IsNumber(r) => r.n /= 0 /\ ~(CALIBRATION * r.d >= EGAIN_LIMIT * Abs(r.n)))
  BY <1>2, <1>5
<1> QED
  BY <1>4, <1>6, <1>7

\* The chord from the smaller to the larger value is the segment's, whichever way round.
LEMMA Chord ==
  ASSUME NEW m \in Nat, m >= 1, NEW h \in Int, h /= 0, NEW p \in Int, p /= 0, NEW w \in Int, NEW q \in Int,
         (w = m * h /\ q = p) \/ (w = -(m * h) /\ q = -p)
  PROVE  Abs(w) = m * Abs(h) /\ Sign(q * Sign(w)) = Sign(p) * Sign(h) /\ Abs(q * Sign(w)) = Sign(p) * p
<1>1. CASE h > 0
  <2>1. PICK z \in Int : z = m * h /\ z > 0
    BY <1>1
  <2> QED
    BY <1>1, <2>1 DEF Abs, Sign
<1>2. CASE h < 0
  <2>1. PICK g \in Nat : g = -h /\ g > 0
    BY <1>2
  <2>2. PICK z \in Int : z = m * g /\ z > 0
    BY <2>1
  <2>3. m * h = -z
    BY <2>1, <2>2
  <2> QED
    BY <1>2, <2>1, <2>2, <2>3 DEF Abs, Sign
<1> QED
  BY <1>1, <1>2

\* Equal steps pass a point between two others between them.
LEMMA Onward ==
  ASSUME NEW a \in Int, NEW h \in Int, NEW i \in Int, NEW k \in Int, NEW j \in Int, i <= k, k <= j,
         NEW x \in Int, NEW y \in Int, NEW z \in Int,
         x = a + (i - 1) * h, y = a + (k - 1) * h, z = a + (j - 1) * h
  PROVE  (x <= y /\ y <= z) \/ (z <= y /\ y <= x)
<1>1. PICK b \in Nat : b = k - i
  OBVIOUS
<1>2. PICK c \in Nat : c = j - k
  OBVIOUS
<1>3. y - x = b * h /\ z - y = c * h
  BY <1>1, <1>2
<1>4. CASE h >= 0
  <2>1. b * h >= 0 /\ c * h >= 0
    BY <1>4
  <2> QED
    BY <1>3, <2>1
<1>5. CASE h < 0
  <2>1. b * h <= 0 /\ c * h <= 0
    BY <1>5
  <2> QED
    BY <1>3, <2>1
<1> QED
  BY <1>4, <1>5

\* Two columns of one file.
Paired(sig, v) == sig \in Seq(Int) /\ v \in Seq(Int) /\ Len(sig) = Len(v) /\ Len(v) >= 2

\* The slope and voltage of a point found: between the extremes top and low, as steep as
\* their chord and in its direction.
OnFeature(volt, r, sig, v, top, low) ==
  LET rise == (sig[top] - sig[low]) * Sign(v[top] - v[low])
      run == Abs(v[top] - v[low])
  IN  /\ volt >= (IF v[top] < v[low] THEN v[top] ELSE v[low])
      /\ volt <= (IF v[top] < v[low] THEN v[low] ELSE v[top])
      /\ r.n \in Int /\ r.d \in Nat /\ r.d > 0 /\ InRange(r)
      /\ Sign(r.n) = Sign(rise) /\ Abs(r.n) * run >= Abs(rise) * r.d

\* What _autolock_bg finds on an even sweep over a feature: a point between the
\* extremes, as steep as their chord at least, falling or rising as it does.
LEMMA LockPointSteep ==
  ASSUME NEW sig, NEW v, Paired(sig, v), Evenly(v), NEW pts \in Int, Dispersive(sig, pts),
         NEW point, point = LockPoint(sig, v, pts), point.found
  PROVE  /\ point.at \in 1 .. Len(v)
         /\ OnFeature(v[point.at], point.slope, sig, v, ArgMax(sig), ArgMin(sig))
<1>0. PICK len \in Nat : len = Len(v) /\ len = Len(sig) /\ len >= 2
  BY DEF Paired
<1>1. \A k \in 1 .. len : sig[k] \in Int /\ v[k] \in Int
  BY <1>0 DEF Paired
<1>2. PICK a \in Int, h \in Int : a = v[1] /\ h = v[2] - v[1]
  BY <1>0, <1>1
<1>3. Even(v, a, h)
  <2>1. DOMAIN v = 1 .. Len(v)
    BY DEF Paired
  <2> QED
    BY <1>2, <2>1 DEF Even, Evenly
<1>4. PICK top \in Int, low \in Int : Extremes(sig, top, low)
  <2>1. sig \in Seq(Int) /\ Len(sig) >= 1
    BY <1>0 DEF Paired
  <2>2. ArgMax(sig) \in Int /\ ArgMin(sig) \in Int
    BY <2>1, ArgMaxFinds, ArgMinFinds
  <2> QED
    BY <2>2 DEF Extremes
<1>5. /\ top \in 1 .. len /\ low \in 1 .. len /\ top /= low /\ sig[top] /= sig[low]
      /\ Feature(sig, pts) = [max |-> top, min |-> low]
      /\ top < low => \A k \in top .. low - 1 : Sign(sig[k + 1] - sig[k]) = Sign(sig[low] - sig[top])
      /\ low < top => \A k \in low .. top - 1 : Sign(sig[k + 1] - sig[k]) = Sign(sig[top] - sig[low])
  <2>1. sig \in Seq(Int) /\ Len(sig) >= 1 /\ 1 .. Len(sig) = 1 .. len
    BY <1>0 DEF Paired
  <2> QED
    BY <1>4, <2>1, FeatureFinds
<1>6. PICK first \in Int, last \in Int : Ends(top, low, first, last)
  BY DEF Ends
<1>7. \/ first = top /\ last = low /\ top < low
      \/ first = low /\ last = top /\ low < top
  BY <1>5, <1>6 DEF Ends
<1>8. v[top] /= v[low]
  BY <1>5, <1>6, PointFound
<1>9. PICK at, r : /\ SteepestOf(sig, v, first, last, at, r)
                   /\ point.at = first - 1 + at /\ point.slope = r
                   /\ IsNumber(r) => r.n /= 0 /\ ~(CALIBRATION * r.d >= EGAIN_LIMIT * Abs(r.n))
  BY <1>5, <1>6, PointFound
<1>10. /\ \A k \in 1 .. len : v[k] = a + (k - 1) * h
       /\ h /= 0
  <2>1. \A k \in 1 .. len : v[k] = a + (k - 1) * h
    BY <1>0, <1>3 DEF Even
  <2>2. ASSUME h = 0 PROVE FALSE
    <3>1. v[top] = a + (top - 1) * h /\ v[low] = a + (low - 1) * h
      BY <1>5, <2>1
    <3>2. (top - 1) * 0 = 0 /\ (low - 1) * 0 = 0
      OBVIOUS
    <3> QED
      BY <1>8, <2>2, <3>1, <3>2
  <2> QED
    BY <2>1, <2>2
<1>11. PICK p \in Int : RiseOf(sig, first, last, p) /\ p /= 0
  <2>1. sig[first] \in Int /\ sig[last] \in Int /\ sig[first] /= sig[last]
    BY <1>1, <1>5, <1>7
  <2> QED
    BY <2>1 DEF RiseOf
<1>12. PICK turn \in Int : turn = Sign(p) /\ (turn = 1 \/ turn = -1)
  BY <1>11 DEF Sign
<1>13. Steady(sig, first, last, turn)
  BY <1>5, <1>7, <1>11, <1>12 DEF Steady, RiseOf
<1>14. Cut(sig, v, first, last)
  BY <1>0, <1>5, <1>7 DEF Cut, Paired
<1>15. /\ at \in Int /\ first <= first - 1 + at /\ first - 1 + at <= last
       /\ r.n \in Int /\ r.d \in Nat /\ r.d > 0 /\ Sign(r.n) = turn * Sign(h)
       /\ Abs(r.n) * ((last - first) * Abs(h)) >= turn * p * r.d
  BY <1>3, <1>9, <1>10, <1>11, <1>12, <1>13, <1>14, SegmentSteep
<1>16. PICK m \in Nat : m = last - first /\ m >= 1
  BY <1>7
<1>17. PICK w \in Int, q \in Int : w = v[top] - v[low] /\ q = sig[top] - sig[low]
  BY <1>1, <1>5
<1>18. (w = m * h /\ q = p) \/ (w = -(m * h) /\ q = -p)
  <2>1. v[last] - v[first] = m * h
    <3>1. v[first] = a + (first - 1) * h /\ v[last] = a + (last - 1) * h
      BY <1>5, <1>7, <1>10
    <3>2. (last - 1) * h - (first - 1) * h = (last - first) * h
      OBVIOUS
    <3> QED
      BY <1>16, <3>1, <3>2
  <2>2. v[first] \in Int /\ v[last] \in Int /\ sig[first] \in Int /\ sig[last] \in Int
    BY <1>1, <1>5, <1>7
  <2>3. PICK z \in Int : z = m * h
    OBVIOUS
  <2>4. CASE first = top /\ last = low
    BY <1>11, <1>17, <2>1, <2>2, <2>3, <2>4 DEF RiseOf
  <2>5. CASE first = low /\ last = top
    BY <1>11, <1>17, <2>1, <2>2, <2>3, <2>5 DEF RiseOf
  <2> QED
    BY <1>7, <2>4, <2>5
<1>19. Abs(w) = m * Abs(h) /\ Sign(q * Sign(w)) = turn * Sign(h) /\ Abs(q * Sign(w)) = turn * p
  BY <1>10, <1>11, <1>12, <1>16, <1>18, Chord
<1>20. PICK k \in Int : k = point.at /\ first <= k /\ k <= last /\ k \in 1 .. len
  BY <1>5, <1>7, <1>9, <1>15
<1>21. /\ v[k] >= (IF v[top] < v[low] THEN v[top] ELSE v[low])
       /\ v[k] <= (IF v[top] < v[low] THEN v[low] ELSE v[top])
  <2>1. PICK x \in Int, y \in Int, z \in Int : x = v[first] /\ y = v[k] /\ z = v[last]
    BY <1>1, <1>5, <1>7, <1>20
  <2>2. x = a + (first - 1) * h /\ y = a + (k - 1) * h /\ z = a + (last - 1) * h
    BY <1>5, <1>7, <1>10, <1>20, <2>1
  <2>3. (x <= y /\ y <= z) \/ (z <= y /\ y <= x)
    BY <1>20, <2>2, Onward
  <2> QED
    BY <1>7, <2>1, <2>3
<1>22. InRange(r)
  <2>1. PICK s \in Int, d \in Nat : s = r.n /\ d = r.d /\ d > 0
    BY <1>15
  <2>2. PICK x \in Int, y \in Int : x = CALIBRATION * d /\ y = EGAIN_LIMIT * Abs(s)
    <3>1. CALIBRATION \in Int /\ EGAIN_LIMIT \in Int /\ Abs(s) \in Int
      BY AnalysisAssumption DEF Abs
    <3> QED
      BY <3>1
  <2>3. r.n /= 0 /\ ~(x >= y)
    BY <1>9, <2>1, <2>2 DEF IsNumber
  <2>4. x < y
    BY <2>3
  <2> QED
    BY <2>1, <2>2, <2>3, <2>4 DEF InRange
<1>23. OnFeature(v[k], r, sig, v, top, low)
  <2>1. Abs(r.n) * Abs(w) >= Abs(q * Sign(w)) * r.d
    BY <1>15, <1>16, <1>19
  <2>2. Sign(r.n) = Sign(q * Sign(w))
    BY <1>15, <1>19
  <2> QED
    BY <1>15, <1>17, <1>21, <1>22, <2>1, <2>2 DEF OnFeature
<1> QED
  BY <1>0, <1>4, <1>9, <1>20, <1>23 DEF Extremes

----------------------------------------------------------------------------
(* The registers that are made of the lock point, and the file of the      *)
(* sweep it is found in.                                                   *)

\* N/D to a half.
Near(N, D, h) == h \in Int /\ 2 * (h * D - N) <= D /\ 2 * (N - h * D) <= D

\* lrintf is off by a half at most.
LEMMA HalfEvenNear ==
  ASSUME NEW N \in Int, NEW D \in Int, D > 0
  PROVE  Near(N, D, HalfEven(N, D))
<1>1. PICK q \in Int, r \in Int : q = N \div D /\ r = N % D
  OBVIOUS
<1>2. N = q * D + r /\ 0 <= r /\ r < D
  BY <1>1
<1>3. PICK z \in Int : z = q * D
  OBVIOUS
<1>4. (q + 1) * D = z + D
  BY <1>3
<1>5. PICK h : h = HalfEven(N, D)
  OBVIOUS
<1>6. (h = q /\ 2 * r <= D) \/ (h = q + 1 /\ 2 * r >= D)
  BY <1>1, <1>2, <1>5 DEF HalfEven
<1>7. PICK y \in Int : y = h * D /\ h \in Int /\ ((y = z /\ 2 * r <= D) \/ (y = z + D /\ 2 * r >= D))
  BY <1>3, <1>4, <1>6
<1>8. 2 * (y - N) <= D /\ 2 * (N - y) <= D
  BY <1>2, <1>3, <1>7
<1> QED
  BY <1>5, <1>7, <1>8 DEF Near

\* The bias of a voltage that was swept puts the output there, to two codes.
LEMMA BiasRests ==
  ASSUME NEW x \in Int, -8192 <= x, x <= 8192
  PROVE  Size(8191 - Clamp(HalfEven(8191 * x, 8192), -8191, 8191) - SweepCode(x)) <= 2
<1>1. PICK h \in Int : h = HalfEven(8191 * x, 8192) /\ 2 * (h * 8192 - 8191 * x) <= 8192 /\ 2 * (8191 * x - h * 8192) <= 8192
  <2>1. 8191 * x \in Int /\ 8192 \in Int /\ 8192 > 0
    OBVIOUS
  <2>2. Near(8191 * x, 8192, HalfEven(8191 * x, 8192))
    BY <2>1, HalfEvenNear
  <2> QED
    BY <2>2 DEF Near
<1>2. h <= x + 1 /\ h >= x - 1 /\ -8192 <= h /\ h <= 8192
  BY <1>1
<1>3. PICK b \in Int : b = Clamp(h, -8191, 8191) /\ b <= x + 1 /\ b >= x - 1
  BY <1>2 DEF Clamp
<1>4. PICK c \in Int : c = SweepCode(x) /\ c <= 8192 - x /\ c >= 8191 - x
  BY DEF SweepCode, Clamp
<1>5. 8191 - b - c <= 1 /\ 8191 - b - c >= -2
  BY <1>3, <1>4
<1> QED
  BY <1>1, <1>3, <1>4, <1>5 DEF Size

\* By how much the gain g misses turning the slope s/d into CALIBRATION.
Missed(g, s, d) == Size(g * s - 1024 * CALIBRATION * d)

\* The input gain of a slope in range turns it into CALIBRATION, to a half of its last
\* bit, or to one at the end of the register.
LEMMA GainTurns ==
  ASSUME NEW r, r.n \in Int, r.d \in Nat, r.d > 0, InRange(r), NEW g, g = Q16(InputGain(r))
  PROVE  \/ 2 * Missed(g, r.n, r.d) <= Size(r.n)
         \/ g = 32767 /\ Missed(g, r.n, r.d) <= Size(r.n)
<1>1. PICK s \in Int, d \in Nat : s = r.n /\ d = r.d /\ d > 0 /\ s /= 0
  BY DEF InRange
<1>2. PICK c \in Nat : c = CALIBRATION * d
  BY <1>1, AnalysisAssumption
<1>3. PICK N \in Nat : N = 1024 * CALIBRATION * d /\ N = 1024 * c
  BY <1>1, <1>2, AnalysisAssumption
<1>4. PICK D \in Nat : D = Abs(s) /\ D > 0
  BY <1>1 DEF Abs
<1>5. N < 32768 * D
  <2>1. c < EGAIN_LIMIT * D
    BY <1>1, <1>2, <1>4 DEF InRange
  <2>2. EGAIN_LIMIT * D <= 32 * D /\ EGAIN_LIMIT * D \in Int
    BY AnalysisAssumption
  <2>3. PICK y \in Int : y = EGAIN_LIMIT * D
    BY <2>2
  <2> QED
    BY <1>3, <2>1, <2>2, <2>3
<1>6. PICK h \in Int : h = HalfEven(N, D) /\ 2 * (h * D - N) <= D /\ 2 * (N - h * D) <= D
  BY <1>3, <1>4, HalfEvenNear DEF Near
<1>7. 0 <= h /\ h <= 32768
  <2>1. ASSUME h < 0 PROVE FALSE
    <3>1. h * D <= -D
      BY <1>4, <2>1
    <3>2. PICK y \in Int : y = h * D
      OBVIOUS
    <3> QED
      BY <1>3, <1>4, <1>6, <3>1, <3>2
  <2>2. ASSUME h > 32768 PROVE FALSE
    <3>1. h * D >= 32769 * D
      BY <1>4, <2>2
    <3>2. PICK y \in Int : y = h * D
      OBVIOUS
    <3> QED
      BY <1>4, <1>5, <1>6, <3>1, <3>2
  <2> QED
    BY <2>1, <2>2
<1>8. InputGain(r) = IF s > 0 THEN HalfEven(1024 * CALIBRATION * d, s) ELSE -HalfEven(1024 * CALIBRATION * d, -s)
  BY <1>1 DEF InputGain
<1>9. PICK y \in Int : y = h * D
  OBVIOUS
<1>10. CASE s > 0
  <2>1. D = s /\ InputGain(r) = h /\ Size(s) = D
    <3>1. D = s /\ Size(s) = D
      BY <1>4, <1>10 DEF Abs, Size
    <3>2. InputGain(r) = HalfEven(1024 * CALIBRATION * d, s)
      BY <1>8, <1>10
    <3> QED
      <4>1. HalfEven(1024 * CALIBRATION * d, s) = HalfEven(N, s)
        BY <1>3
      <4>2. h = HalfEven(N, s)
        BY <1>6, <3>1
      <4>3. InputGain(r) = h
        BY <3>2, <4>1, <4>2
      <4> QED
        BY <3>1, <4>3
  <2>2. CASE h <= 32767
    <3>1. g = h
      BY <1>7, <2>1, <2>2 DEF Q16, Clamp
    <3>2. g * s - 1024 * CALIBRATION * d = y - N
      BY <1>3, <1>9, <2>1, <3>1
    <3>3. 2 * Size(y - N) <= D
      BY <1>6, <1>9 DEF Size
    <3> QED
      BY <1>1, <2>1, <3>2, <3>3 DEF Missed
  <2>3. CASE h = 32768
    <3>1. g = 32767
      BY <2>1, <2>3 DEF Q16, Clamp
    <3>2. y = 32768 * D /\ 32767 * D = y - D
      BY <1>9, <2>3
    <3>3. g * s - 1024 * CALIBRATION * d = y - D - N
      BY <1>3, <2>1, <3>1, <3>2
    <3>4. Size(y - D - N) <= D
      BY <1>5, <1>6, <1>9, <3>2 DEF Size
    <3> QED
      BY <1>1, <2>1, <3>1, <3>3, <3>4 DEF Missed
  <2> QED
    BY <1>7, <2>2, <2>3
<1>11. CASE s < 0
  <2>1. D = -s /\ InputGain(r) = -h /\ Size(s) = D
    <3>1. D = -s /\ Size(s) = D
      BY <1>4, <1>11 DEF Abs, Size
    <3>2. InputGain(r) = -HalfEven(1024 * CALIBRATION * d, -s)
      BY <1>8, <1>11
    <3> QED
      BY <1>3, <1>6, <3>1, <3>2
  <2>2. g = -h
    BY <1>7, <2>1 DEF Q16, Clamp
  <2>3. g * s - 1024 * CALIBRATION * d = y - N
    <3>1. (-h) * s = h * (-s)
      OBVIOUS
    <3> QED
      BY <1>3, <1>9, <2>1, <2>2, <3>1
  <2>4. 2 * Size(y - N) <= D
    BY <1>6, <1>9 DEF Size
  <2> QED
    BY <1>1, <2>1, <2>3, <2>4 DEF Missed
<1> QED
  BY <1>1, <1>10, <1>11

\* The voltage s of the step j, of m from a towards b.
StepAt(a, b, m, j, s) == s = a + (j * (b - a)) \div m

\* No step of a sweep leaves the range its ends are in.
LEMMA StepInRange ==
  ASSUME NEW a \in Int, NEW b \in Int, NEW m \in Nat, NEW j \in Nat, j < m,
         -8192 <= a, a <= 8192, -8192 <= b, b <= 8192, NEW s, StepAt(a, b, m, j, s)
  PROVE  s \in Int /\ -8192 <= s /\ s <= 8192
<1>1. PICK D \in Int : D = b - a
  OBVIOUS
<1>2. PICK X \in Int : X = j * D
  OBVIOUS
<1>3. PICK q \in Int, r \in Int : q = X \div m /\ r = X % m
  OBVIOUS
<1>4. X = q * m + r /\ 0 <= r /\ r < m
  BY <1>3
<1>5. PICK Y \in Int : Y = m * D
  OBVIOUS
<1>6. (D >= 0 => 0 <= X /\ X <= Y) /\ (D < 0 => Y <= X /\ X <= 0)
  <2>1. PICK c \in Nat : m = j + c
    OBVIOUS
  <2>2. PICK z \in Int : z = c * D
    OBVIOUS
  <2>3. Y = X + z
    BY <1>2, <1>5, <2>1, <2>2
  <2>4. D >= 0 => X >= 0 /\ z >= 0
    BY <1>2, <2>2
  <2>5. D < 0 => X <= 0 /\ z <= 0
    BY <1>2, <2>2
  <2> QED
    BY <2>3, <2>4, <2>5
<1>7. ASSUME D >= 0 PROVE 0 <= q /\ q <= D
  <2>1. ASSUME q < 0 PROVE FALSE
    <3>1. q * m <= -m
      BY <2>1
    <3>2. PICK y \in Int : y = q * m
      OBVIOUS
    <3> QED
      BY <1>4, <1>6, <1>7, <3>1, <3>2
  <2>2. ASSUME q > D PROVE FALSE
    <3>1. q * m >= (D + 1) * m
      BY <2>2
    <3>2. (D + 1) * m = Y + m
      BY <1>5
    <3>3. PICK y \in Int : y = q * m
      OBVIOUS
    <3> QED
      BY <1>4, <1>6, <1>7, <3>1, <3>2, <3>3
  <2> QED
    BY <1>1, <2>1, <2>2
<1>8. ASSUME D < 0 PROVE D <= q /\ q <= 0
  <2>1. ASSUME q > 0 PROVE FALSE
    <3>1. q * m >= m
      BY <2>1
    <3>2. PICK y \in Int : y = q * m
      OBVIOUS
    <3> QED
      BY <1>4, <1>6, <1>8, <3>1, <3>2
  <2>2. ASSUME q < D PROVE FALSE
    <3>1. q * m <= (D - 1) * m
      BY <2>2
    <3>2. (D - 1) * m = Y - m
      BY <1>5
    <3>3. PICK y \in Int : y = q * m
      OBVIOUS
    <3> QED
      BY <1>4, <1>6, <1>8, <3>1, <3>2, <3>3
  <2> QED
    BY <1>1, <2>1, <2>2
<1>9. (j * (b - a)) \div m = q
  BY <1>1, <1>2, <1>3
<1>10. -8192 <= a + q /\ a + q <= 8192
  BY <1>1, <1>7, <1>8
<1>11. PICK w \in Int : w = a + q /\ -8192 <= w /\ w <= 8192
  BY <1>10
<1>12. s = w
  BY <1>9, <1>11 DEF StepAt
<1> QED
  BY <1>11, <1>12

\* What the plant p shows of a signal at the voltages v.
SeenBy(p, signal, v) == [k \in DOMAIN v |-> Response(p, SweepCode(v[k]))[signal]]

\* The file of an autolock's sweep: its voltages in range, and under the label of the
\* channel what the plant showed of it.
Swept(file, e, p) ==
  /\ file.v \in Seq(Int) /\ Len(file.v) >= 2
  /\ \A k \in 1 .. Len(file.v) : -8192 <= file.v[k] /\ file.v[k] <= 8192
  /\ Column(e, file, e.chan) = SeenBy(p, ChannelSignal[e.chan], file.v)

\* All the steps from a towards b, and that they stay in range.
StepsOf(a, b, m, v) == v = [k \in 1 .. m |-> a + ((k - 1) * (b - a)) \div m]
InSpan(v, m) ==
  v \in Seq(Int) /\ Len(v) = m /\ \A k \in 1 .. m : -8192 <= v[k] /\ v[k] <= 8192

\* The voltages of a sweep are in range.
LEMMA StepsStayInSpan ==
  ASSUME NEW a \in Int, NEW b \in Int, NEW m \in Nat, m >= 2, -8192 <= a, a <= 8192, -8192 <= b, b <= 8192,
         NEW v, StepsOf(a, b, m, v)
  PROVE  InSpan(v, m)
<1> DEFINE step(k) == a + ((k - 1) * (b - a)) \div m
<1>1. v = [k \in 1 .. m |-> step(k)]
  BY DEF StepsOf
<1>2. ASSUME NEW k \in 1 .. m
      PROVE  step(k) \in Int /\ -8192 <= step(k) /\ step(k) <= 8192
  <2>1. PICK j \in Nat : j = k - 1 /\ j < m
    OBVIOUS
  <2>2. PICK s : StepAt(a, b, m, j, s)
    BY DEF StepAt
  <2>3. s \in Int /\ -8192 <= s /\ s <= 8192
    BY <2>1, <2>2, StepInRange
  <2>4. step(k) = s
    BY <2>1, <2>2 DEF StepAt
  <2> HIDE DEF step
  <2> QED
    BY <2>3, <2>4
<1> HIDE DEF step
<1>3. \A k \in 1 .. m : v[k] = step(k)
  BY <1>1
<1>4. v \in [1 .. m -> Int]
  BY <1>1, <1>2
<1>5. v \in Seq(Int) /\ Len(v) = m
  BY <1>4
<1> QED
  BY <1>2, <1>3, <1>5 DEF InSpan

\* A sweep answered without an error has written that file.
LEMMA Sweeps ==
  ASSUME NEW d, Registers(d), NEW p, NEW found, NEW e, Entered(e), e.op = "autolock",
         NEW o \in Handle(d, p, Asked(e, found, "sweep_ramp")), o.status = 0
  PROVE  o.file /= NoFile /\ o.file.name = "sweep_log" /\ Swept(o.file, e, p)
<1> DEFINE f == <<e.v0, e.v1>>
           u == <<e.pts, 0, e.delay, 0>>
           forced == [d EXCEPT !.io.dac1 = 0]
           file == Ramp(forced, p, f, u)
<1>1. /\ e.chan \in Channels /\ e.dac = "DAC_1" /\ e.mode = 0
      /\ e.v0 \in Int /\ e.v1 \in Int /\ e.pts \in Int /\ e.delay \in Int
  BY LockEntered
<1>2. Asked(e, found, "sweep_ramp") = Request("sweep_ramp", f, u)
  BY <1>1 DEF Asked, api_sweep_ramp, DacSel
<1>3. o \in cmd_sweep_ramp(d, p, f, u)
  <2>1. f \in Seq(Int) /\ Len(f) = 2 /\ Len(u) = 4
    BY <1>1
  <2>2. "sweep_ramp" \in DOMAIN Required /\ Required["sweep_ramp"][1] = 2 /\ Required["sweep_ramp"][2] = 4
    BY DEF Required
  <2> HIDE DEF f, u
  <2>3. Handle(d, p, Request("sweep_ramp", f, u)) = Execute(d, p, "sweep_ramp", f, u)
    <3>1. Len(f) <= 7 /\ Len(u) \in Nat /\ Len(f) >= Required["sweep_ramp"][1] /\ Len(u) >= Required["sweep_ramp"][2]
      BY <2>1, <2>2
    <3> QED
      BY <2>1, <2>2, <3>1, Runs
  <2> QED
    BY <1>2, <2>3 DEF Execute
<1>4. /\ Arg(f, 1) = e.v0 /\ Arg(f, 2) = e.v1 /\ Arg(u, 1) = e.pts /\ Arg(u, 2) = 0 /\ Arg(u, 4) = 0
      /\ u[1] = e.pts
  BY DEF Arg
<1> HIDE DEF f, u, file, forced
<1>5. \A x : \A y \in Refused(x) : y.status = 1
  BY DEF Refused, Outcome
<1>6. /\ ~(Size(e.v0) > 8192 \/ Size(e.v1) > 8192 \/ ~Between(Unsigned(e.pts), 2, 16384))
      /\ o.file = file
  BY <1>3, <1>4, <1>5 DEF cmd_sweep_ramp, file, forced
<1>7. PICK m \in Nat : m = e.pts /\ m >= 2
  BY <1>1, <1>6 DEF Between, Unsigned, Huge
<1>8. -8192 <= e.v0 /\ e.v0 <= 8192 /\ -8192 <= e.v1 /\ e.v1 <= 8192
  BY <1>1, <1>6 DEF Size
<1> DEFINE v == Steps(f, u)
           at(k) == [forced EXCEPT !.dac["DAC_1"] = SweepCode(v[k])]
           names == {"adc_dat_a_16s_r", "adc_dat_b_16s_r", "i_feed_r", "q_feed_r", "demod_lpf_r"}
<1>9. file = [name |-> "sweep_log", signals |-> SweepRow(0), v |-> v,
              values |-> [name \in names |-> [k \in DOMAIN v |-> Response(p, at(k).dac.DAC_1)[name]]], dac |-> "DAC_1"]
  <2>1. (IF Arg(u, 2) % 2 = 0 THEN "DAC_1" ELSE "DAC_2") = "DAC_1"
    BY <1>4
  <2>2. Arg(u, 4) = 0
    BY <1>4
  <2>3. Steps(f, u) = v
    OBVIOUS
  <2> HIDE DEF v
  <2> QED
    BY <2>1, <2>2, <2>3, SMT DEF Ramp, file
<1>10. v \in Seq(Int) /\ Len(v) = m /\ \A k \in 1 .. m : -8192 <= v[k] /\ v[k] <= 8192
  <2>1. PICK a \in Int, b \in Int : a = e.v0 /\ b = e.v1 /\ f = <<a, b>> /\ -8192 <= a /\ a <= 8192 /\ -8192 <= b /\ b <= 8192
    BY <1>1, <1>8 DEF f
  <2>2. u[1] = m
    BY <1>4, <1>7
  <2>3. StepsOf(a, b, m, v)
    BY <2>1, <2>2 DEF Steps, StepsOf
  <2> HIDE DEF v
  <2>4. InSpan(v, m)
    BY <1>7, <2>1, <2>3, StepsStayInSpan
  <2> QED
    BY <2>4 DEF InSpan
<1>11. \A k : at(k).dac.DAC_1 = SweepCode(v[k])
  <2> HIDE DEF v
  <2>1. \A c : [forced EXCEPT !.dac["DAC_1"] = c].dac["DAC_1"] = c
    BY DEF forced, Registers
  <2> QED
    BY <2>1
<1>12. Column(e, file, e.chan) = SeenBy(p, ChannelSignal[e.chan], v)
  <2> HIDE DEF v, at
  <2>1. file.signals[Index(SWEEP_COLUMNS, e.chan)] = ChannelSignal[e.chan]
    <3>1. file.signals = <<"v", "adc_dat_a_16s_r", "adc_dat_b_16s_r", "i_feed_r", "q_feed_r">>
      BY <1>9 DEF SweepRow
    <3>2. SWEEP_COLUMNS = <<"dac_v", "adc_a", "adc_b", "i_feed", "q_feed">>
      BY DEF SWEEP_COLUMNS
    <3>3. DOMAIN SWEEP_COLUMNS = {1, 2, 3, 4, 5}
      BY <3>2
    <3>4. CASE e.chan = "adc_a"
      <4>1. Index(SWEEP_COLUMNS, e.chan) = 2
        BY <3>2, <3>3, <3>4 DEF Index
      <4> QED
        BY <3>1, <3>4, <4>1 DEF ChannelSignal
    <3>5. CASE e.chan = "adc_b"
      <4>1. Index(SWEEP_COLUMNS, e.chan) = 3
        BY <3>2, <3>3, <3>5 DEF Index
      <4> QED
        BY <3>1, <3>5, <4>1 DEF ChannelSignal
    <3>6. CASE e.chan = "i_feed"
      <4>1. Index(SWEEP_COLUMNS, e.chan) = 4
        BY <3>2, <3>3, <3>6 DEF Index
      <4> QED
        BY <3>1, <3>6, <4>1 DEF ChannelSignal
    <3>7. CASE e.chan = "q_feed"
      <4>1. Index(SWEEP_COLUMNS, e.chan) = 5
        BY <3>2, <3>3, <3>7 DEF Index
      <4> QED
        BY <3>1, <3>7, <4>1 DEF ChannelSignal
    <3> QED
      BY <1>1, <3>4, <3>5, <3>6, <3>7 DEF Channels
  <2>2. ChannelSignal[e.chan] \in names
    BY <1>1 DEF Channels, ChannelSignal
  <2>3. Column(e, file, e.chan) = file.values[ChannelSignal[e.chan]]
    BY <1>1, <2>1 DEF Column
  <2>4. file.values = [name \in names |-> [k \in DOMAIN v |-> Response(p, SweepCode(v[k]))[name]]]
    <3>1. file.values = [name \in names |-> [k \in DOMAIN v |-> Response(p, at(k).dac.DAC_1)[name]]]
      BY <1>9
    <3> QED
      BY <1>11, <3>1
  <2> QED
    BY <2>2, <2>3, <2>4 DEF SeenBy
<1>13. o.file.v = v /\ o.file.name = "sweep_log"
  BY <1>6, <1>9
<1>14. o.file /= NoFile
  BY <1>13 DEF NoFile
<1> HIDE DEF v
<1> QED
  BY <1>6, <1>7, <1>10, <1>12, <1>13, <1>14 DEF Swept

\* A lock is the lock point of the file of its sweep.
FoundIn(found, file, e) ==
  LET point == LockPoint(Column(e, file, e.chan), file.v, e.peak_pts)
  IN  point.found /\ found = [found |-> TRUE, v |-> file.v[point.at], slope |-> point.slope]

\* Membership in the interval, from its bounds.
LEMMA IsCode ==
  ASSUME NEW c \in Int, 0 <= c, c <= 16383
  PROVE  c \in Codes
<1>1. PICK hi \in Int : hi = 16383
  OBVIOUS
<1>2. c <= hi
  BY <1>1
<1>3. c \in 0 .. hi
  BY <1>2
<1> QED
  BY <1>1, <1>3 DEF Codes

\* A plant shows a number wherever it is swept.
LEMMA ShowsNumber ==
  ASSUME NEW p \in Plants, NEW chan \in Channels, NEW x \in Int
  PROVE  Response(p, SweepCode(x))[ChannelSignal[chan]] \in Int
<1>1. PICK c \in Int : c = SweepCode(x) /\ 0 <= c /\ c <= 16383
  BY DEF SweepCode, Clamp
<1>2. c \in Codes
  BY <1>1, IsCode
<1>3. Response(p, c)[ChannelSignal[chan]] \in Int
  BY <1>2, PlantAssumption
<1> QED
  BY <1>1, <1>3

\* Settled on the lock point of an even sweep over a feature, a device rests on it.
LEMMA RestsWhere ==
  ASSUME NEW d, NEW found, NEW file, NEW e, NEW p \in Plants, e.chan \in Channels, e.peak_pts \in Int,
         Swept(file, e, p), FoundIn(found, file, e), Settled(d, found),
         Evenly(file.v), Dispersive(SeenBy(p, ChannelSignal[e.chan], file.v), e.peak_pts)
  PROVE  Rests(d, found, SeenBy(p, ChannelSignal[e.chan], file.v), file.v)
<1> DEFINE v == file.v
           sig == SeenBy(p, ChannelSignal[e.chan], v)
           point == LockPoint(sig, v, e.peak_pts)
<1>1. /\ v \in Seq(Int) /\ Len(v) >= 2 /\ \A k \in 1 .. Len(v) : -8192 <= v[k] /\ v[k] <= 8192
      /\ Column(e, file, e.chan) = sig
  BY DEF Swept
<1>2. point.found /\ found.v = v[point.at] /\ found.slope = point.slope
  BY <1>1 DEF FoundIn
<1>3. Evenly(v) /\ Dispersive(sig, e.peak_pts)
  OBVIOUS
<1> HIDE DEF v
<1>4. Paired(sig, v)
  <2>1. DOMAIN v = 1 .. Len(v) /\ Len(v) \in Nat
    BY <1>1
  <2>2. ASSUME NEW k \in 1 .. Len(v) PROVE Response(p, SweepCode(v[k]))[ChannelSignal[e.chan]] \in Int
    <3>1. PICK x \in Int : x = v[k]
      BY <1>1, <2>1
    <3>2. Response(p, SweepCode(x))[ChannelSignal[e.chan]] \in Int
      BY ShowsNumber
    <3> QED
      BY <3>1, <3>2
  <2>3. sig = [k \in 1 .. Len(v) |-> Response(p, SweepCode(v[k]))[ChannelSignal[e.chan]]]
    BY <2>1 DEF SeenBy
  <2> HIDE DEF sig
  <2>4. sig \in [1 .. Len(v) -> Int]
    BY <2>2, <2>3
  <2>5. sig \in Seq(Int) /\ Len(sig) = Len(v)
    BY <2>1, <2>4
  <2> QED
    BY <1>1, <2>5 DEF Paired
<1> HIDE DEF sig
<1> DEFINE top == ArgMax(sig)  low == ArgMin(sig)
<1>5. /\ point.at \in 1 .. Len(v)
      /\ OnFeature(v[point.at], point.slope, sig, v, top, low)
  BY <1>2, <1>3, <1>4, LockPointSteep
<1> HIDE DEF point, top, low
<1>6. PICK x \in Int : x = found.v /\ -8192 <= x /\ x <= 8192
  BY <1>1, <1>2, <1>5
<1>7. PICK r : r = found.slope /\ r = point.slope
  BY <1>2
<1>8. OnFeature(x, r, sig, v, top, low)
  BY <1>2, <1>5, <1>6, <1>7
<1>9. Size(8191 - d.pid.bias - SweepCode(x)) <= 2
  BY <1>6, BiasRests DEF Settled
<1>10. PICK g : g = d.pid.egain /\ g = Q16(InputGain(r))
  BY <1>7 DEF Settled
<1>11. \/ 2 * Missed(g, r.n, r.d) <= Size(r.n)
       \/ g = 32767 /\ Missed(g, r.n, r.d) <= Size(r.n)
  BY <1>8, <1>10, GainTurns DEF OnFeature
<1>12. \A y : Size(y) = Abs(y)
  BY DEF Size, Abs
<1> DEFINE rise == (sig[top] - sig[low]) * Sign(v[top] - v[low])
           run == Size(v[top] - v[low])
           miss == Size(d.pid.egain * found.slope.n - 1024 * CALIBRATION * found.slope.d)
<1>13. /\ found.v >= (IF v[top] < v[low] THEN v[top] ELSE v[low])
       /\ found.v <= (IF v[top] < v[low] THEN v[low] ELSE v[top])
       /\ Sign(found.slope.n) = Sign(rise)
  BY <1>6, <1>7, <1>8 DEF OnFeature
<1>14. Size(found.slope.n) * run >= Size(rise) * found.slope.d
  <2>1. Abs(r.n) * Abs(v[top] - v[low]) >= Abs(rise) * r.d
    BY <1>8 DEF OnFeature
  <2> HIDE DEF rise
  <2> QED
    BY <1>7, <1>12, <2>1
<1>15. Size(8191 - d.pid.bias - SweepCode(found.v)) <= 2
  BY <1>6, <1>9
<1>16. 2 * miss <= Size(found.slope.n) \/ (d.pid.egain = 32767 /\ miss <= Size(found.slope.n))
  <2>1. miss = Missed(g, r.n, r.d)
    BY <1>7, <1>10 DEF Missed
  <2> HIDE DEF miss
  <2> QED
    BY <1>7, <1>10, <1>11, <2>1
<1>17. Rests(d, found, sig, v)
  <2> HIDE DEF rise, run, miss
  <2> QED
    BY <1>13, <1>14, <1>15, <1>16 DEF Rests, rise, run, miss, top, low
<1> QED
  BY <1>17 DEF sig, v
----------------------------------------------------------------------------
(* The steps of an autolock, from the file of its sweep to the lock.       *)

\* The file on the server, then the one fetched, is that of the sweep; the lock is its lock
\* point; and the device that the third command leaves is settled on it.
Sweeping ==
  entry.op = "autolock" =>
    /\ pc = "handle" /\ stage = 1 /\ reply.status = 0 => Swept(files["sweep_log"], entry, plant)
    /\ pc = "analyse" => Swept(data, entry, plant)
    /\ stage /= 1 => Swept(data, entry, plant) /\ FoundIn(lock, data, entry)
    /\ pc = "handle" /\ stage = 3 /\ reply.status = 0 => Settled(dev, lock)
    /\ pc = "idle" /\ shown.ok => stage /= 1 /\ shown.lock = lock /\ Settled(dev, lock)

\* A file of either name is kept, and the plant stays one.
Stored == DOMAIN files = {"dma_log", "sweep_log"} /\ plant \in Plants

\* The commands of an autolock and their numbers.
LEMMA AutolockCommands ==
  ASSUME entry.op = "autolock", stage \in 1 .. Len(Commands(entry.op))
  PROVE  /\ \/ stage = 1 /\ Command = "sweep_ramp"
            \/ stage = 2 /\ Command = "config_io"
            \/ stage = 3 /\ Command = "set_pid"
         /\ Len(Commands(entry.op)) = 3 /\ (Command \in Fetches <=> stage = 1)
<1>1. Commands(entry.op) = <<"sweep_ramp", "config_io", "set_pid">>
  BY DEF Commands
<1>2. Len(Commands(entry.op)) = 3
  BY <1>1
<1>3. stage \in 1 .. 3 /\ \A k \in 1 .. 3 : k \in {1, 2, 3}
  BY <1>2
<1>4. stage = 1 \/ stage = 2 \/ stage = 3
  BY <1>3
<1>5. (stage = 1 => Command = "sweep_ramp") /\ (stage = 2 => Command = "config_io") /\ (stage = 3 => Command = "set_pid")
  BY <1>1 DEF Command
<1>6. "sweep_ramp" \in Fetches /\ "config_io" \notin Fetches /\ "set_pid" \notin Fetches
  BY DEF Fetches
<1> QED
  BY <1>2, <1>4, <1>5, <1>6

\* An autolock that reports a lock after an even sweep over a feature leaves the device at
\* rest on it, for every plant, every sweep and every lock point.
THEOREM AutolockRests == Spec => []LocksOnFeature
<1>1. Init => Stored /\ Sweeping
  BY DEF Init, Stored, Sweeping
<1>2. Stored /\ [Next]_vars => Stored'
  <2>1. ASSUME Stored, Exchange PROVE Stored'
    BY <2>1 DEF Exchange, Stored
  <2> QED
    BY <2>1 DEF Next, vars, Stored, Enter, Unreached, Raise, Return, Fetch, FetchFails, Fail, Show, FindLock
<1>3. Stored /\ Consistent /\ Consistent' /\ Sweeping /\ [Next]_vars => Sweeping'
  <2> SUFFICES ASSUME Stored, Consistent, Consistent', Sweeping, [Next]_vars, entry'.op = "autolock" PROVE Sweeping'
    BY DEF Sweeping
  <2>1. ASSUME NEW e \in Entries, Enter(e) PROVE Sweeping'
    BY <2>1 DEF Enter, Blank, Sweeping
  <2>2. CASE Exchange
    <3>1. PICK o \in Handle(dev, plant, Asked(entry, lock, Command)), lost \in BOOLEAN :
            /\ dev' = o.dev
            /\ files' = IF o.file = NoFile THEN files ELSE [files EXCEPT ![o.file.name] = o.file]
            /\ reply' = IF lost THEN NoReply ELSE [status |-> o.status, out |-> o.out]
      BY <2>2 DEF Exchange
    <3>2. /\ pc = "exchange" /\ pc' = "handle" /\ entry' = entry /\ stage' = stage
          /\ plant' = plant /\ data' = data /\ lock' = lock
          /\ entry.op = "autolock" /\ Entered(entry) /\ Registers(dev)
          /\ stage \in 1 .. Len(Commands(entry.op))
      BY <2>2, EntriesEntered DEF Exchange, Consistent
    <3>3. reply'.status = 0 => o.status = 0
      BY <3>1 DEF NoReply
    <3>4. ASSUME stage = 1, o.status = 0 PROVE Swept(files'["sweep_log"], entry, plant)
      <4>1. o \in Handle(dev, plant, Asked(entry, lock, "sweep_ramp"))
        BY <3>1, <3>2, <3>4, AutolockCommands
      <4>2. o.file /= NoFile /\ o.file.name = "sweep_log" /\ Swept(o.file, entry, plant)
        BY <3>2, <3>4, <4>1, Sweeps
      <4>3. files'["sweep_log"] = o.file
        BY <3>1, <4>2 DEF Stored
      <4> QED
        BY <4>2, <4>3
    <3>5. ASSUME stage = 3, o.status = 0 PROVE Settled(dev', lock)
      <4>1. o \in Handle(dev, plant, Asked(entry, lock, "set_pid"))
        BY <3>1, <3>2, <3>5, AutolockCommands
      <4> QED
        BY <3>1, <3>2, <3>5, <4>1, Engages
    <3> QED
      BY <3>2, <3>3, <3>4, <3>5 DEF Sweeping
  <2>3. CASE Unreached
    BY <2>3 DEF Unreached, NoReply, Sweeping
  <2>4. CASE Raise
    BY <2>4 DEF Raise, Fail, Blank, Consistent, Sweeping
  <2>5. CASE Return
    <3>1. /\ pc = "handle" /\ reply.status = 0 /\ Command \notin Fetches /\ entry' = entry /\ dev' = dev
          /\ data' = data /\ lock' = lock /\ plant' = plant /\ entry.op = "autolock"
          /\ stage \in 1 .. Len(Commands(entry.op)) /\ shown = Blank
      BY <2>5 DEF Return, Consistent
    <3>2. stage /= 1 /\ (stage = 2 \/ stage = 3) /\ Len(Commands(entry.op)) = 3
      BY <3>1, AutolockCommands
    <3>3. \/ stage = 2 /\ pc' = "exchange" /\ stage' = 3
          \/ stage = 3 /\ pc' = "idle" /\ stage' = stage /\ shown' = [ok |-> TRUE, lock |-> lock]
      <4>1. /\ stage < 3 => pc' = "exchange" /\ stage' = stage + 1
            /\ ~(stage < 3) => pc' = "idle" /\ stage' = stage /\ shown' = [ok |-> TRUE, lock |-> lock]
        BY <2>5, <3>1, <3>2 DEF Return
      <4> QED
        BY <3>2, <4>1
    <3> QED
      BY <3>1, <3>2, <3>3 DEF Sweeping
  <2>6. CASE Fetch
    <3>1. /\ pc' = "analyse" /\ entry' = entry /\ stage' = stage /\ plant' = plant /\ entry.op = "autolock"
          /\ stage \in 1 .. Len(Commands(entry.op)) /\ pc = "handle" /\ reply.status = 0 /\ Command \in Fetches
          /\ data' = files[IF Command = "get_frame" THEN "dma_log" ELSE "sweep_log"]
      BY <2>6 DEF Fetch, Consistent
    <3>2. stage = 1 /\ Command = "sweep_ramp"
      BY <3>1, AutolockCommands
    <3> QED
      BY <3>1, <3>2 DEF Sweeping
  <2>7. CASE FetchFails
    BY <2>7 DEF FetchFails, Fail, Blank, Consistent, Sweeping
  <2>8. CASE Show
    BY <2>8 DEF Show
  <2>9. CASE FindLock
    <3>1. /\ pc = "analyse" /\ entry' = entry /\ shown' = shown /\ data' = data /\ plant' = plant
          /\ entry.op = "autolock" /\ stage \in 1 .. Len(Commands(entry.op)) /\ Command \in Fetches /\ shown = Blank
      BY <2>9 DEF FindLock, Consistent
    <3>2. stage = 1 /\ Swept(data, entry, plant)
      BY <3>1, AutolockCommands DEF Sweeping
    <3>3. \/ pc' = "exchange" /\ FoundIn(lock', data, entry)
          \/ pc' = "idle" /\ stage' = stage
      BY <2>9 DEF FindLock, FoundIn
    <3> QED
      BY <3>1, <3>2, <3>3 DEF Blank, Sweeping
  <2>10. CASE UNCHANGED vars
    BY <2>10 DEF vars, Sweeping
  <2> QED
    BY <2>1, <2>2, <2>3, <2>4, <2>5, <2>6, <2>7, <2>8, <2>9, <2>10 DEF Next
<1>4. Stored /\ Consistent /\ Sweeping /\ LockEngaged => LocksOnFeature
  <2> DEFINE sig == Seen(ChannelSignal[entry.chan], data.v)
  <2> SUFFICES ASSUME Stored, Consistent, Sweeping, LockEngaged, Shows("autolock"), Evenly(data.v),
                      Dispersive(sig, entry.peak_pts)
               PROVE  Rests(dev, shown.lock, sig, data.v)
    BY DEF LocksOnFeature
  <2>1. entry.op = "autolock" /\ pc = "idle" /\ shown.ok
    BY DEF Shows
  <2>2. /\ Swept(data, entry, plant) /\ FoundIn(lock, data, entry)
        /\ shown.lock = lock /\ Settled(dev, lock) /\ plant \in Plants
    BY <2>1 DEF Sweeping, Stored
  <2>3. entry.chan \in Channels /\ entry.peak_pts \in Int
    BY <2>1, EntriesEntered, LockEntered DEF Consistent
  <2>4. sig = SeenBy(plant, ChannelSignal[entry.chan], data.v)
    BY DEF Seen, SeenBy
  <2> HIDE DEF sig
  <2>5. Rests(dev, lock, sig, data.v)
    BY <2>2, <2>3, <2>4, RestsWhere
  <2> QED
    BY <2>2, <2>5
<1> QED
  BY <1>1, <1>2, <1>3, <1>4, Consistency, AutolockEngages, PTL DEF Spec

====
