---- MODULE PortProofs ----
(***************************************************************************)
(* Proofs about CommandPort for any payloads, wherever a written word is   *)
(* held for two edges of clk at least: the port is a queue.  If a read     *)
(* waits seven edges, every handler reads its own answer and the registers *)
(* follow the calls.                                                       *)
(***************************************************************************)
EXTENDS CommandPort, SequenceTheorems, TLAPS

----------------------------------------------------------------------------
(* The inductive invariant of the queue. *)

StrobeLow(w) == Word(w.rst, FALSE, w.cmd, w.data)
Regs == [led : Data, cos : Data, sin : Data, rot : Data \X Data, io : Data]

IType ==
  /\ bus \in Words /\ was \in Words /\ held \in 0 .. READ_DELAY
  /\ ff1 \in Words /\ ff2 \in Words /\ ff3 \in Words /\ prev_D \in BOOLEAN
  /\ rst \in 0 .. 2 /\ axi_from_ps_r \in Words /\ sent \in Seq(Words)
  /\ ok \in BOOLEAN /\ reg \in Regs /\ shadow \in Regs

\* Done: the steps the handler has behind it; the bus holds the last word it sent.
Done == Len(Steps(asked)) - Len(todo)
IServer ==
  \/ asked = None /\ todo = <<>>
  \/ /\ asked \in Calls /\ todo \in Seq({Steps(asked)[k] : k \in DOMAIN Steps(asked)})
     /\ Len(todo) \in 1 .. Len(Steps(asked))
     /\ \A k \in DOMAIN todo : todo[k] = Steps(asked)[Done + k]
     /\ Done > 0 /\ Steps(asked)[Done].do = "send" => bus = Steps(asked)[Done].word

\* A reset empties the port and covers the write that ends it.
IReset ==
  /\ bus.rst => rst = 2
  /\ rst > 0 /\ ~bus.rst => rst + held = 2 /\ ~bus.strobe
  /\ rst > 0 => sent = <<>>
  /\ rst > 0 /\ held > 0 =>
       /\ ff1 = Zero /\ ff2 = Zero /\ ff3 = Zero /\ ~prev_D
       /\ axi_from_ps_r = Zero /\ reg = ResetRegs

\* How far the level of the strobe has come.
ISettled ==
  rst = 0 =>
    /\ held = 0 => ff1.strobe = was.strobe /\ (bus.strobe => was = StrobeLow(bus))
    /\ held >= 2 => ff1.strobe = bus.strobe
    /\ held >= 3 => ff2.strobe = bus.strobe
    /\ held >= 4 => ff3.strobe = bus.strobe
    /\ held >= 5 => prev_D = bus.strobe

\* The words strobed and not latched are those at whose place the strobe rises.
Young ==
  IF ff1.strobe /\ ~ff2.strobe THEN <<ff1>>
  ELSE IF bus.strobe /\ ~ff1.strobe THEN <<bus>> ELSE <<>>
InFlight ==
  IF ff3.strobe /\ ~prev_D THEN <<ff3>> \o Young
  ELSE IF ff2.strobe /\ ~ff3.strobe THEN <<ff2>> \o Young
  ELSE Young
ISent == rst = 0 => sent = InFlight

IQueue == IType /\ IServer /\ IReset /\ ISettled /\ ISent

----------------------------------------------------------------------------
(* What the inductive invariant of the registers adds. *)

Do(w, r) ==
  CASE w.cmd = "SET_LED" -> [r EXCEPT !.led = w.data]
    [] w.cmd = "SET_COS" -> [r EXCEPT !.cos = w.data]
    [] w.cmd = "SET_SIN" -> [r EXCEPT !.sin = w.data]
    [] w.cmd = "COMMIT_ROT_COEFFS" -> [r EXCEPT !.rot = <<r.cos, r.sin>>]
    [] w.cmd = "CONFIG_IO" -> [r EXCEPT !.io = w.data]
    [] w.cmd = "IDLE" -> r

\* The registers and the command once every word in flight has been latched.
Latched ==
  IF sent = <<>> THEN Do(axi_from_ps_r, reg)
  ELSE IF Len(sent) = 1 THEN Do(sent[1], Do(axi_from_ps_r, reg))
  ELSE Do(sent[2], Do(sent[1], Do(axi_from_ps_r, reg)))
Target == IF rst > 0 THEN ResetRegs ELSE Latched
Last == IF rst > 0 THEN Zero ELSE IF sent = <<>> THEN axi_from_ps_r ELSE sent[Len(sent)]

\* What the words of a call that have been strobed make of the registers.
Partly(call, done, r) ==
  CASE call.name = "set_led" -> IF done < 2 THEN r ELSE Applied(call, r)
    [] call.name = "config_io" -> IF done < (IF call.rst THEN 1 ELSE 2) THEN r ELSE Applied(call, r)
    [] call.name = "set_rot" ->
         IF done < 2 THEN r
         ELSE IF done < 4 THEN [r EXCEPT !.cos = call.args[1]]
         ELSE IF done < 7 THEN [r EXCEPT !.cos = call.args[1], !.sin = call.args[2]]
         ELSE Applied(call, r)
    [] call.name = "reset_fpga" -> IF done < 1 THEN r ELSE Applied(call, r)

IFollow ==
  /\ asked = None => Target = shadow /\ held = READ_DELAY
  /\ asked /= None => Target = Partly(asked, Done, shadow)
  /\ bus.strobe => Last = IF bus.rst THEN Zero ELSE bus
  /\ asked.name = "reset_fpga" /\ Done > 0 => Last = Zero

\* How far the last word has come behind the latch.
IAnswer ==
  rst = 0 =>
    /\ held >= 6 => Do(axi_from_ps_r, reg) = reg
    /\ held >= 7 => callback_r = Callback(axi_from_ps_r.cmd, reg)

IInv == IQueue /\ IFollow /\ IAnswer

----------------------------------------------------------------------------
(* The steps of the handlers. *)

\* A sequence of two and one more.
LEMMA TwoAndOne ==
  ASSUME NEW a, NEW b, NEW c
  PROVE  LET s == <<a, b>> \o <<c>>
         IN  s \in Seq({a, b, c}) /\ Len(s) = 3 /\ s[1] = a /\ s[2] = b /\ s[3] = c
<1>1. <<a, b>> \in Seq({a, b, c}) /\ <<c>> \in Seq({a, b, c})
  OBVIOUS
<1> QED BY <1>1

\* Where the elements of a concatenation come from.
LEMMA Concat ==
  ASSUME NEW S, NEW s \in Seq(S), NEW m \in Seq(S), NEW t, t = s \o m
  PROVE  /\ t \in Seq(S) /\ Len(t) = Len(s) + Len(m)
         /\ (\A i \in 1 .. Len(s) : t[i] = s[i])
         /\ (\A i \in 1 .. Len(m) : t[Len(s) + i] = m[i])
  BY ConcatProperties

\* A sequence of eight, put together the way the steps of set_rot are.
LEMMA Eight ==
  ASSUME NEW S, NEW a \in S, NEW b \in S, NEW c \in S, NEW d \in S, NEW e \in S, NEW f \in S,
         NEW g \in S, NEW h \in S
  PROVE  LET s == <<a, b>> \o <<c, d>> \o <<e>> \o <<f, g>> \o <<h>>
         IN  /\ s \in Seq(S) /\ Len(s) = 8 /\ s[1] = a /\ s[2] = b /\ s[3] = c /\ s[4] = d
             /\ s[5] = e /\ s[6] = f /\ s[7] = g /\ s[8] = h
<1>1. PICK m1 : m1 = <<a, b>>
  OBVIOUS
<1>2. PICK m2 : m2 = <<c, d>>
  OBVIOUS
<1>3. PICK m3 : m3 = <<e>>
  OBVIOUS
<1>4. PICK m4 : m4 = <<f, g>>
  OBVIOUS
<1>5. PICK m5 : m5 = <<h>>
  OBVIOUS
<1>6. PICK q : q = m1 \o m2
  OBVIOUS
<1>7. PICK r : r = q \o m3
  OBVIOUS
<1>8. PICK t : t = r \o m4
  OBVIOUS
<1>9. PICK u : u = t \o m5
  OBVIOUS
<1>10. u = <<a, b>> \o <<c, d>> \o <<e>> \o <<f, g>> \o <<h>>
  BY <1>1, <1>2, <1>3, <1>4, <1>5, <1>6, <1>7, <1>8, <1>9
<1> DEFINE Join(x, y, z) == /\ z \in Seq(S) /\ Len(z) = Len(x) + Len(y)
                            /\ (\A i \in 1 .. Len(x) : z[i] = x[i])
                            /\ (\A i \in 1 .. Len(y) : z[Len(x) + i] = y[i])
<1>0. \A x, y, z : x \in Seq(S) /\ y \in Seq(S) /\ z = x \o y => Join(x, y, z)
  <2> SUFFICES ASSUME NEW x, NEW y, NEW z, x \in Seq(S), y \in Seq(S), z = x \o y
               PROVE  Join(x, y, z)
    OBVIOUS
  <2> QED BY Concat
<1> HIDE DEF Join
<1>11. /\ m1 \in Seq(S) /\ Len(m1) = 2 /\ m1[1] = a /\ m1[2] = b
       /\ m2 \in Seq(S) /\ Len(m2) = 2 /\ m2[1] = c /\ m2[2] = d
       /\ m3 \in Seq(S) /\ Len(m3) = 1 /\ m3[1] = e
       /\ m4 \in Seq(S) /\ Len(m4) = 2 /\ m4[1] = f /\ m4[2] = g
       /\ m5 \in Seq(S) /\ Len(m5) = 1 /\ m5[1] = h
  BY <1>1, <1>2, <1>3, <1>4, <1>5
<1>12. q \in Seq(S) /\ Len(q) = 4 /\ q[1] = a /\ q[2] = b /\ q[3] = c /\ q[4] = d
  <2>1. /\ q \in Seq(S) /\ Len(q) = Len(m1) + Len(m2)
        /\ (\A i \in 1 .. Len(m1) : q[i] = m1[i]) /\ (\A i \in 1 .. Len(m2) : q[Len(m1) + i] = m2[i])
    <3>1. Join(m1, m2, q)
      BY <1>6, <1>11, <1>0
    <3> QED BY <3>1 DEF Join
  <2>2. /\ (\A i \in 1 .. 2 : q[i] = m1[i]) /\ (\A i \in 1 .. 2 : q[2 + i] = m2[i])
    BY <2>1, <1>11
  <2>3. q[2 + 1] = m2[1] /\ q[2 + 2] = m2[2]
    BY <2>2
  <2> QED BY <1>11, <2>1, <2>2, <2>3
<1>13. /\ r \in Seq(S) /\ Len(r) = 5 /\ r[1] = a /\ r[2] = b /\ r[3] = c /\ r[4] = d
       /\ r[5] = e
  <2>1. /\ r \in Seq(S) /\ Len(r) = Len(q) + Len(m3)
        /\ (\A i \in 1 .. Len(q) : r[i] = q[i]) /\ (\A i \in 1 .. Len(m3) : r[Len(q) + i] = m3[i])
    <3>1. Join(q, m3, r)
      BY <1>7, <1>11, <1>12, <1>0
    <3> QED BY <3>1 DEF Join
  <2>2. /\ (\A i \in 1 .. 4 : r[i] = q[i]) /\ (\A i \in 1 .. 1 : r[4 + i] = m3[i])
    BY <2>1, <1>11, <1>12
  <2>3. r[4 + 1] = m3[1]
    BY <2>2
  <2> QED BY <1>11, <1>12, <2>1, <2>2, <2>3
<1>14. /\ t \in Seq(S) /\ Len(t) = 7 /\ t[1] = a /\ t[2] = b /\ t[3] = c /\ t[4] = d
       /\ t[5] = e /\ t[6] = f /\ t[7] = g
  <2>1. /\ t \in Seq(S) /\ Len(t) = Len(r) + Len(m4)
        /\ (\A i \in 1 .. Len(r) : t[i] = r[i]) /\ (\A i \in 1 .. Len(m4) : t[Len(r) + i] = m4[i])
    <3>1. Join(r, m4, t)
      BY <1>8, <1>11, <1>13, <1>0
    <3> QED BY <3>1 DEF Join
  <2>2. /\ (\A i \in 1 .. 5 : t[i] = r[i]) /\ (\A i \in 1 .. 2 : t[5 + i] = m4[i])
    BY <2>1, <1>11, <1>13
  <2>3. t[5 + 1] = m4[1] /\ t[5 + 2] = m4[2]
    BY <2>2
  <2> QED BY <1>11, <1>13, <2>1, <2>2, <2>3
<1>15. /\ u \in Seq(S) /\ Len(u) = 8 /\ u[1] = a /\ u[2] = b /\ u[3] = c /\ u[4] = d
       /\ u[5] = e /\ u[6] = f /\ u[7] = g /\ u[8] = h
  <2>1. /\ u \in Seq(S) /\ Len(u) = Len(t) + Len(m5)
        /\ (\A i \in 1 .. Len(t) : u[i] = t[i]) /\ (\A i \in 1 .. Len(m5) : u[Len(t) + i] = m5[i])
    <3>1. Join(t, m5, u)
      BY <1>9, <1>11, <1>14, <1>0
    <3> QED BY <3>1 DEF Join
  <2>2. /\ (\A i \in 1 .. 7 : u[i] = t[i]) /\ (\A i \in 1 .. 1 : u[7 + i] = m5[i])
    BY <2>1, <1>11, <1>14
  <2>3. u[7 + 1] = m5[1]
    BY <2>2
  <2> QED BY <1>11, <1>14, <2>1, <2>2, <2>3
<1> QED BY <1>10, <1>15

\* The words of a handler: low, then high, and its reads at the end of each part.
LEMMA OneWordSteps ==
  ASSUME NEW call, NEW cmd, NEW r,
         \/ call.name = "set_led" /\ cmd = "SET_LED" /\ r = FALSE
         \/ call.name = "config_io" /\ cmd = "CONFIG_IO" /\ r = call.rst
  PROVE  LET steps == Steps(call)
         IN  /\ Len(steps) = 3 /\ steps \in Seq({steps[1], steps[2], steps[3]})
             /\ steps[1] = Send(Word(r, FALSE, cmd, call.args[1]))
             /\ steps[2] = Send(Word(r, TRUE, cmd, call.args[1]))
             /\ steps[3] = Read({call.args})
<1>1. Steps(call) = <<Send(Word(r, FALSE, cmd, call.args[1])), Send(Word(r, TRUE, cmd, call.args[1]))>>
                      \o <<Read({call.args})>>
  BY DEF Steps, pdh_strobe_cmd
<1>2. PICK a, b, c : /\ a = Send(Word(r, FALSE, cmd, call.args[1])) /\ c = Read({call.args})
                     /\ b = Send(Word(r, TRUE, cmd, call.args[1]))
  OBVIOUS
<1>3. Steps(call) = <<a, b>> \o <<c>>
  BY <1>1, <1>2
<1>4. Steps(call) \in Seq({a, b, c}) /\ Len(Steps(call)) = 3
      /\ Steps(call)[1] = a /\ Steps(call)[2] = b /\ Steps(call)[3] = c
  BY <1>3, TwoAndOne
<1> QED BY <1>2, <1>4

\* reset_fpga writes its word twice, with and without the reset bit, and reads.
LEMMA ResetSteps ==
  ASSUME NEW call, call.name = "reset_fpga"
  PROVE  LET steps == Steps(call)
         IN  /\ Len(steps) = 3 /\ steps \in Seq({steps[1], steps[2], steps[3]})
             /\ steps[1] = Send([Zero EXCEPT !.rst = TRUE]) /\ steps[2] = Send(Zero) /\ steps[3] = Read({<<>>})
<1>1. Steps(call) = <<Send([Zero EXCEPT !.rst = TRUE]), Send(Zero), Read({<<>>})>>
  BY DEF Steps
<1> QED BY <1>1

\* set_rot stages the cosine and the sine, reads them back, and commits.
LEMMA RotSteps ==
  ASSUME NEW call, call.name = "set_rot"
  PROVE  LET steps == Steps(call)
         IN  /\ Len(steps) = 8
             /\ steps \in Seq({steps[1], steps[2], steps[3], steps[4], steps[5], steps[6], steps[7], steps[8]})
             /\ steps[1] = Send(Word(FALSE, FALSE, "SET_COS", call.args[1]))
             /\ steps[2] = Send(Word(FALSE, TRUE, "SET_COS", call.args[1]))
             /\ steps[3] = Send(Word(FALSE, FALSE, "SET_SIN", call.args[2]))
             /\ steps[4] = Send(Word(FALSE, TRUE, "SET_SIN", call.args[2]))
             /\ steps[5] = Read({call.args})
             /\ steps[6] = Send(Word(FALSE, FALSE, "COMMIT_ROT_COEFFS", ResetData))
             /\ steps[7] = Send(Word(FALSE, TRUE, "COMMIT_ROT_COEFFS", ResetData))
             /\ steps[8] = Read({<<>>})
<1> DEFINE a == Send(Word(FALSE, FALSE, "SET_COS", call.args[1]))
           b == Send(Word(FALSE, TRUE, "SET_COS", call.args[1]))
           c == Send(Word(FALSE, FALSE, "SET_SIN", call.args[2]))
           d == Send(Word(FALSE, TRUE, "SET_SIN", call.args[2]))
           e == Read({call.args})
           f == Send(Word(FALSE, FALSE, "COMMIT_ROT_COEFFS", ResetData))
           g == Send(Word(FALSE, TRUE, "COMMIT_ROT_COEFFS", ResetData))
           h == Read({<<>>})
<1>1. Steps(call) = <<a, b>> \o <<c, d>> \o <<e>> \o <<f, g>> \o <<h>>
  BY DEF Steps, pdh_strobe_cmd
<1> HIDE DEF a, b, c, d, e, f, g, h
<1> DEFINE S == {a, b, c, d, e, f, g, h}
<1>2. a \in S /\ b \in S /\ c \in S /\ d \in S /\ e \in S /\ f \in S /\ g \in S /\ h \in S
  OBVIOUS
<1> HIDE DEF S
<1>3. /\ Steps(call) \in Seq(S) /\ Len(Steps(call)) = 8
      /\ Steps(call)[1] = a /\ Steps(call)[2] = b /\ Steps(call)[3] = c /\ Steps(call)[4] = d
      /\ Steps(call)[5] = e /\ Steps(call)[6] = f /\ Steps(call)[7] = g /\ Steps(call)[8] = h
  BY <1>1, <1>2, Eight
<1> QED BY <1>3 DEF S, a, b, c, d, e, f, g, h

\* The calls, by their names.
LEMMA CallNames ==
  ASSUME NEW call \in Calls
  PROVE  /\ call.name \in {"set_led", "set_rot", "config_io", "reset_fpga"} /\ call /= None
         /\ call.rst \in BOOLEAN /\ (call.rst => call.name = "config_io")
         /\ call.name \in {"set_led", "config_io"} => call.args \in Seq(Data) /\ call.args[1] \in Data
                                                     /\ call.args = <<call.args[1]>>
         /\ call.name = "set_rot" => /\ call.args[1] \in Data /\ call.args[2] \in Data
                                     /\ call.args = <<call.args[1], call.args[2]>>
         /\ call.name = "reset_fpga" => call.args = <<>>
<1> DEFINE Led == {Call("set_led", <<d>>, FALSE) : d \in Data}
           Rot == {Call("set_rot", <<c, s>>, FALSE) : c \in Data, s \in Data}
           Io == {Call("config_io", <<d>>, r) : d \in Data, r \in BOOLEAN}
           Reset == {Call("reset_fpga", <<>>, FALSE)}
<1>1. CASE call \in Led
  <2>1. PICK d \in Data : call = Call("set_led", <<d>>, FALSE)
    BY <1>1
  <2> QED BY <2>1 DEF Call, None
<1>2. CASE call \in Rot
  <2>1. PICK c \in Data, s \in Data : call = Call("set_rot", <<c, s>>, FALSE)
    BY <1>2, SMT DEF Call
  <2> QED BY <2>1 DEF Call, None
<1>3. CASE call \in Io
  <2>1. PICK d \in Data, r \in BOOLEAN : call = Call("config_io", <<d>>, r)
    BY <1>3, SMT DEF Call
  <2> QED BY <2>1 DEF Call, None
<1>4. CASE call \in Reset
  <2>1. call = Call("reset_fpga", <<>>, FALSE)
    BY <1>4
  <2> QED BY <2>1 DEF Call, None
<1>5. Calls = ((Led \cup Rot) \cup Io) \cup Reset
  BY DEF Calls
<1> HIDE DEF Led, Rot, Io, Reset
<1> QED BY <1>1, <1>2, <1>3, <1>4, <1>5

\* The word and the registers after a reset.
LEMMA ZeroType == Zero \in Words /\ ~Zero.rst /\ ~Zero.strobe /\ Zero.cmd = "IDLE" /\ ResetRegs \in Regs
  BY PortAssumption DEF Zero, Word, Words, Cmds, ResetRegs, Regs

\* A word with the strobe high follows the same word with the strobe low, a call
\* begins with a low word and ends with a read.
Rules(steps) ==
  /\ Len(steps) \in {3, 8} /\ DOMAIN steps = 1 .. Len(steps)
  /\ steps[1].do = "send" /\ ~steps[1].word.strobe /\ steps[Len(steps)].do = "read"
  /\ \A k \in 1 .. Len(steps) : steps[k].do \in {"send", "read"} /\ steps[k].word \in Words
  /\ \A k \in 1 .. Len(steps) :
       steps[k].do = "send" /\ steps[k].word.strobe =>
         k > 1 /\ steps[k - 1].do = "send" /\ steps[k - 1].word = StrobeLow(steps[k].word)

\* Every handler keeps to the rules.
LEMMA StepRules ==
  ASSUME NEW call \in Calls
  PROVE  Rules(Steps(call)) /\ Steps(call) \in Seq({Steps(call)[k] : k \in DOMAIN Steps(call)})
<1>0. PICK steps : steps = Steps(call)
  OBVIOUS
<1>1. CASE call.name \in {"set_led", "config_io"}
  <2>1. PICK cmd \in Cmds, r \in BOOLEAN :
          \/ call.name = "set_led" /\ cmd = "SET_LED" /\ r = FALSE
          \/ call.name = "config_io" /\ cmd = "CONFIG_IO" /\ r = call.rst
    BY <1>1, CallNames DEF Cmds
  <2>2. /\ Len(steps) = 3 /\ steps \in Seq({steps[1], steps[2], steps[3]})
        /\ steps[1] = Send(Word(r, FALSE, cmd, call.args[1]))
        /\ steps[2] = Send(Word(r, TRUE, cmd, call.args[1]))
        /\ steps[3] = Read({call.args})
    BY <1>0, <2>1, OneWordSteps
  <2>3. PICK d \in Data : d = call.args[1]
    BY <1>1, CallNames
  <2>4. /\ steps[1].do = "send" /\ steps[1].word = Word(r, FALSE, cmd, d)
        /\ steps[2].do = "send" /\ steps[2].word = Word(r, TRUE, cmd, d)
        /\ steps[3].do = "read" /\ steps[3].word = Zero
    BY <2>2, <2>3 DEF Send, Read
  <2>5. DOMAIN steps = 1 .. 3 /\ 1 .. 3 = {1, 2, 3}
    BY <2>2
  <2>6. Rules(steps)
    <3>1. Word(r, FALSE, cmd, d) \in Words /\ ~Word(r, FALSE, cmd, d).strobe
          /\ Word(r, TRUE, cmd, d) \in Words /\ Word(r, FALSE, cmd, d) = StrobeLow(Word(r, TRUE, cmd, d))
      <4>1. PICK low, high : low = Word(r, FALSE, cmd, d) /\ high = Word(r, TRUE, cmd, d)
        OBVIOUS
      <4>2. low \in Words /\ ~low.strobe /\ high \in Words /\ StrobeLow(high) = low
        <5>1. low \in Words /\ high \in Words
          BY <2>1, <2>3, <4>1 DEF Word, Words
        <5>2. ~low.strobe
          BY <4>1 DEF Word
        <5>3. StrobeLow(high) = low
          BY <4>1 DEF Word, StrobeLow
        <5> QED BY <5>1, <5>2, <5>3
      <4> QED BY <4>1, <4>2
    <3>2. \A k \in 1 .. 3 : steps[k].do \in {"send", "read"} /\ steps[k].word \in Words
      BY <2>4, <2>5, <3>1, ZeroType
    <3>3. \A k \in 1 .. 3 :
            steps[k].do = "send" /\ steps[k].word.strobe =>
              k > 1 /\ steps[k - 1].do = "send" /\ steps[k - 1].word = StrobeLow(steps[k].word)
      <4> SUFFICES ASSUME NEW k \in 1 .. 3, steps[k].do = "send", steps[k].word.strobe
                   PROVE  k > 1 /\ steps[k - 1].do = "send" /\ steps[k - 1].word = StrobeLow(steps[k].word)
        OBVIOUS
      <4>1. k = 2
        BY <2>4, <2>5, <3>1
      <4>2. k > 1 /\ steps[k] = steps[2] /\ steps[k - 1] = steps[1]
        BY <4>1
      <4> QED BY <2>4, <3>1, <4>2
    <3>4. steps[1].do = "send" /\ ~steps[1].word.strobe /\ steps[3].do = "read"
      BY <2>4, <3>1
    <3> QED BY <2>2, <2>5, <3>2, <3>3, <3>4 DEF Rules
  <2>7. {steps[1], steps[2], steps[3]} = {steps[k] : k \in DOMAIN steps}
    BY <2>5
  <2> QED BY <1>0, <2>2, <2>6, <2>7
<1>2. CASE call.name = "reset_fpga"
  <2>2. /\ Len(steps) = 3 /\ steps \in Seq({steps[1], steps[2], steps[3]})
        /\ steps[1] = Send([Zero EXCEPT !.rst = TRUE]) /\ steps[2] = Send(Zero) /\ steps[3] = Read({<<>>})
    BY <1>0, <1>2, ResetSteps
  <2>4. /\ steps[1].do = "send" /\ steps[1].word = [Zero EXCEPT !.rst = TRUE]
        /\ steps[2].do = "send" /\ steps[2].word = Zero
        /\ steps[3].do = "read" /\ steps[3].word = Zero
    BY <2>2 DEF Send, Read
  <2>5. DOMAIN steps = 1 .. 3 /\ 1 .. 3 = {1, 2, 3}
    BY <2>2
  <2>6. [Zero EXCEPT !.rst = TRUE] \in Words /\ ~[Zero EXCEPT !.rst = TRUE].strobe
    BY ZeroType DEF Words
  <2>7. Rules(steps)
    <3>2. \A k \in 1 .. 3 : steps[k].do \in {"send", "read"} /\ steps[k].word \in Words
      BY <2>4, <2>5, <2>6, ZeroType
    <3>3. \A k \in 1 .. 3 : ~(steps[k].do = "send" /\ steps[k].word.strobe)
      BY <2>4, <2>5, <2>6, ZeroType
    <3>4. steps[1].do = "send" /\ ~steps[1].word.strobe /\ steps[3].do = "read"
      BY <2>4, <2>6
    <3> QED BY <2>2, <2>5, <3>2, <3>3, <3>4 DEF Rules
  <2>8. {steps[1], steps[2], steps[3]} = {steps[k] : k \in DOMAIN steps}
    BY <2>5
  <2> QED BY <1>0, <2>2, <2>7, <2>8
<1>3. CASE call.name = "set_rot"
  <2>1. PICK c \in Data, s \in Data : c = call.args[1] /\ s = call.args[2]
    BY <1>3, CallNames
  <2>2. /\ Len(steps) = 8
        /\ steps \in Seq({steps[1], steps[2], steps[3], steps[4], steps[5], steps[6], steps[7], steps[8]})
        /\ steps[1] = Send(Word(FALSE, FALSE, "SET_COS", c)) /\ steps[2] = Send(Word(FALSE, TRUE, "SET_COS", c))
        /\ steps[3] = Send(Word(FALSE, FALSE, "SET_SIN", s)) /\ steps[4] = Send(Word(FALSE, TRUE, "SET_SIN", s))
        /\ steps[5] = Read({call.args})
        /\ steps[6] = Send(Word(FALSE, FALSE, "COMMIT_ROT_COEFFS", ResetData))
        /\ steps[7] = Send(Word(FALSE, TRUE, "COMMIT_ROT_COEFFS", ResetData))
        /\ steps[8] = Read({<<>>})
    BY <1>0, <1>3, <2>1, RotSteps
  <2>4. /\ steps[1].do = "send" /\ steps[1].word = Word(FALSE, FALSE, "SET_COS", c)
        /\ steps[2].do = "send" /\ steps[2].word = Word(FALSE, TRUE, "SET_COS", c)
        /\ steps[3].do = "send" /\ steps[3].word = Word(FALSE, FALSE, "SET_SIN", s)
        /\ steps[4].do = "send" /\ steps[4].word = Word(FALSE, TRUE, "SET_SIN", s)
        /\ steps[5].do = "read" /\ steps[5].word = Zero
        /\ steps[6].do = "send" /\ steps[6].word = Word(FALSE, FALSE, "COMMIT_ROT_COEFFS", ResetData)
        /\ steps[7].do = "send" /\ steps[7].word = Word(FALSE, TRUE, "COMMIT_ROT_COEFFS", ResetData)
        /\ steps[8].do = "read" /\ steps[8].word = Zero
    BY <2>2 DEF Send, Read
  <2>5. DOMAIN steps = 1 .. 8 /\ 1 .. 8 = {1, 2, 3, 4, 5, 6, 7, 8}
    BY <2>2
  <2>6. "SET_COS" \in Cmds /\ "SET_SIN" \in Cmds /\ "COMMIT_ROT_COEFFS" \in Cmds /\ ResetData \in Data
    BY PortAssumption DEF Cmds
  <2>7. \A cmd \in Cmds, d \in Data :
          /\ Word(FALSE, FALSE, cmd, d) \in Words /\ ~Word(FALSE, FALSE, cmd, d).strobe
          /\ Word(FALSE, TRUE, cmd, d) \in Words
          /\ Word(FALSE, FALSE, cmd, d) = StrobeLow(Word(FALSE, TRUE, cmd, d))
    <3> SUFFICES ASSUME NEW cmd \in Cmds, NEW d \in Data
                 PROVE  /\ Word(FALSE, FALSE, cmd, d) \in Words /\ ~Word(FALSE, FALSE, cmd, d).strobe
                        /\ Word(FALSE, TRUE, cmd, d) \in Words
                        /\ Word(FALSE, FALSE, cmd, d) = StrobeLow(Word(FALSE, TRUE, cmd, d))
      OBVIOUS
    <3>1. PICK low, high : low = Word(FALSE, FALSE, cmd, d) /\ high = Word(FALSE, TRUE, cmd, d)
      OBVIOUS
    <3>2. low \in Words /\ ~low.strobe /\ high \in Words /\ StrobeLow(high) = low
      <4>1. low \in Words /\ high \in Words
        BY <3>1 DEF Word, Words
      <4>2. ~low.strobe
        BY <3>1 DEF Word
      <4>3. StrobeLow(high) = low
        BY <3>1 DEF Word, StrobeLow
      <4> QED BY <4>1, <4>2, <4>3
    <3> QED BY <3>1, <3>2
  <2>8. \A k \in 1 .. 8 : steps[k].do \in {"send", "read"} /\ steps[k].word \in Words
    BY <2>4, <2>5, <2>6, <2>7, ZeroType
  <2>9. \A k \in 1 .. 8 :
          steps[k].do = "send" /\ steps[k].word.strobe =>
            k > 1 /\ steps[k - 1].do = "send" /\ steps[k - 1].word = StrobeLow(steps[k].word)
    <3>1. /\ ~steps[1].word.strobe /\ ~steps[3].word.strobe /\ ~steps[6].word.strobe
          /\ steps[1].word = StrobeLow(steps[2].word) /\ steps[3].word = StrobeLow(steps[4].word)
          /\ steps[6].word = StrobeLow(steps[7].word)
      BY <2>4, <2>6, <2>7
    <3> SUFFICES ASSUME NEW k \in 1 .. 8, steps[k].do = "send", steps[k].word.strobe
                 PROVE  k > 1 /\ steps[k - 1].do = "send" /\ steps[k - 1].word = StrobeLow(steps[k].word)
      OBVIOUS
    <3>2. k = 2 \/ k = 4 \/ k = 7
      BY <2>4, <2>5, <3>1
    <3>3. CASE k = 2
      <4>1. k > 1 /\ steps[k] = steps[2] /\ steps[k - 1] = steps[1]
        BY <3>3
      <4> QED BY <2>4, <3>1, <4>1
    <3>4. CASE k = 4
      <4>1. k > 1 /\ steps[k] = steps[4] /\ steps[k - 1] = steps[3]
        BY <3>4
      <4> QED BY <2>4, <3>1, <4>1
    <3>5. CASE k = 7
      <4>1. k > 1 /\ steps[k] = steps[7] /\ steps[k - 1] = steps[6]
        BY <3>5
      <4> QED BY <2>4, <3>1, <4>1
    <3> QED BY <3>2, <3>3, <3>4, <3>5
  <2>10. Rules(steps)
    <3>1. steps[1].do = "send" /\ ~steps[1].word.strobe /\ steps[8].do = "read"
      BY <2>4, <2>6, <2>7
    <3> QED BY <2>2, <2>5, <2>8, <2>9, <3>1 DEF Rules
  <2>11. {steps[1], steps[2], steps[3], steps[4], steps[5], steps[6], steps[7], steps[8]}
           = {steps[k] : k \in DOMAIN steps}
    BY <2>5
  <2>12. steps \in Seq({steps[k] : k \in DOMAIN steps})
    BY <2>2, <2>11
  <2> QED BY <1>0, <2>10, <2>12
<1> QED BY <1>1, <1>2, <1>3, CallNames

----------------------------------------------------------------------------
(* The queue: what the invariant gives, and its steps. *)

\* The handler's next step is the one after those it has behind it.
LEMMA Todo ==
  ASSUME IServer, todo /= <<>>
  PROVE  /\ asked \in Calls /\ Rules(Steps(asked)) /\ Len(todo) \in 1 .. Len(Steps(asked))
         /\ Done \in 0 .. Len(Steps(asked)) - 1 /\ Head(todo) = Steps(asked)[Done + 1]
         /\ Tail(todo) \in Seq({Steps(asked)[k] : k \in DOMAIN Steps(asked)})
         /\ Len(Tail(todo)) = Len(todo) - 1
         /\ \A k \in 1 .. Len(todo) - 1 : Tail(todo)[k] = Steps(asked)[Done + 1 + k]
         /\ Len(todo) = 1 => Head(todo).do = "read"
<1>1. /\ asked \in Calls /\ todo \in Seq({Steps(asked)[k] : k \in DOMAIN Steps(asked)})
      /\ Len(todo) \in 1 .. Len(Steps(asked)) /\ \A k \in DOMAIN todo : todo[k] = Steps(asked)[Done + k]
  BY DEF IServer
<1>2. Rules(Steps(asked))
  BY <1>1, StepRules
<1>3. PICK S : todo \in Seq(S) /\ S = {Steps(asked)[k] : k \in DOMAIN Steps(asked)}
  BY <1>1
<1>4. PICK n : n = Len(Steps(asked)) /\ n \in {3, 8}
  BY <1>2 DEF Rules
<1>5. PICK m \in 1 .. n : m = Len(todo) /\ Done = n - m
  BY <1>1, <1>4 DEF Done
<1>6. DOMAIN todo = 1 .. m /\ Head(todo) = todo[1] /\ Tail(todo) \in Seq(S) /\ Len(Tail(todo)) = m - 1
  BY <1>3, <1>5, HeadTailProperties
<1>7. Head(todo) = Steps(asked)[Done + 1]
  BY <1>1, <1>5, <1>6
<1>8. \A k \in 1 .. m - 1 : Tail(todo)[k] = Steps(asked)[Done + 1 + k]
  <2> SUFFICES ASSUME NEW k \in 1 .. m - 1
               PROVE  Tail(todo)[k] = Steps(asked)[Done + 1 + k]
    OBVIOUS
  <2>1. Tail(todo)[k] = todo[k + 1]
    BY <1>3, <1>5, <1>6, HeadTailProperties
  <2>2. todo[k + 1] = Steps(asked)[Done + (k + 1)]
    <3>1. PICK i : i = k + 1
      OBVIOUS
    <3>2. i \in DOMAIN todo
      BY <1>4, <1>5, <1>6, <3>1
    <3>3. todo[i] = Steps(asked)[Done + i]
      BY <1>1, <3>2
    <3> QED BY <3>1, <3>3
  <2>3. Done + (k + 1) = Done + 1 + k
    BY <1>4, <1>5
  <2> QED BY <2>1, <2>2, <2>3
<1>9. m = 1 => Head(todo).do = "read"
  <2>1. m = 1 => Done + 1 = n
    BY <1>4, <1>5
  <2> QED BY <1>2, <1>4, <1>7, <2>1 DEF Rules
<1>10. Done \in 0 .. n - 1
  BY <1>4, <1>5
<1> QED BY <1>1, <1>2, <1>3, <1>4, <1>5, <1>6, <1>7, <1>8, <1>9, <1>10

\* A write: what it puts on the bus, and that a high word follows its low one.
LEMMA Sends ==
  ASSUME DWELL >= 2, IType, IServer, IReset, SendCmd
  PROVE  \E w \in Words :
           /\ w = Head(todo).word /\ bus' = w /\ was' = bus /\ held' = 0 /\ held >= DWELL
           /\ rst' = (IF w.rst THEN 2 ELSE rst) /\ prev_D' = (prev_D /\ ~w.rst)
           /\ sent' = IF w.rst THEN <<>> ELSE IF w.strobe THEN Append(sent, w) ELSE sent
           /\ w.strobe => bus = StrobeLow(w)
           /\ asked \in Calls /\ Len(todo) > 1 /\ asked' = asked /\ todo' = Tail(todo)
           /\ rst > 0 => bus.rst
<1>0. todo /= <<>> /\ Head(todo).do = "send" /\ held >= DWELL
  BY DEF SendCmd
<1>1. /\ asked \in Calls /\ Rules(Steps(asked)) /\ Len(todo) \in 1 .. Len(Steps(asked))
      /\ Done \in 0 .. Len(Steps(asked)) - 1 /\ Head(todo) = Steps(asked)[Done + 1]
      /\ Len(todo) = 1 => Head(todo).do = "read"
  BY <1>0, Todo
<1>2. PICK w : w = Head(todo).word
  OBVIOUS
<1>3. PICK n : n = Len(Steps(asked)) /\ n \in {3, 8}
  BY <1>1 DEF Rules
<1>4. PICK j \in 0 .. n - 1 : j = Done
  BY <1>1, <1>3
<1>5. Head(todo) = Steps(asked)[j + 1] /\ j + 1 \in 1 .. n
  BY <1>1, <1>3, <1>4
<1>6. w \in Words
  BY <1>1, <1>2, <1>3, <1>5 DEF Rules
<1>7. w.strobe => bus = StrobeLow(w)
  <2> HAVE w.strobe
  <2>1. j + 1 > 1 /\ Steps(asked)[j + 1 - 1].do = "send" /\ Steps(asked)[j + 1 - 1].word = StrobeLow(w)
    BY <1>0, <1>1, <1>2, <1>3, <1>5 DEF Rules
  <2>2. j + 1 - 1 = j /\ j > 0
    BY <1>3, <2>1
  <2>3. j > 0 /\ Steps(asked)[j].do = "send" => bus = Steps(asked)[j].word
    BY <1>0, <1>4 DEF IServer
  <2> QED BY <2>1, <2>2, <2>3
<1>8. Len(todo) > 1 /\ Len(todo) /= 1
  <2>1. Len(todo) /= 1
    BY <1>0, <1>1
  <2>2. PICK m \in 1 .. n : m = Len(todo)
    BY <1>1, <1>3
  <2> QED BY <1>3, <2>1, <2>2
<1>9. rst > 0 => bus.rst
  BY <1>0, PortAssumption DEF IType, IReset
<1>10. asked' = asked /\ todo' = Tail(todo)
  BY <1>8 DEF SendCmd, Advance
<1>11. /\ bus' = w /\ was' = bus /\ held' = 0
       /\ rst' = (IF w.rst THEN 2 ELSE rst) /\ prev_D' = (prev_D /\ ~w.rst)
       /\ sent' = IF w.rst THEN <<>> ELSE IF w.strobe THEN Append(sent, w) ELSE sent
  BY <1>2 DEF SendCmd
<1> QED BY <1>0, <1>1, <1>2, <1>6, <1>7, <1>8, <1>9, <1>10, <1>11

\* The server's part of the invariant holds after every step.
LEMMA ServerStep ==
  ASSUME IServer, [Next]_vars
  PROVE  IServer'
<1>1. CASE Clk \/ ResetEdge \/ UNCHANGED vars
  BY <1>1 DEF Clk, ResetEdge, vars, server, wires, IServer, Done
<1>2. CASE Dispatch
  <2>1. PICK call \in Calls : asked' = call /\ todo' = Steps(call)
    BY <1>2 DEF Dispatch
  <2>2. Rules(Steps(call)) /\ Steps(call) \in Seq({Steps(call)[k] : k \in DOMAIN Steps(call)})
    BY StepRules
  <2>3. Len(Steps(call)) \in {3, 8} /\ DOMAIN Steps(call) = 1 .. Len(Steps(call))
    BY <2>2 DEF Rules
  <2>4. Done' = 0
    BY <2>1, <2>3 DEF Done
  <2>5. \A k \in DOMAIN Steps(call) : 0 + k = k
    BY <2>3
  <2>6. \A k \in DOMAIN todo' : todo'[k] = Steps(asked')[Done' + k]
    BY <2>1, <2>4, <2>5
  <2>7. Len(todo') \in 1 .. Len(Steps(asked'))
    BY <2>1, <2>3
  <2> QED BY <2>1, <2>2, <2>4, <2>6, <2>7 DEF IServer
<1>3. ASSUME todo /= <<>>, Advance, Len(todo) > 1,
             Head(todo).do = "send" => bus' = Head(todo).word
      PROVE  IServer'
  <2>1. /\ asked \in Calls /\ Rules(Steps(asked)) /\ Len(todo) \in 1 .. Len(Steps(asked))
        /\ Done \in 0 .. Len(Steps(asked)) - 1 /\ Head(todo) = Steps(asked)[Done + 1]
        /\ Tail(todo) \in Seq({Steps(asked)[k] : k \in DOMAIN Steps(asked)})
        /\ Len(Tail(todo)) = Len(todo) - 1
        /\ \A k \in 1 .. Len(todo) - 1 : Tail(todo)[k] = Steps(asked)[Done + 1 + k]
    BY <1>3, Todo
  <2>2. asked' = asked /\ todo' = Tail(todo)
    BY <1>3 DEF Advance
  <2>3. PICK n : n = Len(Steps(asked)) /\ n \in {3, 8}
    BY <2>1 DEF Rules
  <2>4. PICK m \in 2 .. n : m = Len(todo) /\ Done = n - m
    <3>1. PICK m \in 1 .. n : m = Len(todo)
      BY <2>1, <2>3
    <3>2. m > 1
      BY <1>3, <3>1
    <3> QED BY <2>3, <3>1, <3>2 DEF Done
  <2>5. Len(todo') = m - 1 /\ DOMAIN todo' = 1 .. m - 1 /\ Len(todo') \in 1 .. n
    BY <2>1, <2>2, <2>3, <2>4
  <2>6. Done' = n - m + 1 /\ Done' = Done + 1
    <3>1. Done' = n - (m - 1)
      BY <2>2, <2>3, <2>5 DEF Done
    <3> QED BY <2>3, <2>4, <3>1
  <2>7. \A k \in DOMAIN todo' : todo'[k] = Steps(asked')[Done' + k]
    BY <2>1, <2>2, <2>4, <2>5, <2>6
  <2>8. Steps(asked')[Done'].do = "send" => bus' = Steps(asked')[Done'].word
    BY <1>3, <2>1, <2>2, <2>6
  <2>9. asked' \in Calls /\ todo' \in Seq({Steps(asked')[k] : k \in DOMAIN Steps(asked')})
    BY <2>1, <2>2
  <2>10. Len(todo') \in 1 .. Len(Steps(asked'))
    BY <2>2, <2>3, <2>5
  <2> QED BY <2>7, <2>8, <2>9, <2>10 DEF IServer
<1>4. CASE SendCmd
  <2>1. todo /= <<>> /\ Head(todo).do = "send" /\ Advance /\ bus' = Head(todo).word
    BY <1>4 DEF SendCmd
  <2>2. Len(todo) \in 1 .. Len(Steps(asked)) /\ Len(Steps(asked)) \in {3, 8} /\ Len(todo) /= 1
    BY <2>1, Todo DEF Rules
  <2>3. PICK m \in 1 .. Len(Steps(asked)) : m = Len(todo) /\ m /= 1
    BY <2>2
  <2>4. Len(todo) > 1
    BY <2>2, <2>3
  <2> QED BY <1>3, <2>1, <2>4
<1>5. CASE GetCallback
  <2>1. todo /= <<>> /\ Head(todo).do = "read" /\ Advance
    BY <1>5 DEF GetCallback
  <2>2. /\ Len(todo) \in 1 .. Len(Steps(asked)) /\ Len(Steps(asked)) \in {3, 8}
        /\ Tail(todo) \in Seq({Steps(asked)[k] : k \in DOMAIN Steps(asked)}) /\ Len(Tail(todo)) = Len(todo) - 1
    BY <2>1, Todo DEF Rules
  <2>3. CASE Len(todo) = 1
    <3>1. asked' = None /\ todo' = Tail(todo)
      BY <2>1, <2>3 DEF Advance
    <3>2. PICK T : todo' \in Seq(T) /\ Len(todo') = 0
      BY <2>2, <2>3, <3>1
    <3>3. todo' = <<>>
      BY <3>2, EmptySeq
    <3> QED BY <3>1, <3>3 DEF IServer
  <2>4. CASE Len(todo) > 1
    BY <1>3, <2>1, <2>4
  <2> QED BY <2>2, <2>3, <2>4
<1> QED BY <1>1, <1>2, <1>4, <1>5 DEF Next

\* The registers stay registers, however a word or a call changes them.
LEMMA RegTypes ==
  ASSUME IType
  PROVE  /\ NextReg(axi_from_ps_r) \in Regs
         /\ \A call \in Calls : Applied(call, shadow) \in Regs
<1>1. NextReg(axi_from_ps_r) \in Regs
  <2>1. PICK w, r : w = axi_from_ps_r /\ r = reg /\ w.cmd \in Cmds /\ w.data \in Data /\ r \in Regs
    BY DEF IType, Words
  <2>2. /\ [r EXCEPT !.led = w.data] \in Regs /\ [r EXCEPT !.cos = w.data] \in Regs
        /\ [r EXCEPT !.sin = w.data] \in Regs /\ [r EXCEPT !.rot = <<r.cos, r.sin>>] \in Regs
        /\ [r EXCEPT !.io = w.data] \in Regs
    BY <2>1 DEF Regs
  <2> QED BY <2>1, <2>2 DEF NextReg, Cmds
<1>2. ASSUME NEW call \in Calls
      PROVE  Applied(call, shadow) \in Regs
  <2>1. PICK r : r = shadow /\ r \in Regs
    BY DEF IType
  <2>2. CASE call.name \in {"set_led", "config_io"}
    <3>1. PICK d \in Data : d = call.args[1]
      BY <2>2, CallNames
    <3>2. [r EXCEPT !.led = d] \in Regs /\ [r EXCEPT !.io = d] \in Regs
      BY <2>1 DEF Regs
    <3> QED BY <2>1, <2>2, <3>1, <3>2, ZeroType DEF Applied
  <2>3. CASE call.name = "set_rot"
    <3>1. PICK c \in Data, s \in Data : call.args = <<c, s>>
      BY <2>3, CallNames
    <3>2. [r EXCEPT !.cos = c, !.sin = s, !.rot = <<c, s>>] \in Regs
      BY <2>1 DEF Regs
    <3>3. Applied(call, shadow) = [r EXCEPT !.cos = c, !.sin = s, !.rot = <<c, s>>]
      BY <2>1, <2>3, <3>1 DEF Applied
    <3> QED BY <3>2, <3>3
  <2>4. CASE call.name = "reset_fpga"
    BY <2>4, ZeroType DEF Applied
  <2> QED BY <2>2, <2>3, <2>4, CallNames
<1> QED BY <1>1, <1>2

\* Every step keeps the types.
LEMMA TypeStep ==
  ASSUME DWELL >= 2, IType, IServer, IReset, [Next]_vars
  PROVE  IType'
<1>1. CASE Clk
  <2>1. ff1' \in Words
    <3>1. PICK b, w : b = bus /\ w = was /\ b \in Words /\ w \in Words
      BY DEF IType
    <3>2. [b EXCEPT !.rst = FALSE] \in Words
      BY <3>1 DEF Words
    <3>3. [rst : {FALSE}, strobe : Settling(w.strobe, b.strobe, BOOLEAN),
           cmd : Settling(w.cmd, b.cmd, Cmds), data : Settling(w.data, b.data, Data)] \subseteq Words
      BY <3>1 DEF Words, Settling
    <3> QED BY <1>1, <3>1, <3>2, <3>3 DEF Clk, Sampled
  <2>2. ff3 \in Words /\ axi_from_ps_r' \in Words
    BY <1>1 DEF Clk, IType, next_axi_from_ps
  <2>3. prev_D' \in BOOLEAN
    BY <1>1, <2>2 DEF Clk, Words
  <2>4. held' \in 0 .. READ_DELAY
    BY <1>1, PortAssumption DEF Clk, Tick, IType
  <2>5. sent' \in Seq(Words)
    BY <1>1, HeadTailProperties DEF Clk, IType
  <2>6. reg' \in Regs
    BY <1>1, RegTypes DEF Clk
  <2>7. /\ ff2' \in Words /\ ff3' \in Words
        /\ bus' \in Words /\ was' \in Words /\ rst' \in 0 .. 2 /\ ok' \in BOOLEAN /\ shadow' \in Regs
    BY <1>1 DEF Clk, IType, server
  <2> QED BY <2>1, <2>2, <2>3, <2>4, <2>5, <2>6, <2>7 DEF IType
<1>2. CASE ResetEdge
  <2>1. /\ ff1' \in Words /\ ff2' \in Words /\ ff3' \in Words /\ prev_D' \in BOOLEAN
        /\ axi_from_ps_r' \in Words /\ reg' \in Regs
    BY <1>2, ZeroType DEF ResetEdge
  <2>2. held' \in 0 .. READ_DELAY /\ rst' \in 0 .. 2
    BY <1>2, PortAssumption DEF ResetEdge, Tick, IType
  <2>3. bus' \in Words /\ was' \in Words /\ sent' \in Seq(Words) /\ ok' \in BOOLEAN /\ shadow' \in Regs
    BY <1>2 DEF ResetEdge, IType, server
  <2> QED BY <2>1, <2>2, <2>3 DEF IType
<1>3. CASE Dispatch
  BY <1>3 DEF Dispatch, IType, wires, core
<1>4. CASE SendCmd
  <2>1. PICK w \in Words :
          /\ bus' = w /\ was' = bus /\ held' = 0 /\ rst' = (IF w.rst THEN 2 ELSE rst)
          /\ prev_D' = (prev_D /\ ~w.rst)
          /\ sent' = IF w.rst THEN <<>> ELSE IF w.strobe THEN Append(sent, w) ELSE sent
    BY <1>4, Sends
  <2>2. sent' \in Seq(Words)
    BY <2>1, AppendProperties, EmptySeq DEF IType
  <2>3. bus' \in Words /\ was' \in Words /\ held' \in 0 .. READ_DELAY /\ rst' \in 0 .. 2
    BY <2>1, PortAssumption DEF IType
  <2>4. prev_D' \in BOOLEAN
    BY <2>1
  <2>5. /\ ff1' \in Words /\ ff2' \in Words /\ ff3' \in Words /\ axi_from_ps_r' \in Words
        /\ ok' \in BOOLEAN /\ reg' \in Regs /\ shadow' \in Regs
    BY <1>4 DEF SendCmd, IType
  <2> QED BY <2>2, <2>3, <2>4, <2>5 DEF IType
<1>5. CASE GetCallback
  <2>1. asked \in Calls
    BY <1>5, Todo DEF GetCallback
  <2>2. Applied(asked, shadow) \in Regs
    BY <2>1, RegTypes
  <2>3. ok' \in BOOLEAN /\ shadow' \in Regs
    BY <1>5, <2>2 DEF GetCallback, IType
  <2> QED BY <1>5, <2>3 DEF GetCallback, IType, wires, core
<1>6. CASE UNCHANGED vars
  BY <1>6 DEF vars, server, wires, core, IType
<1> QED BY <1>1, <1>2, <1>3, <1>4, <1>5, <1>6 DEF Next

\* Every step keeps what a reset means.
LEMMA ResetStep ==
  ASSUME DWELL >= 2, IType, IServer, IReset, [Next]_vars
  PROVE  IReset'
<1>1. CASE Clk
  BY <1>1 DEF Clk, IReset
<1>2. CASE ResetEdge
  <2>1. held \in Nat /\ rst \in 1 .. 2 /\ READ_DELAY \in Nat /\ READ_DELAY >= 2
    BY <1>2, PortAssumption DEF ResetEdge, IType
  <2>2. /\ bus' = bus /\ sent' = <<>> /\ held' = (IF held < READ_DELAY THEN held + 1 ELSE held)
        /\ rst' = (IF bus.rst THEN 2 ELSE rst - 1)
        /\ ff1' = Zero /\ ff2' = Zero /\ ff3' = Zero /\ ~prev_D' /\ axi_from_ps_r' = Zero /\ reg' = ResetRegs
    BY <1>2, <2>1 DEF ResetEdge, Tick, IReset
  <2>3. CASE bus.rst
    BY <2>1, <2>2, <2>3 DEF IReset
  <2>4. CASE ~bus.rst
    <3>1. rst + held = 2 /\ ~bus.strobe
      BY <2>1, <2>4 DEF IReset
    <3>2. rst' + held' = 2
      BY <2>1, <2>2, <2>4, <3>1
    <3> QED BY <2>2, <2>4, <3>1, <3>2 DEF IReset
  <2> QED BY <2>3, <2>4
<1>3. CASE Dispatch
  BY <1>3 DEF Dispatch, IReset, wires, core
<1>4. CASE SendCmd
  <2>1. PICK w \in Words :
          /\ bus' = w /\ was' = bus /\ held' = 0 /\ held >= DWELL /\ rst' = (IF w.rst THEN 2 ELSE rst)
          /\ sent' = IF w.rst THEN <<>> ELSE IF w.strobe THEN Append(sent, w) ELSE sent
          /\ w.strobe => bus = StrobeLow(w)
          /\ rst > 0 => bus.rst
    BY <1>4, Sends
  <2>2. CASE w.rst
    BY <2>1, <2>2 DEF IReset
  <2>3. CASE ~w.rst /\ rst = 0
    BY <2>1, <2>3 DEF IReset
  <2>4. CASE ~w.rst /\ rst > 0
    <3>1. bus.rst /\ rst = 2 /\ sent = <<>>
      BY <2>1, <2>4 DEF IReset
    <3>2. ~w.strobe
      <4> SUFFICES ASSUME w.strobe PROVE FALSE
        OBVIOUS
      <4>1. bus.rst = w.rst
        BY <2>1 DEF StrobeLow, Word
      <4> QED BY <2>4, <3>1, <4>1
    <3>3. bus' = w /\ rst' = 2 /\ held' = 0 /\ sent' = <<>>
      BY <2>1, <2>4, <3>1, <3>2
    <3> QED BY <2>4, <3>2, <3>3 DEF IReset
  <2>5. rst \in 0 .. 2
    BY DEF IType
  <2> QED BY <2>2, <2>3, <2>4, <2>5
<1>5. CASE GetCallback
  BY <1>5 DEF GetCallback, IReset, wires, core
<1>6. CASE UNCHANGED vars
  BY <1>6 DEF vars, server, wires, core, IReset
<1> QED BY <1>1, <1>2, <1>3, <1>4, <1>5, <1>6 DEF Next

\* What one edge of clk makes of the strobes.
LEMMA Samples ==
  ASSUME IType, IReset, ISettled, Clk
  PROVE  /\ rst = 0 /\ ~bus.rst
         /\ held > 0 => ff1' = bus
         /\ held = 0 => /\ ff1' \in {bus} \/ ~(ff1'.strobe /\ bus.strobe)
                        /\ was.strobe = bus.strobe => ff1'.strobe = bus.strobe
                        /\ ff1.strobe = was.strobe /\ (bus.strobe => ~was.strobe)
<1>1. rst = 0 /\ ~bus.rst /\ ff1' \in Sampled
  BY DEF Clk, IReset
<1>2. PICK b, w, f : b = bus /\ w = was /\ f = ff1' /\ b \in Words /\ w \in Words
  BY DEF IType
<1>3. [b EXCEPT !.rst = FALSE] = b
  <2>1. b.rst = FALSE
    BY <1>1, <1>2 DEF Words
  <2> QED BY <1>2, <2>1 DEF Words
<1>4. held > 0 => f = b
  BY <1>1, <1>2, <1>3 DEF Sampled
<1>5. ASSUME held = 0
      PROVE  /\ f = b \/ ~(f.strobe /\ b.strobe)
             /\ w.strobe = b.strobe => f.strobe = b.strobe
             /\ ff1.strobe = w.strobe /\ (b.strobe => ~w.strobe)
  <2>1. f \in [rst : {FALSE}, strobe : Settling(w.strobe, b.strobe, BOOLEAN),
                cmd : Settling(w.cmd, b.cmd, Cmds), data : Settling(w.data, b.data, Data)]
    <3>1. ~(held > 0)
      BY <1>5
    <3>2. Sampled = [rst : {FALSE}, strobe : Settling(was.strobe, bus.strobe, BOOLEAN),
                     cmd : Settling(was.cmd, bus.cmd, Cmds), data : Settling(was.data, bus.data, Data)]
      BY <3>1 DEF Sampled
    <3> QED BY <1>1, <1>2, <3>2
  <2>2. ff1.strobe = w.strobe /\ (b.strobe => w = StrobeLow(b))
    BY <1>1, <1>2, <1>5 DEF ISettled
  <2>3. w.strobe = b.strobe => f.strobe = b.strobe
    BY <2>1 DEF Settling
  <2>4. w = StrobeLow(b) => ~w.strobe /\ w.cmd = b.cmd /\ w.data = b.data
    BY DEF StrobeLow, Word
  <2>5. ASSUME b.strobe, f.strobe
        PROVE  f = b
    <3>1. w.cmd = b.cmd /\ w.data = b.data
      BY <2>2, <2>4, <2>5
    <3>2. f.cmd = b.cmd /\ f.data = b.data /\ f.rst = FALSE
      BY <2>1, <3>1 DEF Settling
    <3>3. f \in Words
      BY <1>2, <2>1 DEF Words, Settling
    <3>4. f.strobe = b.strobe /\ f.rst = b.rst
      BY <1>1, <1>2, <2>5, <3>2, <3>3 DEF Words
    <3> QED BY <1>2, <3>2, <3>3, <3>4 DEF Words
  <2> QED BY <2>2, <2>3, <2>4, <2>5
<1> QED BY <1>1, <1>2, <1>4, <1>5

\* The level of the strobe comes on by one flip-flop at every edge.
LEMMA SettledStep ==
  ASSUME DWELL >= 2, IType, IServer, IReset, ISettled, [Next]_vars
  PROVE  ISettled'
<1>1. CASE Clk
  <2>1. /\ rst' = rst /\ bus' = bus /\ was' = was /\ ff2' = ff1 /\ ff3' = ff2 /\ prev_D' = ff3.strobe
        /\ held' = IF held < READ_DELAY THEN held + 1 ELSE held
    BY <1>1 DEF Clk, Tick
  <2>2. /\ rst = 0 /\ held \in Nat /\ READ_DELAY \in Nat /\ READ_DELAY >= 2
        /\ held > 0 => ff1' = bus
    BY <1>1, Samples, PortAssumption DEF IType
  <2>3. held' /= 0 /\ (held' >= 2 => held > 0) /\ (held' >= 3 => held >= 2)
        /\ (held' >= 4 => held >= 3) /\ (held' >= 5 => held >= 4)
    BY <2>1, <2>2
  <2> QED BY <2>1, <2>2, <2>3 DEF ISettled
<1>2. CASE ResetEdge
  <2>1. held \in Nat /\ rst \in 1 .. 2 /\ READ_DELAY \in Nat /\ READ_DELAY >= 2
    BY <1>2, PortAssumption DEF ResetEdge, IType
  <2>2. /\ bus' = bus /\ held' = (IF held < READ_DELAY THEN held + 1 ELSE held)
        /\ rst' = (IF bus.rst THEN 2 ELSE rst - 1) /\ ff1' = Zero
    BY <1>2 DEF ResetEdge, Tick
  <2>3. CASE rst' = 0
    <3>1. ~bus.rst /\ rst = 1
      BY <2>1, <2>2, <2>3
    <3>2. held = 1 /\ ~bus.strobe
      BY <2>1, <3>1 DEF IReset
    <3>3. held' = 2
      BY <2>1, <2>2, <3>2
    <3>4. bus'.strobe = FALSE /\ ff1'.strobe = FALSE
      <4>1. bus.strobe \in BOOLEAN /\ Zero.strobe \in BOOLEAN
        BY ZeroType DEF IType, Words
      <4> QED BY <2>2, <3>2, <4>1, ZeroType
    <3>5. held' /= 0 /\ ~(held' >= 3) /\ ~(held' >= 4) /\ ~(held' >= 5)
      BY <3>3
    <3> QED BY <3>4, <3>5 DEF ISettled
  <2>4. CASE rst' /= 0
    BY <2>4 DEF ISettled
  <2> QED BY <2>3, <2>4
<1>3. CASE Dispatch
  BY <1>3 DEF Dispatch, ISettled, wires, core
<1>4. CASE SendCmd
  <2>1. PICK w \in Words :
          /\ bus' = w /\ was' = bus /\ held' = 0 /\ held >= DWELL /\ rst' = (IF w.rst THEN 2 ELSE rst)
          /\ w.strobe => bus = StrobeLow(w)
    BY <1>4, Sends
  <2>2. ff1' = ff1 /\ held \in Nat /\ held >= 2
    BY <1>4, <2>1, PortAssumption DEF SendCmd, IType
  <2>3. rst' = 0 => rst = 0 /\ ff1.strobe = bus.strobe
    BY <2>1, <2>2 DEF ISettled
  <2> QED BY <2>1, <2>2, <2>3 DEF ISettled
<1>5. CASE GetCallback
  BY <1>5 DEF GetCallback, ISettled, wires, core
<1>6. CASE UNCHANGED vars
  BY <1>6 DEF vars, server, wires, core, ISettled
<1> QED BY <1>1, <1>2, <1>3, <1>4, <1>5, <1>6 DEF Next

\* Sequences of one and of two.
LEMMA Pairs ==
  ASSUME NEW x, NEW y
  PROVE  /\ <<x>> /= <<>> /\ Head(<<x>>) = x /\ Tail(<<x>>) = <<>> /\ Len(<<x>>) = 1 /\ Len(<<>>) = 0
         /\ <<x, y>> /= <<>> /\ Head(<<x, y>>) = x /\ Tail(<<x, y>>) = <<y>> /\ Len(<<x, y>>) = 2
         /\ Append(<<>>, x) = <<x>> /\ Append(<<x>>, y) = <<x, y>> /\ <<x>> \o <<y>> = <<x, y>>
         /\ <<x>> \o <<>> = <<x>>
<1>1. /\ <<x>> /= <<>> /\ Head(<<x>>) = x /\ Tail(<<x>>) = <<>> /\ Len(<<x>>) = 1 /\ Len(<<>>) = 0
  OBVIOUS
<1>2. <<x, y>> /= <<>> /\ Head(<<x, y>>) = x /\ Tail(<<x, y>>) = <<y>> /\ Len(<<x, y>>) = 2
  OBVIOUS
<1>3. Append(<<>>, x) = <<x>>
  OBVIOUS
<1>0. /\ <<x>> \in Seq({x, y}) /\ <<y>> \in Seq({x, y}) /\ y \in {x, y} /\ <<x, y>> \in Seq({x, y})
      /\ Len(<<x, y>>) = 2
  OBVIOUS
<1>4. Append(<<x>>, y) = <<x, y>>
  <2>1. /\ Append(<<x>>, y) \in Seq({x, y}) /\ Len(Append(<<x>>, y)) = 2
        /\ Append(<<x>>, y)[1] = x /\ Append(<<x>>, y)[2] = y
    BY <1>0
  <2>2. \A i \in 1 .. 2 : Append(<<x>>, y)[i] = <<x, y>>[i]
    BY <2>1
  <2> QED BY <1>0, <2>1, <2>2, SeqEqual
<1>5. <<x>> \o <<y>> = <<x, y>>
  <2>1. /\ <<x>> \o <<y>> \in Seq({x, y}) /\ Len(<<x>> \o <<y>>) = 2
        /\ (<<x>> \o <<y>>)[1] = x /\ (<<x>> \o <<y>>)[2] = y
    BY <1>0
  <2>2. \A i \in 1 .. 2 : (<<x>> \o <<y>>)[i] = <<x, y>>[i]
    BY <2>1
  <2> QED BY <1>0, <2>1, <2>2, SeqEqual
<1>6. <<x>> \o <<>> = <<x>>
  OBVIOUS
<1> QED BY <1>1, <1>2, <1>3, <1>4, <1>5, <1>6

\* A word at the edge detector is the first in flight.
LEMMA AtTheEdge ==
  ASSUME rst = 0, ISent, ff3.strobe /\ ~prev_D
  PROVE  sent /= <<>> /\ Head(sent) = ff3 /\ Tail(sent) = Young
<1>1. sent = <<ff3>> \o Young /\ (Young = <<>> \/ \E y : Young = <<y>>)
  BY DEF ISent, InFlight, Young
<1>2. CASE Young = <<>>
  BY <1>1, <1>2, Pairs
<1>3. ASSUME NEW y, Young = <<y>>
      PROVE  sent /= <<>> /\ Head(sent) = ff3 /\ Tail(sent) = Young
  <2>1. sent = <<ff3, y>>
    BY <1>1, <1>3, Pairs
  <2> QED BY <1>3, <2>1, Pairs
<1> QED BY <1>1, <1>2, <1>3

\* There is room for one word more while the strobe is low.
LEMMA Room ==
  ASSUME rst = 0, ISent, ~bus.strobe, ~ff1.strobe
  PROVE  /\ Young = <<>> /\ Len(sent) < 2
         /\ sent = IF ff3.strobe /\ ~prev_D THEN <<ff3>> ELSE IF ff2.strobe /\ ~ff3.strobe THEN <<ff2>> ELSE <<>>
<1>1. Young = <<>>
  BY DEF Young
<1>2. <<ff3>> \o <<>> = <<ff3>> /\ <<ff2>> \o <<>> = <<ff2>>
  BY Pairs
<1>3. sent = IF ff3.strobe /\ ~prev_D THEN <<ff3>> ELSE IF ff2.strobe /\ ~ff3.strobe THEN <<ff2>> ELSE <<>>
  BY <1>1, <1>2 DEF ISent, InFlight
<1>4. Len(<<ff3>>) < 2 /\ Len(<<ff2>>) < 2 /\ Len(<<>>) < 2
  BY Pairs
<1> QED BY <1>1, <1>3, <1>4

\* The history of strobed words is what is in flight, after every step.
LEMMA SentStep ==
  ASSUME DWELL >= 2, IType, IServer, IReset, ISettled, ISent, [Next]_vars
  PROVE  ISent'
<1>1. CASE Clk
  <2>0. /\ rst = 0 /\ held \in Nat /\ bus' = bus /\ ff2' = ff1 /\ ff3' = ff2 /\ prev_D' = ff3.strobe
        /\ sent' = IF strobe_edge /\ sent /= <<>> THEN Tail(sent) ELSE sent
        /\ sent = InFlight
    BY <1>1 DEF Clk, ISent, IType
  <2>1. /\ bus.strobe \in BOOLEAN /\ ff1.strobe \in BOOLEAN /\ ff2.strobe \in BOOLEAN /\ ff3.strobe \in BOOLEAN
        /\ prev_D \in BOOLEAN
    BY DEF IType, Words
  <2> DEFINE Coming == IF bus.strobe /\ ~ff1.strobe THEN <<bus>> ELSE <<>>
  <2>2. Young' = Coming
    <3>1. Young' = IF ff1'.strobe /\ ~ff1.strobe THEN <<ff1'>>
                   ELSE IF bus.strobe /\ ~ff1'.strobe THEN <<bus>> ELSE <<>>
      BY <2>0 DEF Young
    <3>2. CASE held > 0
      <4>1. ff1' = bus
        BY <1>1, <3>2, Samples
      <4> QED BY <2>1, <3>1, <4>1
    <3>3. CASE held = 0
      <4>1. /\ ff1' = bus \/ ~(ff1'.strobe /\ bus.strobe)
            /\ was.strobe = bus.strobe => ff1'.strobe = bus.strobe
            /\ ff1.strobe = was.strobe /\ (bus.strobe => ~was.strobe)
        BY <1>1, <3>3, Samples
      <4>2. CASE bus.strobe
        BY <2>1, <3>1, <4>1, <4>2
      <4>3. CASE ~bus.strobe
        <5>1. ~(ff1'.strobe /\ ~ff1.strobe)
          <6>1. was.strobe \in BOOLEAN
            BY DEF IType, Words
          <6> QED BY <2>1, <4>1, <4>3, <6>1
        <5> QED BY <3>1, <4>3, <5>1
      <4> QED BY <4>2, <4>3
    <3> QED BY <2>0, <3>2, <3>3
  <2> HIDE DEF Coming
  <2>3. InFlight' = IF ff2.strobe /\ ~ff3.strobe THEN <<ff2>> \o Coming
                    ELSE IF ff1.strobe /\ ~ff2.strobe THEN <<ff1>> \o Coming ELSE Coming
    BY <2>0, <2>2 DEF InFlight
  <2>4. ff1.strobe /\ ~ff2.strobe => Young = <<ff1>> /\ Coming = <<>>
    BY DEF Young, Coming
  <2>5. ~(ff1.strobe /\ ~ff2.strobe) => Young = Coming
    BY DEF Young, Coming
  <2>6. <<ff1>> \o <<>> = <<ff1>>
    BY Pairs
  <2>7. CASE ff3.strobe /\ ~prev_D
    <3>2. sent /= <<>> /\ Tail(sent) = Young
      BY <2>0, <2>7, AtTheEdge
    <3>3. sent' = Young
      BY <2>0, <2>7, <3>2 DEF strobe_edge
    <3> QED BY <2>3, <2>4, <2>5, <2>6, <2>7, <3>3 DEF ISent
  <2>8. CASE ~(ff3.strobe /\ ~prev_D) /\ (ff2.strobe /\ ~ff3.strobe)
    <3>1. sent = <<ff2>> \o Young /\ sent' = sent
      BY <2>0, <2>8 DEF InFlight, strobe_edge
    <3>2. Young = Coming
      BY <2>5, <2>8
    <3> QED BY <2>3, <2>8, <3>1, <3>2 DEF ISent
  <2>9. CASE ~(ff3.strobe /\ ~prev_D) /\ ~(ff2.strobe /\ ~ff3.strobe)
    <3>1. sent = Young /\ sent' = sent
      BY <2>0, <2>9 DEF InFlight, strobe_edge
    <3> QED BY <2>3, <2>4, <2>5, <2>6, <2>9, <3>1 DEF ISent
  <2> QED BY <2>7, <2>8, <2>9
<1>2. CASE ResetEdge
  <2>1. rst' = 0 => ~bus.rst /\ rst = 1
    BY <1>2 DEF ResetEdge, IType
  <2>2. /\ bus' = bus /\ sent' = sent /\ sent = <<>> /\ ff1' = Zero /\ ff2' = Zero /\ ff3' = Zero
    BY <1>2 DEF ResetEdge, IReset, IType
  <2>3. rst' = 0 => ~bus.strobe
    BY <2>1 DEF IReset
  <2>4. ~bus.strobe => InFlight' = <<>>
    BY <2>2, ZeroType DEF InFlight, Young
  <2> QED BY <2>2, <2>3, <2>4 DEF ISent
<1>3. CASE Dispatch
  BY <1>3 DEF Dispatch, ISent, InFlight, Young, wires, core
<1>4. CASE SendCmd
  <2>1. PICK w \in Words :
          /\ bus' = w /\ was' = bus /\ held' = 0 /\ held >= DWELL /\ rst' = (IF w.rst THEN 2 ELSE rst)
          /\ prev_D' = (prev_D /\ ~w.rst)
          /\ sent' = IF w.rst THEN <<>> ELSE IF w.strobe THEN Append(sent, w) ELSE sent
          /\ w.strobe => bus = StrobeLow(w)
    BY <1>4, Sends
  <2>2. /\ ff1' = ff1 /\ ff2' = ff2 /\ ff3' = ff3 /\ held >= 2
        /\ bus.strobe \in BOOLEAN /\ ff1.strobe \in BOOLEAN /\ ff2.strobe \in BOOLEAN /\ ff3.strobe \in BOOLEAN
        /\ prev_D \in BOOLEAN /\ w.strobe \in BOOLEAN /\ w.rst \in BOOLEAN
    <3>1. ff1' = ff1 /\ ff2' = ff2 /\ ff3' = ff3
      BY <1>4 DEF SendCmd
    <3>2. held >= 2
      BY <2>1, PortAssumption DEF IType
    <3>3. bus.strobe \in BOOLEAN /\ ff1.strobe \in BOOLEAN /\ ff2.strobe \in BOOLEAN /\ ff3.strobe \in BOOLEAN
      BY DEF IType, Words
    <3>4. prev_D \in BOOLEAN /\ w.strobe \in BOOLEAN /\ w.rst \in BOOLEAN
      BY <2>1 DEF IType, Words
    <3> QED BY <3>1, <3>2, <3>3, <3>4
  <2> SUFFICES ASSUME rst' = 0
               PROVE  sent' = InFlight'
    BY DEF ISent
  <2>3. rst = 0 /\ ~w.rst /\ prev_D' = prev_D /\ sent = InFlight /\ ff1.strobe = bus.strobe
    <3>1. rst = 0 /\ ~w.rst
      BY <2>1, <2>2
    <3>2. prev_D' = prev_D
      BY <2>1, <2>2, <3>1
    <3> QED BY <2>2, <3>1, <3>2 DEF ISent, ISettled
  <2>4. CASE w.strobe
    <3>1. ~bus.strobe
      BY <2>1, <2>4 DEF StrobeLow, Word
    <3>2. Young' = <<w>>
      BY <2>1, <2>2, <2>3, <2>4, <3>1 DEF Young
    <3>3. sent' = Append(sent, w)
      BY <2>1, <2>3, <2>4
    <3>4. sent = (IF ff3.strobe /\ ~prev_D THEN <<ff3>> ELSE IF ff2.strobe /\ ~ff3.strobe THEN <<ff2>> ELSE <<>>)
      BY <2>3, <3>1, Room
    <3>5. InFlight' = (IF ff3.strobe /\ ~prev_D THEN <<ff3>> \o <<w>>
                       ELSE IF ff2.strobe /\ ~ff3.strobe THEN <<ff2>> \o <<w>> ELSE <<w>>)
      BY <2>2, <2>3, <3>2 DEF InFlight
    <3>6. /\ Append(<<ff3>>, w) = <<ff3>> \o <<w>> /\ Append(<<ff2>>, w) = <<ff2>> \o <<w>>
          /\ Append(<<>>, w) = <<w>>
      BY Pairs
    <3> QED BY <3>3, <3>4, <3>5, <3>6
  <2>5. CASE ~w.strobe
    <3>1. sent' = sent
      BY <2>1, <2>3, <2>5
    <3>2. Young' = Young
      BY <2>1, <2>2, <2>3, <2>5 DEF Young
    <3>3. InFlight' = InFlight
      BY <2>2, <2>3, <3>2 DEF InFlight
    <3> QED BY <2>3, <3>1, <3>3
  <2> QED BY <2>2, <2>4, <2>5
<1>5. CASE GetCallback
  BY <1>5 DEF GetCallback, ISent, InFlight, Young, wires, core
<1>6. CASE UNCHANGED vars
  BY <1>6 DEF vars, server, wires, core, ISent, InFlight, Young
<1> QED BY <1>1, <1>2, <1>3, <1>4, <1>5, <1>6 DEF Next

\* The invariant of the queue, for every dwell of two edges at least.
LEMMA QueueInvariant == DWELL >= 2 /\ Spec => []IQueue
<1> SUFFICES ASSUME DWELL >= 2
             PROVE  Spec => []IQueue
  OBVIOUS
<1>1. Init => IQueue
  <2> SUFFICES ASSUME Init
               PROVE  IQueue
    OBVIOUS
  <2>1. IType
    <3>1. bus \in Words /\ was \in Words /\ ff1 \in Words /\ ff2 \in Words /\ ff3 \in Words /\ axi_from_ps_r \in Words
      BY ZeroType DEF Init
    <3>2. held \in 0 .. READ_DELAY /\ rst \in 0 .. 2
      BY PortAssumption DEF Init
    <3>3. prev_D \in BOOLEAN /\ ok \in BOOLEAN
      BY DEF Init
    <3>4. sent \in Seq(Words) /\ reg \in Regs /\ shadow \in Regs
      BY ZeroType, EmptySeq DEF Init
    <3> QED BY <3>1, <3>2, <3>3, <3>4 DEF IType
  <2>2. IServer
    BY DEF Init, IServer
  <2>3. IReset
    BY ZeroType DEF Init, IReset
  <2>4. ISettled
    <3>1. Zero.strobe = FALSE
      BY DEF Zero, Word
    <3>2. /\ bus.strobe = FALSE /\ was.strobe = FALSE /\ ff1.strobe = FALSE /\ ff2.strobe = FALSE
          /\ ff3.strobe = FALSE /\ prev_D = FALSE
      BY <3>1 DEF Init
    <3> QED BY <3>2 DEF ISettled
  <2>5. ISent
    BY ZeroType DEF Init, ISent, InFlight, Young
  <2> QED BY <2>1, <2>2, <2>3, <2>4, <2>5 DEF IQueue
<1>2. IQueue /\ [Next]_vars => IQueue'
  <2> SUFFICES ASSUME IQueue, [Next]_vars
               PROVE  IQueue'
    OBVIOUS
  <2>1. IType /\ IServer /\ IReset /\ ISettled /\ ISent
    BY DEF IQueue
  <2>2. IType' /\ IServer' /\ IReset'
    BY <2>1, TypeStep, ServerStep, ResetStep
  <2>3. ISettled' /\ ISent'
    BY <2>1, SettledStep, SentStep
  <2> QED BY <2>2, <2>3 DEF IQueue
<1> QED BY <1>1, <1>2, PTL DEF Spec

\* Every step of the port is a step of the queue, or none.
LEMMA QueueStep ==
  ASSUME DWELL >= 2, IQueue, [Next]_vars
  PROVE  [Queue!Next]_<<sent, axi_from_ps_r>>
<1>0. IType /\ IServer /\ IReset /\ ISettled /\ ISent
  BY DEF IQueue
<1>1. CASE Clk
  <2>1. rst = 0 /\ axi_from_ps_r' = (IF strobe_edge THEN ff3 ELSE axi_from_ps_r)
        /\ sent' = IF strobe_edge /\ sent /= <<>> THEN Tail(sent) ELSE sent
    BY <1>1 DEF Clk, next_axi_from_ps
  <2>2. CASE strobe_edge
    <3>1. sent /= <<>> /\ Head(sent) = ff3
      BY <1>0, <2>1, <2>2, AtTheEdge DEF strobe_edge
    <3>2. Queue!Latch
      BY <2>1, <2>2, <3>1 DEF Queue!Latch
    <3> QED BY <3>2 DEF Queue!Next
  <2>3. CASE ~strobe_edge
    BY <2>1, <2>3
  <2> QED BY <2>2, <2>3
<1>2. CASE ResetEdge
  <2>1. sent' = <<>> /\ axi_from_ps_r' = Zero
    BY <1>0, <1>2 DEF ResetEdge, IReset, IType
  <2>2. Queue!Reset
    BY <2>1 DEF Queue!Reset
  <2> QED BY <2>2 DEF Queue!Next
<1>3. CASE Dispatch \/ GetCallback \/ UNCHANGED vars
  BY <1>3 DEF Dispatch, GetCallback, vars, core
<1>4. CASE SendCmd
  <2>1. PICK w \in Words :
          /\ held >= DWELL /\ rst' = (IF w.rst THEN 2 ELSE rst)
          /\ sent' = IF w.rst THEN <<>> ELSE IF w.strobe THEN Append(sent, w) ELSE sent
          /\ w.strobe => bus = StrobeLow(w)
          /\ rst > 0 => bus.rst
    BY <1>0, <1>4, Sends
  <2>2. axi_from_ps_r' = axi_from_ps_r
    BY <1>4 DEF SendCmd
  <2>3. CASE w.rst
    <3>1. Queue!Reset
      BY <2>1, <2>2, <2>3 DEF Queue!Reset
    <3> QED BY <3>1 DEF Queue!Next
  <2>4. CASE ~w.rst /\ w.strobe
    <3>1. ~bus.strobe /\ bus.rst = w.rst
      BY <2>1, <2>4 DEF StrobeLow, Word
    <3>2. rst = 0
      BY <1>0, <2>1, <2>4, <3>1 DEF IType
    <3>3. held >= 2
      BY <1>0, <2>1, PortAssumption DEF IType
    <3>4. ff1.strobe = bus.strobe
      BY <1>0, <3>2, <3>3 DEF ISettled
    <3>5. Len(sent) < 2
      BY <1>0, <3>1, <3>2, <3>4, Room
    <3>6. Queue!Strobe(w)
      BY <2>1, <2>2, <2>4, <3>5 DEF Queue!Strobe
    <3> QED BY <3>6 DEF Queue!Next
  <2>5. CASE ~w.rst /\ ~w.strobe
    BY <2>1, <2>2, <2>5
  <2> QED BY <2>3, <2>4, <2>5
<1> QED BY <1>1, <1>2, <1>3, <1>4 DEF Next

\* The port is a queue of two words at most: each strobed word becomes the command
\* once, whole and in the order of the strobes, whatever an edge finds on the bits
\* that settle.
THEOREM PortIsQueue ==
  ASSUME DWELL >= 2
  PROVE  Spec => ImplementsQueue
<1>1. Init => Queue!Init
  BY DEF Init, Queue!Init
<1>2. IQueue /\ [Next]_vars => [Queue!Next]_<<sent, axi_from_ps_r>>
  BY QueueStep
<1> QED BY <1>1, <1>2, QueueInvariant, PTL DEF Spec, ImplementsQueue, Queue!Spec

----------------------------------------------------------------------------
(* The registers: what a word does to them. *)

\* Executing a word again changes nothing, and IDLE changes nothing.
LEMMA DoTypes ==
  ASSUME NEW w \in Words, NEW r \in Regs
  PROVE  Do(w, r) \in Regs /\ Do(w, Do(w, r)) = Do(w, r) /\ (w.cmd = "IDLE" => Do(w, r) = r)
<1>1. w.cmd \in Cmds /\ w.data \in Data
  BY DEF Words
<1>2. CASE w.cmd = "SET_LED"
  <2>1. \A x \in Regs : Do(w, x) = [x EXCEPT !.led = w.data]
    BY <1>2 DEF Do
  <2>2. [r EXCEPT !.led = w.data] \in Regs
    BY <1>1 DEF Regs
  <2>3. [[r EXCEPT !.led = w.data] EXCEPT !.led = w.data] = [r EXCEPT !.led = w.data]
    BY DEF Regs
  <2> QED BY <1>2, <2>1, <2>2, <2>3
<1>3. CASE w.cmd = "SET_COS"
  <2>1. \A x \in Regs : Do(w, x) = [x EXCEPT !.cos = w.data]
    BY <1>3 DEF Do
  <2>2. [r EXCEPT !.cos = w.data] \in Regs
    BY <1>1 DEF Regs
  <2>3. [[r EXCEPT !.cos = w.data] EXCEPT !.cos = w.data] = [r EXCEPT !.cos = w.data]
    BY DEF Regs
  <2> QED BY <1>3, <2>1, <2>2, <2>3
<1>4. CASE w.cmd = "SET_SIN"
  <2>1. \A x \in Regs : Do(w, x) = [x EXCEPT !.sin = w.data]
    BY <1>4 DEF Do
  <2>2. [r EXCEPT !.sin = w.data] \in Regs
    BY <1>1 DEF Regs
  <2>3. [[r EXCEPT !.sin = w.data] EXCEPT !.sin = w.data] = [r EXCEPT !.sin = w.data]
    BY DEF Regs
  <2> QED BY <1>4, <2>1, <2>2, <2>3
<1>5. CASE w.cmd = "COMMIT_ROT_COEFFS"
  <2>1. \A x \in Regs : Do(w, x) = [x EXCEPT !.rot = <<x.cos, x.sin>>]
    BY <1>5 DEF Do
  <2>2. PICK t : t = [r EXCEPT !.rot = <<r.cos, r.sin>>]
    OBVIOUS
  <2>3. t \in Regs /\ t.cos = r.cos /\ t.sin = r.sin /\ t.rot = <<r.cos, r.sin>>
    BY <2>2 DEF Regs
  <2>4. [t EXCEPT !.rot = <<t.cos, t.sin>>] = t
    BY <2>3 DEF Regs
  <2> QED BY <1>5, <2>1, <2>2, <2>3, <2>4
<1>6. CASE w.cmd = "CONFIG_IO"
  <2>1. \A x \in Regs : Do(w, x) = [x EXCEPT !.io = w.data]
    BY <1>6 DEF Do
  <2>2. [r EXCEPT !.io = w.data] \in Regs
    BY <1>1 DEF Regs
  <2>3. [[r EXCEPT !.io = w.data] EXCEPT !.io = w.data] = [r EXCEPT !.io = w.data]
    BY DEF Regs
  <2> QED BY <1>6, <2>1, <2>2, <2>3
<1>7. CASE w.cmd = "IDLE"
  BY <1>7 DEF Do
<1> QED BY <1>1, <1>2, <1>3, <1>4, <1>5, <1>6, <1>7 DEF Cmds

\* An edge of clk moves the words on and changes nothing of what they come to.
LEMMA ClkTarget ==
  ASSUME IQueue, Clk
  PROVE  Target' = Target /\ Last' = Last
<1>0. /\ rst = 0 /\ rst' = 0 /\ axi_from_ps_r' = (IF strobe_edge THEN ff3 ELSE axi_from_ps_r)
      /\ sent' = IF strobe_edge /\ sent /= <<>> THEN Tail(sent) ELSE sent
  BY DEF Clk, next_axi_from_ps
<1>1. PICK a, r : a = axi_from_ps_r /\ r = reg /\ a \in Words /\ r \in Regs
  BY DEF IQueue, IType
<1>2. reg' = Do(a, r)
  BY <1>1 DEF Clk, NextReg, Do
<1>3. Do(a, Do(a, r)) = Do(a, r)
  BY <1>1, DoTypes
<1>4. CASE ~strobe_edge
  <2>1. axi_from_ps_r' = a /\ sent' = sent
    BY <1>0, <1>1, <1>4
  <2>2. Latched' = Latched
    BY <1>1, <1>2, <1>3, <2>1 DEF Latched
  <2>3. ~(rst > 0) /\ ~(rst' > 0)
    BY <1>0
  <2>4. Target' = Latched' /\ Target = Latched
    BY <2>3 DEF Target
  <2>5. Last' = Last
    BY <1>1, <2>1, <2>3 DEF Last
  <2> QED BY <2>2, <2>4, <2>5
<1>5. CASE strobe_edge
  <2>1. sent /= <<>> /\ Head(sent) = ff3 /\ sent = <<ff3>> \o Young /\ Tail(sent) = Young
    BY <1>0, <1>5, AtTheEdge DEF IQueue, strobe_edge, ISent, InFlight
  <2>2. PICK x : x = ff3
    OBVIOUS
  <2>3. axi_from_ps_r' = x /\ sent' = Young
    BY <1>0, <1>5, <2>1, <2>2
  <2>4. CASE Young = <<>>
    <3>1. sent = <<x>> /\ sent' = <<>>
      BY <2>1, <2>2, <2>3, <2>4, Pairs
    <3>2. Latched = Do(x, Do(a, r)) /\ Last = x
      BY <1>0, <1>1, <3>1, Pairs DEF Latched, Last
    <3>3. Latched' = Do(x, Do(a, r)) /\ Last' = x
      BY <1>0, <1>2, <2>3, <3>1 DEF Latched, Last
    <3> QED BY <1>0, <3>2, <3>3 DEF Target
  <2>5. ASSUME NEW y, Young = <<y>>
        PROVE  Target' = Target /\ Last' = Last
    <3>1. sent = <<x, y>> /\ sent' = <<y>>
      BY <2>1, <2>2, <2>3, <2>5, Pairs
    <3>2. Latched = Do(y, Do(x, Do(a, r))) /\ Last = y
      BY <1>0, <1>1, <3>1, Pairs DEF Latched, Last
    <3>3. Latched' = Do(y, Do(x, Do(a, r))) /\ Last' = y
      BY <1>0, <1>2, <2>3, <3>1, Pairs DEF Latched, Last
    <3> QED BY <1>0, <3>2, <3>3 DEF Target
  <2> QED BY <2>4, <2>5 DEF Young
<1> QED BY <1>4, <1>5

\* An edge of a reset leaves the registers where the reset took them.
LEMMA ResetTarget ==
  ASSUME DWELL >= 2, IQueue, ResetEdge
  PROVE  Target' = Target /\ Last' = Last
<1>1. rst > 0 /\ sent' = <<>> /\ axi_from_ps_r' = Zero /\ reg' = ResetRegs
  BY DEF IQueue, IReset, ResetEdge
<1>2. Do(Zero, ResetRegs) = ResetRegs
  BY ZeroType, DoTypes
<1>3. Target = ResetRegs /\ Last = Zero
  BY <1>1 DEF Target, Last
<1>4. Latched' = ResetRegs
  BY <1>1, <1>2 DEF Latched
<1>5. Target' = ResetRegs
  BY <1>4 DEF Target
<1>6. Last' = Zero
  BY <1>1 DEF Last
<1> QED BY <1>3, <1>5, <1>6

\* A strobed word is the last to act on the registers.
LEMMA SendTarget ==
  ASSUME DWELL >= 2, IQueue, SendCmd
  PROVE  \E w \in Words :
           /\ w = Head(todo).word /\ bus' = w /\ was' = bus /\ held' = 0
           /\ asked \in Calls /\ Len(todo) > 1 /\ asked' = asked /\ todo' = Tail(todo)
           /\ w.rst => Target' = ResetRegs /\ Last' = Zero
           /\ ~w.rst /\ w.strobe => Target' = Do(w, Target) /\ Last' = w
           /\ ~w.rst /\ ~w.strobe => Target' = Target /\ Last' = Last
<1>0. IType /\ IServer /\ IReset /\ ISettled /\ ISent
  BY DEF IQueue
<1>1. PICK w \in Words :
         /\ w = Head(todo).word /\ bus' = w /\ was' = bus /\ held' = 0 /\ held >= DWELL
         /\ rst' = (IF w.rst THEN 2 ELSE rst)
         /\ sent' = IF w.rst THEN <<>> ELSE IF w.strobe THEN Append(sent, w) ELSE sent
         /\ w.strobe => bus = StrobeLow(w)
         /\ asked \in Calls /\ Len(todo) > 1 /\ asked' = asked /\ todo' = Tail(todo)
         /\ rst > 0 => bus.rst
  BY <1>0, Sends
<1>2. axi_from_ps_r' = axi_from_ps_r /\ reg' = reg
  BY DEF SendCmd
<1>3. CASE w.rst
  BY <1>1, <1>3 DEF Target, Last
<1>4. CASE ~w.rst /\ w.strobe
  <2>1. ~bus.strobe /\ bus.rst = w.rst
    BY <1>1, <1>4 DEF StrobeLow, Word
  <2>2. rst = 0 /\ rst' = 0
    BY <1>0, <1>1, <1>4, <2>1 DEF IType
  <2>3. held >= 2
    BY <1>0, <1>1, PortAssumption DEF IType
  <2>4. ff1.strobe = bus.strobe
    BY <1>0, <2>2, <2>3 DEF ISettled
  <2>5. sent = <<>> \/ \E x : sent = <<x>>
    BY <1>0, <2>1, <2>2, <2>4, Room
  <2>6. sent' = Append(sent, w)
    BY <1>1, <1>4
  <2>7. CASE sent = <<>>
    <3>1. sent' = <<w>>
      BY <2>6, <2>7, Pairs
    <3>2. Latched' = Do(w, Latched) /\ Last' = w
      BY <1>2, <2>2, <2>7, <3>1, Pairs DEF Latched, Last
    <3> QED BY <1>1, <1>4, <2>2, <3>2 DEF Target
  <2>8. ASSUME NEW x, sent = <<x>>
        PROVE  Target' = Do(w, Target) /\ Last' = w
    <3>1. sent' = <<x, w>>
      BY <2>6, <2>8, Pairs
    <3>2. Latched' = Do(w, Latched) /\ Last' = w
      BY <1>2, <2>2, <2>8, <3>1, Pairs DEF Latched, Last
    <3> QED BY <2>2, <3>2 DEF Target
  <2> QED BY <1>1, <1>4, <2>5, <2>7, <2>8
<1>5. CASE ~w.rst /\ ~w.strobe
  <2>1. rst' = rst /\ sent' = sent
    BY <1>1, <1>5
  <2> QED BY <1>1, <1>2, <1>5, <2>1 DEF Target, Last, Latched
<1> QED BY <1>1, <1>3, <1>4, <1>5

\* What the words of a call make of the registers, one step at a time.
Does(call, j, r, step) ==
  /\ step.do = "send" /\ step.word.rst => Partly(call, j + 1, r) = ResetRegs
  /\ step.do = "send" /\ ~step.word.rst /\ step.word.strobe =>
       Partly(call, j + 1, r) = Do(step.word, Partly(call, j, r))
  /\ step.do = "send" /\ ~step.word.rst /\ ~step.word.strobe => Partly(call, j + 1, r) = Partly(call, j, r)
  /\ step.do = "read" => Partly(call, j + 1, r) = Partly(call, j, r)
  /\ j + 1 = Len(Steps(call)) => Partly(call, j, r) = Applied(call, r)
  /\ call.name = "reset_fpga" => /\ j = 0 => step.do = "send" /\ step.word.rst
                                 /\ j > 0 /\ step.do = "send" => step.word = Zero

\* set_led and config_io, step by step.
LEMMA OneWordDoes ==
  ASSUME NEW call \in Calls, NEW r \in Regs, NEW j \in 0 .. 2, call.name \in {"set_led", "config_io"}
  PROVE  Does(call, j, r, Steps(call)[j + 1])
<1>1. PICK cmd \in Cmds, b \in BOOLEAN :
        \/ call.name = "set_led" /\ cmd = "SET_LED" /\ b = FALSE
        \/ call.name = "config_io" /\ cmd = "CONFIG_IO" /\ b = call.rst
  BY CallNames DEF Cmds
<1>2. PICK d \in Data : d = call.args[1]
  BY CallNames
<1>3. PICK steps : steps = Steps(call)
  OBVIOUS
<1>4. /\ Len(steps) = 3 /\ steps[1] = Send(Word(b, FALSE, cmd, d)) /\ steps[2] = Send(Word(b, TRUE, cmd, d))
      /\ steps[3] = Read({call.args})
  BY <1>1, <1>2, <1>3, OneWordSteps
<1>5. PICK low, high : low = Word(b, FALSE, cmd, d) /\ high = Word(b, TRUE, cmd, d)
  OBVIOUS
<1>6. /\ low.rst = b /\ low.strobe = FALSE /\ high.rst = b /\ high.strobe = TRUE /\ high.cmd = cmd
      /\ high.data = d
  BY <1>5 DEF Word
<1>7. /\ steps[1].do = "send" /\ steps[1].word = low /\ steps[2].do = "send" /\ steps[2].word = high
      /\ steps[3].do = "read"
  BY <1>4, <1>5 DEF Send, Read
<1>8. b => Applied(call, r) = ResetRegs
  BY <1>1 DEF Applied
<1>9. ~b => Applied(call, r) = Do(high, r)
  BY <1>1, <1>2, <1>6 DEF Applied, Do
<1>10. /\ b => Partly(call, 1, r) = Applied(call, r)
       /\ ~b => Partly(call, 1, r) = r
       /\ Partly(call, 2, r) = Applied(call, r) /\ Partly(call, 3, r) = Applied(call, r)
       /\ Partly(call, 0, r) = r
  BY <1>1 DEF Partly
<1>11. CASE j = 0
  <2>1. j + 1 = 1
    BY <1>11
  <2> QED BY <1>1, <1>3, <1>4, <1>6, <1>7, <1>8, <1>10, <1>11, <2>1 DEF Does
<1>12. CASE j = 1
  <2>1. j + 1 = 2
    BY <1>12
  <2> QED BY <1>1, <1>3, <1>4, <1>6, <1>7, <1>8, <1>9, <1>10, <1>12, <2>1 DEF Does
<1>13. CASE j = 2
  <2>1. j + 1 = 3
    BY <1>13
  <2> QED BY <1>1, <1>3, <1>4, <1>6, <1>7, <1>8, <1>9, <1>10, <1>13, <2>1 DEF Does
<1> QED BY <1>11, <1>12, <1>13

\* reset_fpga, step by step.
LEMMA ResetDoes ==
  ASSUME NEW call \in Calls, NEW r \in Regs, NEW j \in 0 .. 2, call.name = "reset_fpga"
  PROVE  Does(call, j, r, Steps(call)[j + 1])
<1>1. PICK steps : steps = Steps(call)
  OBVIOUS
<1>2. /\ Len(steps) = 3 /\ steps[1] = Send([Zero EXCEPT !.rst = TRUE]) /\ steps[2] = Send(Zero)
      /\ steps[3] = Read({<<>>})
  BY <1>1, ResetSteps
<1>3. [Zero EXCEPT !.rst = TRUE].rst
  BY DEF Zero, Word
<1>4. /\ steps[1].do = "send" /\ steps[1].word.rst /\ steps[2].do = "send" /\ steps[2].word = Zero
      /\ steps[3].do = "read"
  <2>1. PICK w : w = [Zero EXCEPT !.rst = TRUE] /\ w.rst
    BY <1>3
  <2>2. steps[1].do = "send" /\ steps[1].word = w
    BY <1>2, <2>1 DEF Send
  <2>3. steps[2].do = "send" /\ steps[2].word = Zero
    BY <1>2 DEF Send
  <2>4. steps[3].do = "read"
    BY <1>2 DEF Read
  <2> QED BY <2>1, <2>2, <2>3, <2>4
<1>5. Applied(call, r) = ResetRegs
  BY DEF Applied
<1>6. /\ Partly(call, 1, r) = ResetRegs /\ Partly(call, 2, r) = ResetRegs /\ Partly(call, 3, r) = ResetRegs
  BY <1>5 DEF Partly
<1>7. CASE j = 0
  <2>1. j + 1 = 1
    BY <1>7
  <2> QED BY <1>1, <1>2, <1>4, <1>6, <1>7, <2>1 DEF Does
<1>8. CASE j = 1
  <2>1. j + 1 = 2
    BY <1>8
  <2> QED BY <1>1, <1>2, <1>4, <1>6, <1>8, <2>1, ZeroType DEF Does
<1>9. CASE j = 2
  <2>1. j + 1 = 3
    BY <1>9
  <2> QED BY <1>1, <1>2, <1>4, <1>5, <1>6, <1>9, <2>1 DEF Does
<1> QED BY <1>7, <1>8, <1>9

\* set_rot, step by step.
LEMMA RotDoes ==
  ASSUME NEW call \in Calls, NEW r \in Regs, NEW j \in 0 .. 7, call.name = "set_rot"
  PROVE  Does(call, j, r, Steps(call)[j + 1])
<1>1. PICK steps : steps = Steps(call)
  OBVIOUS
<1>2. PICK c \in Data, s \in Data : c = call.args[1] /\ s = call.args[2] /\ call.args = <<c, s>>
  BY CallNames
<1>3. /\ Len(steps) = 8
      /\ steps[1] = Send(Word(FALSE, FALSE, "SET_COS", c)) /\ steps[2] = Send(Word(FALSE, TRUE, "SET_COS", c))
      /\ steps[3] = Send(Word(FALSE, FALSE, "SET_SIN", s)) /\ steps[4] = Send(Word(FALSE, TRUE, "SET_SIN", s))
      /\ steps[5] = Read({call.args})
      /\ steps[6] = Send(Word(FALSE, FALSE, "COMMIT_ROT_COEFFS", ResetData))
      /\ steps[7] = Send(Word(FALSE, TRUE, "COMMIT_ROT_COEFFS", ResetData))
      /\ steps[8] = Read({<<>>})
  BY <1>1, <1>2, RotSteps
<1>4. PICK cos, sin, commit : /\ cos = Word(FALSE, TRUE, "SET_COS", c) /\ sin = Word(FALSE, TRUE, "SET_SIN", s)
                              /\ commit = Word(FALSE, TRUE, "COMMIT_ROT_COEFFS", ResetData)
  OBVIOUS
<1>5. /\ cos.rst = FALSE /\ cos.strobe = TRUE /\ cos.cmd = "SET_COS" /\ cos.data = c
      /\ sin.rst = FALSE /\ sin.strobe = TRUE /\ sin.cmd = "SET_SIN" /\ sin.data = s
      /\ commit.rst = FALSE /\ commit.strobe = TRUE /\ commit.cmd = "COMMIT_ROT_COEFFS"
  BY <1>4 DEF Word
<1>6. /\ steps[2].do = "send" /\ steps[2].word = cos /\ steps[4].do = "send" /\ steps[4].word = sin
      /\ steps[7].do = "send" /\ steps[7].word = commit /\ steps[5].do = "read" /\ steps[8].do = "read"
      /\ steps[1].do = "send" /\ steps[1].word.rst = FALSE /\ steps[1].word.strobe = FALSE
      /\ steps[3].do = "send" /\ steps[3].word.rst = FALSE /\ steps[3].word.strobe = FALSE
      /\ steps[6].do = "send" /\ steps[6].word.rst = FALSE /\ steps[6].word.strobe = FALSE
  BY <1>3, <1>4 DEF Send, Read, Word
<1>7. PICK r1, r2, r3 : /\ r1 = [r EXCEPT !.cos = c] /\ r2 = [r EXCEPT !.cos = c, !.sin = s]
                        /\ r3 = [r EXCEPT !.cos = c, !.sin = s, !.rot = <<c, s>>]
  OBVIOUS
<1>8. Do(cos, r) = r1 /\ Do(sin, r1) = r2 /\ Do(commit, r2) = r3
  <2>1. Do(cos, r) = r1
    BY <1>5, <1>7 DEF Do
  <2>2. Do(sin, r1) = [r1 EXCEPT !.sin = s]
    BY <1>5 DEF Do
  <2>3. [r1 EXCEPT !.sin = s] = r2
    BY <1>7 DEF Regs
  <2>4. Do(commit, r2) = [r2 EXCEPT !.rot = <<r2.cos, r2.sin>>]
    BY <1>5 DEF Do
  <2>5. r2.cos = c /\ r2.sin = s
    BY <1>7 DEF Regs
  <2>6. [r2 EXCEPT !.rot = <<c, s>>] = r3
    BY <1>7 DEF Regs
  <2> QED BY <2>1, <2>2, <2>3, <2>4, <2>5, <2>6
<1>9. Applied(call, r) = r3
  BY <1>2, <1>7 DEF Applied
<1>10. /\ Partly(call, 0, r) = r /\ Partly(call, 1, r) = r /\ Partly(call, 2, r) = r1 /\ Partly(call, 3, r) = r1
       /\ Partly(call, 4, r) = r2 /\ Partly(call, 5, r) = r2 /\ Partly(call, 6, r) = r2
       /\ Partly(call, 7, r) = r3 /\ Partly(call, 8, r) = r3
  BY <1>2, <1>7, <1>9 DEF Partly
<1>11. Len(Steps(call)) = 8 /\ call.name /= "reset_fpga"
  BY <1>1, <1>3
<1> DEFINE D(i) == Does(call, i, r, steps[i + 1])
<1>20. D(0)
  <2>1. 0 + 1 = 1 /\ (0 + 1 = 8 <=> FALSE)
    OBVIOUS
  <2> QED BY <1>6, <1>10, <1>11, <2>1 DEF Does
<1>21. D(1)
  <2>1. 1 + 1 = 2 /\ (1 + 1 = 8 <=> FALSE)
    OBVIOUS
  <2> QED BY <1>5, <1>6, <1>8, <1>10, <1>11, <2>1 DEF Does
<1>22. D(2)
  <2>1. 2 + 1 = 3 /\ (2 + 1 = 8 <=> FALSE)
    OBVIOUS
  <2> QED BY <1>6, <1>10, <1>11, <2>1 DEF Does
<1>23. D(3)
  <2>1. 3 + 1 = 4 /\ (3 + 1 = 8 <=> FALSE)
    OBVIOUS
  <2> QED BY <1>5, <1>6, <1>8, <1>10, <1>11, <2>1 DEF Does
<1>24. D(4)
  <2>1. 4 + 1 = 5 /\ (4 + 1 = 8 <=> FALSE)
    OBVIOUS
  <2> QED BY <1>6, <1>10, <1>11, <2>1 DEF Does
<1>25. D(5)
  <2>1. 5 + 1 = 6 /\ (5 + 1 = 8 <=> FALSE)
    OBVIOUS
  <2> QED BY <1>6, <1>10, <1>11, <2>1 DEF Does
<1>26. D(6)
  <2>1. 6 + 1 = 7 /\ (6 + 1 = 8 <=> FALSE)
    OBVIOUS
  <2> QED BY <1>5, <1>6, <1>8, <1>10, <1>11, <2>1 DEF Does
<1>27. D(7)
  <2>1. 7 + 1 = 8 /\ (7 + 1 = 8 <=> TRUE)
    OBVIOUS
  <2> QED BY <1>6, <1>9, <1>10, <1>11, <2>1 DEF Does
<1>28. j = 0 \/ j = 1 \/ j = 2 \/ j = 3 \/ j = 4 \/ j = 5 \/ j = 6 \/ j = 7
  OBVIOUS
<1> HIDE DEF D
<1>29. D(j)
  BY <1>28, <1>20, <1>21, <1>22, <1>23, <1>24, <1>25, <1>26, <1>27
<1> QED BY <1>1, <1>29 DEF D

\* Every handler, step by step.
LEMMA CallDoes ==
  ASSUME NEW call \in Calls, NEW r \in Regs, NEW j \in 0 .. Len(Steps(call)) - 1
  PROVE  Does(call, j, r, Steps(call)[j + 1])
<1>1. CASE call.name \in {"set_led", "config_io"}
  <2>1. \E cmd, b : \/ call.name = "set_led" /\ cmd = "SET_LED" /\ b = FALSE
                    \/ call.name = "config_io" /\ cmd = "CONFIG_IO" /\ b = call.rst
    BY <1>1
  <2>2. Len(Steps(call)) = 3
    BY <2>1, OneWordSteps
  <2> QED BY <1>1, <2>2, OneWordDoes
<1>2. CASE call.name = "set_rot"
  <2>1. Len(Steps(call)) = 8
    BY <1>2, RotSteps
  <2> QED BY <1>2, <2>1, RotDoes
<1>3. CASE call.name = "reset_fpga"
  <2>1. Len(Steps(call)) = 3
    BY <1>3, ResetSteps
  <2> QED BY <1>3, <2>1, ResetDoes
<1> QED BY <1>1, <1>2, <1>3, CallNames

----------------------------------------------------------------------------
(* The registers follow the calls. *)

\* The registers the words come to are those the call has made so far.
LEMMA FollowStep ==
  ASSUME DWELL >= 2, IQueue, IFollow, [Next]_vars
  PROVE  IFollow'
<1>0. IType /\ IServer /\ IReset
  BY DEF IQueue
<1>1. CASE Clk \/ ResetEdge
  <2>1. Target' = Target /\ Last' = Last
    BY <1>1, ClkTarget, ResetTarget
  <2>2. asked' = asked /\ shadow' = shadow /\ todo' = todo /\ bus' = bus
        /\ held' = IF held < READ_DELAY THEN held + 1 ELSE held
    BY <1>1 DEF Clk, ResetEdge, Tick, server
  <2>3. Done' = Done
    BY <2>2 DEF Done
  <2>4. held = READ_DELAY => held' = READ_DELAY
    BY <2>2, PortAssumption
  <2>5. Partly(asked, Done, shadow)' = Partly(asked, Done, shadow)
    BY <2>2, <2>3 DEF Partly, Applied
  <2> QED BY <2>1, <2>2, <2>3, <2>4, <2>5 DEF IFollow
<1>2. CASE Dispatch
  <2>1. PICK call \in Calls : asked' = call /\ todo' = Steps(call) /\ asked = None
    BY <1>2 DEF Dispatch
  <2>2. /\ rst' = rst /\ sent' = sent /\ axi_from_ps_r' = axi_from_ps_r /\ reg' = reg /\ bus' = bus
        /\ shadow' = shadow
    BY <1>2 DEF Dispatch, core, wires
  <2>3. Target' = Target /\ Last' = Last
    BY <2>2 DEF Target, Latched, Last
  <2>4. Len(Steps(call)) \in {3, 8}
    BY StepRules DEF Rules
  <2>5. Done' = 0
    BY <2>1, <2>4 DEF Done
  <2>6. call /= None /\ call.name \in {"set_led", "set_rot", "config_io", "reset_fpga"} /\ call.rst \in BOOLEAN
    BY CallNames
  <2>7. Partly(call, 0, shadow) = shadow
    BY <2>6 DEF Partly
  <2>8. Target' = Partly(asked', Done', shadow')
    BY <2>1, <2>2, <2>3, <2>5, <2>7 DEF IFollow
  <2> QED BY <2>1, <2>2, <2>3, <2>5, <2>6, <2>8 DEF IFollow
<1>3. ASSUME NEW call \in Calls, NEW j \in Nat, NEW r \in Regs, asked = call, j = Done, r = shadow,
             j + 1 <= Len(Steps(call)), Head(todo) = Steps(call)[j + 1], call /= None
      PROVE  Does(call, j, r, Head(todo)) /\ Target = Partly(call, j, r)
  <2>1. Len(Steps(call)) \in {3, 8}
    BY StepRules DEF Rules
  <2>2. j \in 0 .. Len(Steps(call)) - 1
    BY <1>3, <2>1
  <2>3. Does(call, j, r, Steps(call)[j + 1])
    BY <2>2, CallDoes
  <2> QED BY <1>3, <2>3 DEF IFollow
<1>4. CASE SendCmd
  <2>1. PICK w \in Words :
           /\ w = Head(todo).word /\ bus' = w /\ was' = bus /\ held' = 0
           /\ asked \in Calls /\ Len(todo) > 1 /\ asked' = asked /\ todo' = Tail(todo)
           /\ w.rst => Target' = ResetRegs /\ Last' = Zero
           /\ ~w.rst /\ w.strobe => Target' = Do(w, Target) /\ Last' = w
           /\ ~w.rst /\ ~w.strobe => Target' = Target /\ Last' = Last
    BY <1>4, SendTarget
  <2>2. /\ todo /= <<>> /\ Head(todo).do = "send" /\ shadow' = shadow
    BY <1>4 DEF SendCmd
  <2>3. /\ Len(todo) \in 1 .. Len(Steps(asked)) /\ Len(Steps(asked)) \in {3, 8}
        /\ Done \in 0 .. Len(Steps(asked)) - 1 /\ Head(todo) = Steps(asked)[Done + 1]
        /\ Len(Tail(todo)) = Len(todo) - 1
    BY <1>0, <2>2, Todo DEF Rules
  <2>4. PICK call \in Calls, j \in Nat, r \in Regs : call = asked /\ j = Done /\ r = shadow
    BY <1>0, <2>1, <2>3 DEF IType
  <2>5. call /= None
    BY CallNames
  <2>6. Does(call, j, r, Head(todo)) /\ Target = Partly(call, j, r)
    BY <1>3, <2>3, <2>4, <2>5
  <2>7. Done' = j + 1
    <3>1. PICK n \in {3, 8}, m \in Nat : n = Len(Steps(asked)) /\ m = Len(todo) /\ Len(Tail(todo)) = m - 1
      <4>1. PICK n \in {3, 8} : n = Len(Steps(asked))
        BY <2>3
      <4>2. PICK m \in 1 .. n : m = Len(todo)
        BY <2>3, <4>1
      <4>3. m \in Nat /\ Len(Tail(todo)) = m - 1
        BY <2>3, <4>1, <4>2
      <4> QED BY <4>1, <4>2, <4>3
    <3>2. j = n - m
      BY <2>4, <3>1 DEF Done
    <3>3. Done' = n - (m - 1)
      BY <2>1, <3>1 DEF Done
    <3> QED BY <3>1, <3>2, <3>3
  <2>8. Target' = Partly(call, j + 1, r)
    BY <2>1, <2>2, <2>6 DEF Does
  <2>9. bus'.strobe => Last' = IF bus'.rst THEN Zero ELSE bus'
    BY <2>1
  <2>10. call.name = "reset_fpga" => Last' = Zero
    <3> SUFFICES ASSUME call.name = "reset_fpga"
                 PROVE  Last' = Zero
      OBVIOUS
    <3>1. CASE j = 0
      BY <2>1, <2>2, <2>6, <3>1 DEF Does
    <3>2. CASE j > 0
      <4>1. w = Zero
        BY <2>1, <2>2, <2>6, <3>2 DEF Does
      <4>2. Last = Zero
        BY <2>4, <3>2 DEF IFollow
      <4> QED BY <2>1, <4>1, <4>2, ZeroType
    <3> QED BY <3>1, <3>2
  <2>11. asked' = call /\ shadow' = r /\ asked' /= None
    BY <2>1, <2>2, <2>4, <2>5
  <2>12. Target' = Partly(asked', Done', shadow')
    BY <2>7, <2>8, <2>11
  <2> QED BY <2>9, <2>10, <2>11, <2>12 DEF IFollow
<1>5. CASE GetCallback
  <2>1. /\ todo /= <<>> /\ Head(todo).do = "read" /\ held >= READ_DELAY
        /\ shadow' = (IF Len(todo) = 1 THEN Applied(asked, shadow) ELSE shadow)
        /\ todo' = Tail(todo) /\ asked' = (IF Len(todo) = 1 THEN None ELSE asked)
        /\ bus' = bus /\ held' = held /\ rst' = rst /\ sent' = sent /\ axi_from_ps_r' = axi_from_ps_r /\ reg' = reg
    BY <1>5 DEF GetCallback, Advance, wires, core
  <2>2. Target' = Target /\ Last' = Last
    BY <2>1 DEF Target, Latched, Last
  <2>3. /\ asked \in Calls /\ Len(todo) \in 1 .. Len(Steps(asked)) /\ Len(Steps(asked)) \in {3, 8}
        /\ Done \in 0 .. Len(Steps(asked)) - 1 /\ Head(todo) = Steps(asked)[Done + 1]
        /\ Len(Tail(todo)) = Len(todo) - 1
    BY <1>0, <2>1, Todo DEF Rules
  <2>4. PICK call \in Calls, j \in Nat, r \in Regs : call = asked /\ j = Done /\ r = shadow
    BY <1>0, <2>3 DEF IType
  <2>5. call /= None
    BY CallNames
  <2>6. Does(call, j, r, Head(todo)) /\ Target = Partly(call, j, r)
    BY <1>3, <2>3, <2>4, <2>5
  <2>7. PICK n \in {3, 8}, m \in Nat : n = Len(Steps(asked)) /\ m = Len(todo) /\ Len(Tail(todo)) = m - 1
    <3>1. PICK n \in {3, 8} : n = Len(Steps(asked))
      BY <2>3
    <3>2. PICK m \in 1 .. n : m = Len(todo)
      BY <2>3, <3>1
    <3>3. m \in Nat /\ Len(Tail(todo)) = m - 1
      BY <2>3, <3>1, <3>2
    <3> QED BY <3>1, <3>2, <3>3
  <2>8. j = n - m
    BY <2>4, <2>7 DEF Done
  <2>9. CASE m = 1
    <3>1. asked' = None /\ shadow' = Applied(call, r) /\ held' = READ_DELAY
      BY <1>0, <2>1, <2>4, <2>7, <2>9, PortAssumption DEF IType
    <3>2. j + 1 = Len(Steps(call))
      BY <2>4, <2>7, <2>8, <2>9
    <3>3. Target' = shadow'
      BY <2>2, <2>6, <3>1, <3>2 DEF Does
    <3>4. None.name = "none"
      BY DEF None, Call
    <3> QED BY <2>1, <2>2, <3>1, <3>3, <3>4 DEF IFollow
  <2>10. CASE m /= 1
    <3>1. asked' = call /\ shadow' = r
      BY <2>1, <2>4, <2>7, <2>10
    <3>2. Done' = n - (m - 1)
      BY <2>1, <2>4, <2>7, <3>1 DEF Done
    <3>3. Done' = j + 1
      BY <2>7, <2>8, <3>2
    <3>4. Target' = Partly(asked', Done', shadow')
      BY <2>1, <2>2, <2>6, <3>1, <3>3 DEF Does
    <3>5. call.name = "reset_fpga" => Last = Zero
      <4>1. call.name = "reset_fpga" /\ j = 0 => FALSE
        BY <2>1, <2>6 DEF Does
      <4> QED BY <2>4, <4>1 DEF IFollow
    <3> QED BY <2>1, <2>2, <2>5, <3>1, <3>4, <3>5 DEF IFollow
  <2> QED BY <2>9, <2>10
<1>6. CASE UNCHANGED vars
  BY <1>6 DEF vars, server, wires, core, IFollow, Target, Latched, Last, Partly, Applied, Done
<1> QED BY <1>1, <1>2, <1>4, <1>5, <1>6 DEF Next

\* The register has followed after six edges and the callback after seven.
LEMMA AnswerStep ==
  ASSUME DWELL >= 2, READ_DELAY >= 7, IQueue, IAnswer, [Next]_vars
  PROVE  IAnswer'
<1>0. IType /\ IServer /\ IReset /\ ISettled
  BY DEF IQueue
<1>1. CASE Clk
  <2>1. /\ rst = 0 /\ rst' = 0 /\ axi_from_ps_r' = (IF strobe_edge THEN ff3 ELSE axi_from_ps_r)
        /\ callback_r' = Callback(axi_from_ps_r.cmd, reg)
        /\ held' = IF held < READ_DELAY THEN held + 1 ELSE held
    BY <1>1 DEF Clk, next_axi_from_ps, Tick
  <2>2. PICK a, r : a = axi_from_ps_r /\ r = reg /\ a \in Words /\ r \in Regs
    BY <1>0 DEF IType
  <2>3. reg' = Do(a, r)
    BY <1>1, <2>2 DEF Clk, NextReg, Do
  <2>4. Do(a, Do(a, r)) = Do(a, r)
    BY <2>2, DoTypes
  <2>5. held \in Nat /\ (held' >= 6 => held >= 5) /\ (held' >= 7 => held >= 6)
    BY <1>0, <2>1, PortAssumption DEF IType
  <2>6. held >= 5 => axi_from_ps_r' = a
    <3>1. held >= 5 => prev_D = bus.strobe /\ ff3.strobe = bus.strobe
      BY <1>0, <2>1, <2>5 DEF ISettled
    <3>2. held >= 5 => ~strobe_edge
      BY <1>0, <3>1 DEF strobe_edge, IType, Words
    <3> QED BY <2>1, <2>2, <3>2
  <2>7. held' >= 6 => Do(axi_from_ps_r', reg') = reg'
    BY <2>3, <2>4, <2>5, <2>6
  <2>8. held' >= 7 => callback_r' = Callback(axi_from_ps_r'.cmd, reg')
    <3>1. held >= 6 => reg' = r
      BY <2>1, <2>2, <2>3 DEF IAnswer
    <3>2. held >= 6 => held >= 5
      BY <2>5
    <3> QED BY <2>1, <2>2, <2>5, <2>6, <3>1, <3>2
  <2> QED BY <2>7, <2>8 DEF IAnswer
<1>2. CASE ResetEdge
  <2>1. rst > 0 /\ rst \in 0 .. 2 /\ bus' = bus /\ held \in Nat
        /\ held' = (IF held < READ_DELAY THEN held + 1 ELSE held)
    BY <1>0, <1>2 DEF ResetEdge, IType, Tick
  <2>2. rst' = 0 => ~bus.rst /\ rst = 1
    BY <1>2, <2>1 DEF ResetEdge
  <2>3. rst' = 0 => held = 1
    BY <1>0, <2>1, <2>2 DEF IReset
  <2>4. rst' = 0 => held' \in Nat /\ ~(held' >= 6) /\ ~(held' >= 7)
    BY <2>1, <2>3, PortAssumption
  <2> QED BY <2>4 DEF IAnswer
<1>3. CASE Dispatch \/ GetCallback \/ UNCHANGED vars
  BY <1>3 DEF Dispatch, GetCallback, vars, wires, core, IAnswer
<1>4. CASE SendCmd
  <2>1. held' = 0
    BY <1>4 DEF SendCmd
  <2> QED BY <2>1 DEF IAnswer
<1> QED BY <1>1, <1>2, <1>3, <1>4 DEF Next

\* The whole invariant, where a read waits seven edges at least.
LEMMA Invariant == DWELL >= 2 /\ READ_DELAY >= 7 /\ Spec => []IInv
<1> SUFFICES ASSUME DWELL >= 2, READ_DELAY >= 7
             PROVE  Spec => []IInv
  OBVIOUS
<1>1. Init => IFollow /\ IAnswer
  <2> SUFFICES ASSUME Init
               PROVE  IFollow /\ IAnswer
    OBVIOUS
  <2>1. /\ rst = 0 /\ sent = <<>> /\ axi_from_ps_r = Zero /\ reg = ResetRegs /\ shadow = ResetRegs
        /\ bus = Zero /\ asked = None /\ held = READ_DELAY
        /\ callback_r = [cmd |-> "IDLE", payload |-> <<>>]
    BY DEF Init
  <2>2. Do(Zero, ResetRegs) = ResetRegs
    BY ZeroType, DoTypes
  <2>3. Target = ResetRegs /\ Last = Zero
    BY <2>1, <2>2 DEF Target, Latched, Last
  <2>4. None.name = "none"
    BY DEF None, Call
  <2>5. IFollow
    BY <2>1, <2>3, <2>4, ZeroType DEF IFollow
  <2>6. Callback("IDLE", ResetRegs) = [cmd |-> "IDLE", payload |-> <<>>]
    BY DEF Callback, Payload
  <2>7. IAnswer
    BY <2>1, <2>2, <2>6, ZeroType DEF IAnswer
  <2> QED BY <2>5, <2>7
<1>2. IQueue /\ IFollow /\ IAnswer /\ [Next]_vars => IFollow' /\ IAnswer'
  BY FollowStep, AnswerStep
<1> QED BY <1>1, <1>2, QueueInvariant, PTL DEF Spec, IInv

\* Seven edges after a write nothing is on its way.
LEMMA Quiet ==
  ASSUME IInv, held >= 7
  PROVE  /\ rst = 0 => /\ reg = Target /\ Last = axi_from_ps_r
                       /\ callback_r = Callback(axi_from_ps_r.cmd, reg)
         /\ rst > 0 => bus.rst /\ reg = Target
<1>0. IType /\ IReset /\ ISettled /\ ISent /\ IAnswer
  BY DEF IInv, IQueue
<1>1. held \in Nat /\ held >= 2 /\ held >= 3 /\ held >= 4 /\ held >= 5 /\ held >= 6
  BY <1>0 DEF IType
<1>2. CASE rst = 0
  <2>1. /\ ff1.strobe = bus.strobe /\ ff2.strobe = bus.strobe /\ ff3.strobe = bus.strobe
        /\ prev_D = bus.strobe
    BY <1>0, <1>1, <1>2 DEF ISettled
  <2>2. sent = <<>>
    <3>1. bus.strobe \in BOOLEAN
      BY <1>0 DEF IType, Words
    <3>2. CASE bus.strobe
      BY <1>0, <1>2, <2>1, <3>2 DEF ISent, InFlight, Young
    <3>3. CASE ~bus.strobe
      BY <1>0, <1>2, <2>1, <3>3 DEF ISent, InFlight, Young
    <3> QED BY <3>1, <3>2, <3>3
  <2>3. Do(axi_from_ps_r, reg) = reg /\ callback_r = Callback(axi_from_ps_r.cmd, reg)
    BY <1>0, <1>1, <1>2 DEF IAnswer
  <2>4. Target = reg /\ Last = axi_from_ps_r
    <3>1. ~(rst > 0)
      BY <1>2
    <3>2. Target = Latched /\ Last = axi_from_ps_r
      BY <2>2, <3>1 DEF Target, Last
    <3> QED BY <2>2, <2>3, <3>2 DEF Latched
  <2>5. ~(rst > 0)
    BY <1>2
  <2> QED BY <2>3, <2>4, <2>5
<1>3. CASE rst > 0
  <2>1. bus.rst
    BY <1>0, <1>1, <1>3 DEF IReset, IType
  <2>2. reg = ResetRegs
    BY <1>0, <1>1, <1>3 DEF IReset
  <2>3. rst /= 0
    BY <1>0, <1>3 DEF IType
  <2> QED BY <1>3, <2>1, <2>2, <2>3 DEF Target
<1>4. rst = 0 \/ rst > 0
  BY <1>0 DEF IType
<1> QED BY <1>2, <1>3, <1>4

\* What a handler's read comes after, and what it finds once that has been done.
Answers(call, R, before, step) ==
  step.do = "read" =>
    /\ before.do = "send" /\ ~before.word.rst
    /\ before.word.strobe \/ (call.name = "reset_fpga" /\ before.word = Zero)
    /\ Payload(before.word.cmd, R) \in step.expect

\* Every read comes after a write and expects what that word is answered with.
LEMMA CallAnswers ==
  ASSUME NEW call \in Calls, NEW r \in Regs, NEW j \in 1 .. Len(Steps(call)) - 1, ~call.rst
  PROVE  Answers(call, Partly(call, j, r), Steps(call)[j], Steps(call)[j + 1])
<1>1. PICK steps : steps = Steps(call)
  OBVIOUS
<1>2. CASE call.name \in {"set_led", "config_io"}
  <2>0. PICK d \in Data : call.args = <<d>> /\ d = call.args[1]
    BY <1>2, CallNames
  <2>9. PICK cmd \in Cmds : (call.name = "set_led" /\ cmd = "SET_LED")
                             \/ (call.name = "config_io" /\ cmd = "CONFIG_IO")
    BY <1>2 DEF Cmds
  <2>1. /\ \/ call.name = "set_led" /\ cmd = "SET_LED"
           \/ call.name = "config_io" /\ cmd = "CONFIG_IO"
        /\ call.args = <<d>> /\ d = call.args[1]
    BY <2>0, <2>9
  <2>2. call.rst = FALSE
    BY CallNames
  <2>3. /\ Len(steps) = 3 /\ steps[1] = Send(Word(FALSE, FALSE, cmd, d)) /\ steps[2] = Send(Word(FALSE, TRUE, cmd, d))
        /\ steps[3] = Read({call.args})
    BY <1>1, <2>1, <2>2, OneWordSteps
  <2>4. PICK high : high = Word(FALSE, TRUE, cmd, d)
    OBVIOUS
  <2>5. high.rst = FALSE /\ high.strobe = TRUE /\ high.cmd = cmd
    BY <2>4 DEF Word
  <2>6. /\ steps[2].do = "send" /\ steps[2].word = high /\ steps[3].do = "read" /\ steps[3].expect = {<<d>>}
    BY <2>1, <2>3, <2>4 DEF Send, Read
  <2>7. CASE j = 1
    <3>1. steps[j + 1] = steps[2]
      BY <2>7
    <3> QED BY <1>1, <2>6, <3>1 DEF Answers
  <2>8. CASE j = 2
    <3>1. steps[j + 1] = steps[3] /\ steps[j] = steps[2]
      BY <2>8
    <3>2. Partly(call, j, r) = Applied(call, r)
      BY <1>2, <2>1, <2>2, <2>8 DEF Partly
    <3>3. Payload(cmd, Applied(call, r)) = <<d>>
      <4>1. CASE cmd = "SET_LED"
        <5>1. Applied(call, r) = [r EXCEPT !.led = d]
          BY <2>1, <4>1 DEF Applied
        <5>2. [r EXCEPT !.led = d].led = d
          BY DEF Regs
        <5> QED BY <4>1, <5>1, <5>2 DEF Payload
      <4>2. CASE cmd = "CONFIG_IO"
        <5>1. Applied(call, r) = [r EXCEPT !.io = d]
          BY <2>1, <2>2, <4>2 DEF Applied
        <5>2. [r EXCEPT !.io = d].io = d
          BY DEF Regs
        <5> QED BY <4>2, <5>1, <5>2 DEF Payload
      <4> QED BY <2>1, <4>1, <4>2
    <3> QED BY <1>1, <2>5, <2>6, <3>1, <3>2, <3>3 DEF Answers
  <2> QED BY <1>1, <2>3, <2>7, <2>8
<1>3. CASE call.name = "reset_fpga"
  <2>1. /\ Len(steps) = 3 /\ steps[2] = Send(Zero) /\ steps[3] = Read({<<>>})
    BY <1>1, <1>3, ResetSteps
  <2>2. /\ steps[2].do = "send" /\ steps[2].word = Zero /\ steps[3].do = "read" /\ steps[3].expect = {<<>>}
    BY <2>1 DEF Send, Read
  <2>3. CASE j = 1
    <3>1. steps[j + 1] = steps[2]
      BY <2>3
    <3> QED BY <1>1, <2>2, <3>1 DEF Answers
  <2>4. CASE j = 2
    <3>1. steps[j + 1] = steps[3] /\ steps[j] = steps[2]
      BY <2>4
    <3>2. Payload("IDLE", Partly(call, j, r)) = <<>>
      BY DEF Payload
    <3> QED BY <1>1, <1>3, <2>2, <3>1, <3>2, ZeroType DEF Answers
  <2> QED BY <1>1, <2>1, <2>3, <2>4
<1>4. CASE call.name = "set_rot"
  <2>1. PICK c \in Data, s \in Data : c = call.args[1] /\ s = call.args[2] /\ call.args = <<c, s>>
    BY <1>4, CallNames
  <2>2. /\ Len(steps) = 8
        /\ steps[1] = Send(Word(FALSE, FALSE, "SET_COS", c)) /\ steps[2] = Send(Word(FALSE, TRUE, "SET_COS", c))
        /\ steps[3] = Send(Word(FALSE, FALSE, "SET_SIN", s)) /\ steps[4] = Send(Word(FALSE, TRUE, "SET_SIN", s))
        /\ steps[5] = Read({call.args})
        /\ steps[6] = Send(Word(FALSE, FALSE, "COMMIT_ROT_COEFFS", ResetData))
        /\ steps[7] = Send(Word(FALSE, TRUE, "COMMIT_ROT_COEFFS", ResetData))
        /\ steps[8] = Read({<<>>})
    BY <1>1, <1>4, <2>1, RotSteps
  <2>3. PICK sin, commit : /\ sin = Word(FALSE, TRUE, "SET_SIN", s)
                           /\ commit = Word(FALSE, TRUE, "COMMIT_ROT_COEFFS", ResetData)
    OBVIOUS
  <2>4. /\ sin.rst = FALSE /\ sin.strobe = TRUE /\ sin.cmd = "SET_SIN"
        /\ commit.rst = FALSE /\ commit.strobe = TRUE /\ commit.cmd = "COMMIT_ROT_COEFFS"
    BY <2>3 DEF Word
  <2>5. /\ steps[4].do = "send" /\ steps[4].word = sin /\ steps[7].do = "send" /\ steps[7].word = commit
        /\ steps[5].do = "read" /\ steps[5].expect = {<<c, s>>} /\ steps[8].do = "read" /\ steps[8].expect = {<<>>}
        /\ steps[2].do = "send" /\ steps[3].do = "send" /\ steps[6].do = "send"
    BY <2>1, <2>2, <2>3 DEF Send, Read
  <2>6. CASE j = 4
    <3>1. steps[j + 1] = steps[5] /\ steps[j] = steps[4]
      BY <2>6
    <3>2. Partly(call, j, r) = [r EXCEPT !.cos = c, !.sin = s]
      <4>1. Partly(call, j, r) = [r EXCEPT !.cos = call.args[1], !.sin = call.args[2]]
        BY <1>4, <2>6 DEF Partly
      <4> QED BY <2>1, <4>1
    <3>3. [r EXCEPT !.cos = c, !.sin = s].cos = c /\ [r EXCEPT !.cos = c, !.sin = s].sin = s
      BY DEF Regs
    <3>4. Payload("SET_SIN", Partly(call, j, r)) = <<c, s>>
      BY <3>2, <3>3 DEF Payload
    <3> QED BY <1>1, <2>4, <2>5, <3>1, <3>4 DEF Answers
  <2>7. CASE j = 7
    <3>1. steps[j + 1] = steps[8] /\ steps[j] = steps[7]
      BY <2>7
    <3>2. Payload("COMMIT_ROT_COEFFS", Partly(call, j, r)) = <<>>
      BY DEF Payload
    <3> QED BY <1>1, <2>4, <2>5, <3>1, <3>2 DEF Answers
  <2>8. CASE j \in {1, 2, 3, 5, 6}
    <3>1. /\ j = 1 => steps[j + 1] = steps[2]
          /\ j = 2 => steps[j + 1] = steps[3]
          /\ j = 3 => steps[j + 1] = steps[4]
          /\ j = 5 => steps[j + 1] = steps[6]
          /\ j = 6 => steps[j + 1] = steps[7]
      OBVIOUS
    <3>2. steps[j + 1].do = "send"
      BY <2>5, <2>8, <3>1
    <3> QED BY <1>1, <3>2 DEF Answers
  <2> QED BY <1>1, <2>2, <2>6, <2>7, <2>8
<1> QED BY <1>2, <1>3, <1>4, CallNames

\* A handler whose words do not carry the reset bit reads the answer to its own
\* command, if it waits long enough.
LEMMA EchoStep ==
  ASSUME DWELL >= 2, READ_DELAY >= 7, IInv, [Next]_vars, ok, ~asked.rst
  PROVE  ok'
<1>0. IType /\ IServer /\ IReset /\ IFollow
  BY DEF IInv, IQueue
<1>1. CASE Clk \/ ResetEdge \/ Dispatch \/ SendCmd \/ UNCHANGED vars
  BY <1>1 DEF Clk, ResetEdge, Dispatch, SendCmd, vars, server
<1>2. CASE GetCallback
  <2>1. /\ todo /= <<>> /\ Head(todo).do = "read" /\ held >= READ_DELAY
        /\ ok' = (ok /\ callback_r.payload \in Head(todo).expect)
    BY <1>2 DEF GetCallback
  <2>2. held >= 7
    BY <1>0, <2>1, PortAssumption DEF IType
  <2>3. /\ asked \in Calls /\ Rules(Steps(asked)) /\ Len(Steps(asked)) \in {3, 8}
        /\ Done \in 0 .. Len(Steps(asked)) - 1 /\ Head(todo) = Steps(asked)[Done + 1]
    BY <1>0, <2>1, Todo DEF Rules
  <2>4. PICK call \in Calls, n \in {3, 8}, j \in Nat, r \in Regs :
           call = asked /\ n = Len(Steps(asked)) /\ j = Done /\ r = shadow
    BY <1>0, <2>3 DEF IType
  <2>5. j \in 1 .. n - 1
    <3>1. j \in 0 .. n - 1
      BY <2>3, <2>4
    <3>2. j = 0 => Head(todo) = Steps(call)[1]
      BY <2>3, <2>4
    <3>3. j /= 0
      BY <2>1, <2>3, <2>4, <3>2 DEF Rules
    <3> QED BY <3>1, <3>3
  <2>6. PICK before : before = Steps(call)[j]
    OBVIOUS
  <2>7. Answers(call, Partly(call, j, r), before, Head(todo))
    <3>1. ~call.rst
      BY <2>4
    <3>2. j \in 1 .. Len(Steps(call)) - 1
      BY <2>4, <2>5
    <3>3. Answers(call, Partly(call, j, r), Steps(call)[j], Steps(call)[j + 1])
      BY <3>1, <3>2, CallAnswers
    <3> QED BY <2>3, <2>4, <2>6, <3>3
  <2>8. /\ before.do = "send" /\ ~before.word.rst
        /\ before.word.strobe \/ (call.name = "reset_fpga" /\ before.word = Zero)
        /\ Payload(before.word.cmd, Partly(call, j, r)) \in Head(todo).expect
    BY <2>1, <2>7 DEF Answers
  <2>9. bus = before.word
    <3>1. todo = <<>> => FALSE
      BY <2>1
    <3>2. Done > 0 /\ Steps(asked)[Done].do = "send" => bus = Steps(asked)[Done].word
      BY <1>0, <3>1 DEF IServer
    <3> QED BY <2>4, <2>5, <2>6, <2>8, <3>2
  <2>10. rst = 0
    BY <1>0, <2>2, <2>8, <2>9, Quiet DEF IType
  <2>11. Last = bus
    <3>1. CASE before.word.strobe
      BY <1>0, <2>8, <2>9, <3>1 DEF IFollow
    <3>2. CASE call.name = "reset_fpga" /\ before.word = Zero
      BY <1>0, <2>4, <2>5, <2>9, <3>2 DEF IFollow
    <3> QED BY <2>8, <3>1, <3>2
  <2>12. axi_from_ps_r = before.word /\ reg = Target /\ callback_r = Callback(axi_from_ps_r.cmd, reg)
    BY <2>2, <2>9, <2>10, <2>11, Quiet
  <2>13. Target = Partly(call, j, r)
    <3>1. call /= None
      BY CallNames
    <3> QED BY <1>0, <2>4, <3>1 DEF IFollow
  <2>14. callback_r.payload = Payload(before.word.cmd, Partly(call, j, r))
    BY <2>12, <2>13 DEF Callback
  <2> QED BY <2>1, <2>8, <2>14
<1> QED BY <1>1, <1>2 DEF Next

\* Every read returns the answer to the handler's own command, whatever the payloads
\* and however the bits of a word settle.
THEOREM EveryReadAnswers ==
  ASSUME DWELL >= 2, READ_DELAY >= 7
  PROVE  Spec => EchoMatches
<1>1. IInv /\ [Next]_vars => [ok /\ ~asked.rst => ok']_vars
  BY EchoStep
<1> QED BY <1>1, Invariant, PTL DEF Spec, EchoMatches

\* Between calls the registers are those the calls made, and no others.
THEOREM RegistersAreTheCalls ==
  ASSUME DWELL >= 2, READ_DELAY >= 7
  PROVE  Spec => []RegistersFollow
<1>1. IInv => RegistersFollow
  <2> SUFFICES ASSUME IInv, asked = None
               PROVE  reg = shadow
    BY DEF RegistersFollow
  <2>1. Target = shadow /\ held = READ_DELAY
    BY DEF IInv, IFollow
  <2>2. held >= 7 /\ (rst = 0 \/ rst > 0)
    BY <2>1, PortAssumption DEF IInv, IQueue, IType
  <2> QED BY <2>1, <2>2, Quiet
<1> QED BY <1>1, Invariant, PTL

====
