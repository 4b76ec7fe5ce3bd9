---- MODULE MCPidCore ----
(***************************************************************************)
(* Requests for model checking PidCore.  A run of the controller takes     *)
(* them in any order, each written over the one before.                    *)
(***************************************************************************)
EXTENDS PidCore

\* A positive loop with output gain 1.0, decimation 0, and an input gain that takes the
\* error from end to end of half its range.
Positive ==
  [kp |-> 4, kd |-> 0, ki |-> 15, dec |-> 0, sp |-> 0, alpha |-> 1, sat |-> MIN_SAT,
   en |-> 1, gain |-> One, bias |-> 1, egain |-> 2 * One]

\* Past the ends: coefficients of -1.0, the lowest bias, a shift below the least, an
\* output gain of -5.0, and an input gain of 3.5, which saturates the error.
Extreme ==
  [kp |-> -100, kd |-> 10, ki |-> -100, dec |-> 1, sp |-> 1, alpha |-> 0, sat |-> 0,
   en |-> 1, gain |-> -5 * One, bias |-> -100, egain |-> 7]

\* An enable that is not 0 or 1, with a slower update: the controller goes off.
BadEnable == [Positive EXCEPT !.en = 2, !.dec = 3]

MCSamples == {-4, 3}
MCRequests == {Positive, Extreme, BadEnable}

\* A loop with a negative output gain, integral only.
Negative ==
  [kp |-> 0, kd |-> 0, ki |-> 15, dec |-> 1, sp |-> 0, alpha |-> 0, sat |-> MIN_SAT,
   en |-> 1, gain |-> -One, bias |-> 0, egain |-> One]
MCNegative == {Negative}

====
