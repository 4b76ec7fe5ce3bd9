---- MODULE Analysis ----
(***************************************************************************)
(* What the client computes from the columns of a file: the lock point of  *)
(* _autolock_bg (client/gui.py), compute_lockpoint and the metrics of      *)
(* api_control_metrics (client/pdh_api/api.py).  Operators only.           *)
(*                                                                         *)
(* Columns are sequences of integers, counted from 1.  A quotient is kept  *)
(* as numerator and denominator: [n, d] with d = 0 is what numpy gives for *)
(* a division by zero, an infinity or no number.                           *)
(***************************************************************************)
EXTENDS Integers, Sequences, SequencesExt

Abs(x) == IF x < 0 THEN -x ELSE x
Sign(x) == IF x < 0 THEN -1 ELSE IF x > 0 THEN 1 ELSE 0

\* The first of the largest, and of the smallest.
ArgMax(s) == CHOOSE i \in DOMAIN s : /\ \A j \in DOMAIN s : s[j] <= s[i]
                                     /\ \A j \in 1 .. i - 1 : s[j] < s[i]
ArgMin(s) == ArgMax([i \in DOMAIN s |-> -s[i]])

Quotient(n, d) == IF d < 0 THEN [n |-> -n, d |-> -d] ELSE [n |-> n, d |-> d]
IsNumber(r) == r.d /= 0
Steeper(r, s) == Abs(r.n) * s.d > Abs(s.n) * r.d

\* np.argmax of magnitudes: no number comes before every number.
ArgSteepest(q) ==
  CHOOSE i \in DOMAIN q :
    IF \A j \in DOMAIN q : IsNumber(q[j])
    THEN (\A j \in DOMAIN q : ~Steeper(q[j], q[i])) /\ (\A j \in 1 .. i - 1 : Steeper(q[i], q[j]))
    ELSE ~IsNumber(q[i]) /\ \A j \in 1 .. i - 1 : IsNumber(q[j])

\* np.gradient(f, x): one-sided at the ends, second order in between.
Gradient(f, x) ==
  LET last == Len(f)
      side(i, j) == Quotient(f[j] - f[i], x[j] - x[i])
      even == \A i \in 2 .. last - 1 : x[i + 1] - x[i] = x[2] - x[1]
      inner(i) ==
        LET hs == x[i] - x[i - 1]  hd == x[i + 1] - x[i]
        IN  IF even THEN Quotient(f[i + 1] - f[i - 1], 2 * hs)
            ELSE Quotient(hs * hs * (f[i + 1] - f[i]) + hd * hd * (f[i] - f[i - 1]), hs * hd * (hs + hd))
  IN  [i \in 1 .. last |-> IF i = 1 THEN side(1, 2)
                           ELSE IF i = last THEN side(last - 1, last) ELSE inner(i)]

----------------------------------------------------------------------------
(* _autolock_bg, steps 3 to 5. *)

CONSTANTS
  CALIBRATION,     \* 100: the slope the input gain brings the signal to
  EGAIN_LIMIT      \* 32: the input gain's range, [-EGAIN_LIMIT, EGAIN_LIMIT)

\* The limit is within the range of cmd_set_pid.
ASSUME AnalysisAssumption == CALIBRATION \in Nat \ {0} /\ EGAIN_LIMIT \in 1 .. 32

\* The largest of all, and the smallest within peak_pts of it.
Feature(sig, peak_pts) ==
  LET max == ArgMax(sig)
      lo == IF max - peak_pts < 1 THEN 1 ELSE max - peak_pts
      hi == IF max + peak_pts > Len(sig) THEN Len(sig) ELSE max + peak_pts
  IN  [max |-> max, min |-> lo - 1 + ArgMin(SubSeq(sig, lo, hi))]

NoLock == [found |-> FALSE, at |-> 0, slope |-> Quotient(0, 1)]

\* Mutant: the steepest point is looked for in the whole sweep.
LockPointAnywhere(sig, dac_v, peak_pts) ==
  LET deriv == Gradient(sig, dac_v)
      at == ArgSteepest(deriv)
      slope == deriv[at]
  IN  IF (IsNumber(slope) /\ slope.n = 0) \/ (IsNumber(slope) /\ CALIBRATION * slope.d >= EGAIN_LIMIT * Abs(slope.n))
      THEN NoLock ELSE [found |-> TRUE, at |-> at, slope |-> slope]

\* The steepest point between the two, if its slope can be brought to CALIBRATION
\* with an input gain in range.  A slope that is no number passes both comparisons.
LockPoint(sig, dac_v, peak_pts) ==
  LET f == Feature(sig, peak_pts)
      lo == IF f.max < f.min THEN f.max ELSE f.min
      hi == IF f.max < f.min THEN f.min ELSE f.max
      deriv == Gradient(SubSeq(sig, lo, hi), SubSeq(dac_v, lo, hi))
      at == ArgSteepest(deriv)
      slope == deriv[at]
  IN  IF \/ dac_v[f.max] = dac_v[f.min]
         \/ IsNumber(slope) /\ slope.n = 0
         \/ IsNumber(slope) /\ CALIBRATION * slope.d >= EGAIN_LIMIT * Abs(slope.n)
      THEN NoLock ELSE [found |-> TRUE, at |-> lo - 1 + at, slope |-> slope]

----------------------------------------------------------------------------
(* compute_lockpoint *)

\* The magnitude of a feed, whose squares the inputs make a square.
Magnitude(i, q) == CHOOSE m \in 0 .. Abs(i) + Abs(q) : m * m = i * i + q * q

Dot(s, t) == FoldLeftDomain(LAMBDA sum, k : sum + s[k] * t[k], 0, s)
Plus(r, s) == IF r.d = s.d THEN [n |-> r.n + s.n, d |-> r.d] ELSE [n |-> r.n * s.d + s.n * r.d, d |-> r.d * s.d]

\* Mutant: the extremes are kept in the order found.
OrientedAsFound(dac_v, G, invert_delta) == G

\* The sign of G that puts its maximum after its minimum (before, if inverted).
Oriented(dac_v, G, invert_delta) ==
  LET delta == dac_v[ArgMax(G)] - dac_v[ArgMin(G)]
  IN  IF (invert_delta /\ delta > 0) \/ (~invert_delta /\ delta < 0)
      THEN [k \in DOMAIN G |-> -G[k]] ELSE G

\* The middle of the steepest run of window intervals.
Steepest(dac_v, G, window) ==
  LET w == IF window < Len(G) - 1 THEN window ELSE Len(G) - 1
      mag == [k \in 1 .. Len(G) - 1 |-> Quotient(Abs(G[k + 1] - G[k]), Abs(dac_v[k + 1] - dac_v[k]))]
      smoothed == [k \in 1 .. Len(mag) - w + 1 |-> FoldLeft(Plus, Quotient(0, 1), SubSeq(mag, k, k + w - 1))]
  IN  ArgSteepest(smoothed) + (w \div 2)

\* The angle is given by its vector, <<dot(i_feed, G), dot(q_feed, G)>>.
compute_lockpoint(dac_v, i_feed, q_feed, sign_sel, invert_delta, window) ==
  LET basis == IF sign_sel = "I" THEN i_feed ELSE q_feed
      found == [k \in DOMAIN basis |-> Magnitude(i_feed[k], q_feed[k]) * Sign(basis[k])]
      G == Oriented(dac_v, found, invert_delta)
  IN  [G |-> G, angle |-> <<Dot(i_feed, G), Dot(q_feed, G)>>, at |-> Steepest(dac_v, G, window)]

----------------------------------------------------------------------------
(* api_control_metrics.  Means are kept as sums: a column of N rows is     *)
(* taken N times, less its sum.                                            *)

Sum(s) == FoldLeft(+, 0, s)
Centred(s) == [k \in DOMAIN s |-> Len(s) * s[k] - Sum(s)]

\* ccf_raw at a lag: sum of pid_out[t] * err[t + lag].
Correlation(pid_out, err, lag) ==
  LET po == Centred(pid_out)  er == Centred(err)
      both == {t \in DOMAIN po : t + lag \in DOMAIN er}
  IN  FoldLeftDomain(LAMBDA sum, t : IF t \in both THEN sum + po[t] * er[t + lag] ELSE sum, 0, po)

\* Mutant: err leads pid_out.
PeakLagReversed(pid_out, err) ==
  LET N == Len(err)  lags == [j \in 1 .. 2 * N - 1 |-> Correlation(pid_out, err, N - j)]
  IN  ArgMin(lags) - N

\* ccf_peak_lag in samples: the first lag of the most negative correlation.
PeakLag(pid_out, err) ==
  LET N == Len(err)  lags == [j \in 1 .. 2 * N - 1 |-> Correlation(pid_out, err, j - N)]
  IN  ArgMin(lags) - N

====
