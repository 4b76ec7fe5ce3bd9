---- MODULE CommandQueue ----
(***************************************************************************)
(* What the command port promises to both of its ends: every word the      *)
(* processor strobes becomes the FPGA's command once, whole, and in the    *)
(* order of the strobes, unless a reset comes first.                       *)
(***************************************************************************)
EXTENDS Sequences, Naturals

CONSTANTS
  Words,       \* words that may be strobed
  ResetWord,   \* the command after reset
  DEPTH        \* words strobed and not latched yet, at most

VARIABLES
  queue,       \* words strobed and not latched yet
  cmd          \* axi_from_ps_r

Strobe(w) ==
  /\ Len(queue) < DEPTH
  /\ queue' = Append(queue, w)
  /\ UNCHANGED cmd

Latch ==
  /\ queue /= <<>>
  /\ cmd' = Head(queue)
  /\ queue' = Tail(queue)

Reset ==
  /\ queue' = <<>>
  /\ cmd' = ResetWord \/ UNCHANGED cmd

Init == queue = <<>> /\ cmd = ResetWord

Next == (\E w \in Words : Strobe(w)) \/ Latch \/ Reset

Spec == Init /\ [][Next]_<<queue, cmd>>

====
