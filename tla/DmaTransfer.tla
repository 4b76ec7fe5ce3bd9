---- MODULE DmaTransfer ----
(***************************************************************************)
(* What the DMA engine promises to the orchestrator that enables it: a     *)
(* transfer moves the frame to memory burst by burst, in order, and is     *)
(* over only when every burst has landed.  A burst that the memory refuses *)
(* is taken back and moved again before the next one.                      *)
(***************************************************************************)
EXTENDS Integers

CONSTANT BURSTS     \* bursts of a frame

VARIABLES
  busy,     \* dma_ready_o is low
  landed    \* bursts of this transfer that memory holds

Leading(n) == 0 .. n - 1

Init == ~busy /\ landed = {}

Begin ==
  /\ ~busy
  /\ busy' = TRUE
  /\ landed' = {}

Land(b) ==
  /\ busy /\ landed = Leading(b)
  /\ landed' = Leading(b + 1)
  /\ UNCHANGED busy

TakeBack(b) ==
  /\ busy /\ landed = Leading(b + 1)
  /\ landed' = Leading(b)
  /\ UNCHANGED busy

Finish ==
  /\ busy /\ landed = Leading(BURSTS)
  /\ busy' = FALSE
  /\ UNCHANGED landed

Next ==
  \/ Begin
  \/ \E b \in Leading(BURSTS) : Land(b) \/ TakeBack(b)
  \/ Finish

Spec == Init /\ [][Next]_<<busy, landed>>

====
