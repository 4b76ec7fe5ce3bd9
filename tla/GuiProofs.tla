---- MODULE GuiProofs ----
(***************************************************************************)
(* Proofs about Gui for any hosts, buttons, slots and bounds: the calls    *)
(* each button may have under way, the one relock of the persistent        *)
(* autolock, and the lock that a thread no other came between reports.     *)
(***************************************************************************)
EXTENDS Gui, FiniteSetTheorems, TLAPS

----------------------------------------------------------------------------
(* The inductive invariant. *)

\* A slot is free or holds the thread of a button.
ThreadOK(t) ==
  /\ "at" \in DOMAIN t
  /\ t.at = "free" \/ ("button" \in DOMAIN t /\ t.button \in Buttons \cup {"persist"})
IThread == DOMAIN thread = Slots /\ \A s \in Slots : ThreadOK(thread[s])

\* The event loop has one callback for each thread that has posted its own.
IEvents ==
  /\ events \in Seq(Slots)
  /\ \A i \in DOMAIN events : thread[events[i]].at = "posted"
  /\ \A i, j \in DOMAIN events : events[i] = events[j] => i = j

IInv == IThread /\ IEvents /\ resets \in Nat /\ CallsPerButton /\ OnePersist

----------------------------------------------------------------------------
(* Threads that go on. *)

\* What a thread may become while it is under way.
Follows(r, t) == ThreadOK(r) /\ r.at /= "free" /\ r.button = t.button

\* A thread goes on when its place changes,
LEMMA SetAt ==
  ASSUME NEW t, ThreadOK(t), t.at /= "free", NEW v, v /= "free"
  PROVE  Follows([t EXCEPT !.at = v], t)
  BY Zenon DEF ThreadOK, Follows

\* with its result,
LEMMA SetAtOk ==
  ASSUME NEW t, ThreadOK(t), t.at /= "free", NEW v, v /= "free", NEW w
  PROVE  Follows([t EXCEPT !.at = v, !.ok = w], t)
  BY Zenon DEF ThreadOK, Follows

\* its arguments,
LEMMA SetAtArgs ==
  ASSUME NEW t, ThreadOK(t), t.at /= "free", NEW v, v /= "free", NEW w
  PROVE  Follows([t EXCEPT !.at = v, !.args = w], t)
  BY Zenon DEF ThreadOK, Follows

\* or its file and arguments.
LEMMA SetAtFileArgs ==
  ASSUME NEW t, ThreadOK(t), t.at /= "free", NEW v, v /= "free", NEW f, NEW w
  PROVE  Follows([t EXCEPT !.at = v, !.file = f, !.args = w], t)
  BY Zenon DEF ThreadOK, Follows

\* A thread goes on with an answer, and with an exception.
LEMMA AnswerFollows ==
  ASSUME NEW t, ThreadOK(t), t.at /= "free"
  PROVE  Follows(Answered(t), t) /\ Follows(Raised(t), t)
<1>1. Follows(Raised(t), t)
  BY SetAtOk DEF Raised
<1>2. \A v : v /= "free" => Follows([t EXCEPT !.at = v], t)
  BY SetAt
<1>3. \A w : Follows([t EXCEPT !.at = "set", !.args = w], t)
  BY SetAtArgs
<1> QED BY <1>1, <1>2, <1>3 DEF Answered

\* A thread that goes on leaves every button the calls it has.
LEMMA Goes ==
  ASSUME IThread, NEW s \in Slots, thread[s].at /= "free",
         NEW t, Follows(t, thread[s]), thread' = [thread EXCEPT ![s] = t]
  PROVE  /\ IThread'
         /\ \A b : InFlight(b)' = InFlight(b)
         /\ \A u \in Slots \ {s} : thread'[u] = thread[u]
<1>1. DOMAIN thread' = Slots /\ thread'[s] = t /\ \A u \in Slots \ {s} : thread'[u] = thread[u]
  BY DEF IThread
<1>2. IThread'
  BY <1>1 DEF IThread, Follows
<1>3. ASSUME NEW b PROVE InFlight(b)' = InFlight(b)
  BY <1>1 DEF InFlight, Follows
<1> QED BY <1>1, <1>2, <1>3

\* One that has not posted its callback leaves the event loop as it is, too.
LEMMA GoesOn ==
  ASSUME IThread, IEvents, NEW s \in Slots, thread[s].at \notin {"free", "posted"},
         NEW t, Follows(t, thread[s]), thread' = [thread EXCEPT ![s] = t], events' = events
  PROVE  IThread' /\ IEvents' /\ \A b : InFlight(b)' = InFlight(b)
<1>1. IThread' /\ (\A b : InFlight(b)' = InFlight(b)) /\ \A u \in Slots \ {s} : thread'[u] = thread[u]
  BY Goes
<1>2. \A i \in DOMAIN events : events[i] \in Slots /\ events[i] /= s
  BY DEF IEvents
<1> QED BY <1>1, <1>2 DEF IEvents

\* A thread that begins is one more for its button and none for the others.
LEMMA Begins ==
  ASSUME IThread, IEvents, NEW s \in Slots, thread[s].at = "free",
         NEW b \in Buttons \cup {"persist"}, Begin(s, b), events' = events
  PROVE  /\ IThread' /\ IEvents'
         /\ s \notin InFlight(b) /\ InFlight(b)' = InFlight(b) \cup {s}
         /\ \A c : c /= b => InFlight(c)' = InFlight(c)
<1> DEFINE t == [at |-> IF b \in {"autolock", "persist"} THEN "sweep" ELSE "call", button |-> b, args |-> Args(b),
                  file |-> Nobody, ok |-> TRUE, host |-> field.host, since |-> edits]
<1>a. thread' = [thread EXCEPT ![s] = t]
  BY Zenon DEF Begin
<1>b. t.at /= "free" /\ t.button = b /\ "at" \in DOMAIN t /\ "button" \in DOMAIN t
  OBVIOUS
<1> HIDE DEF t
<1>1. /\ thread' = [thread EXCEPT ![s] = t]
      /\ ThreadOK(t) /\ t.at /= "free" /\ t.button = b
  BY <1>a, <1>b DEF ThreadOK
<1>2. DOMAIN thread' = Slots /\ thread'[s] = t /\ \A u \in Slots \ {s} : thread'[u] = thread[u]
  BY <1>1 DEF IThread
<1>3. IThread'
  BY <1>1, <1>2 DEF IThread
<1>4. \A i \in DOMAIN events : events[i] \in Slots /\ events[i] /= s
  BY DEF IEvents
<1>5. IEvents'
  BY <1>2, <1>4 DEF IEvents
<1>6. s \notin InFlight(b) /\ InFlight(b)' = InFlight(b) \cup {s}
  BY <1>1, <1>2 DEF InFlight
<1>7. ASSUME NEW c, c /= b PROVE InFlight(c)' = InFlight(c)
  BY <1>1, <1>2, <1>7 DEF InFlight
<1> QED BY <1>3, <1>5, <1>6, <1>7

\* The calls of a button can be counted.
LEMMA Counted ==
  ASSUME NEW b
  PROVE  IsFiniteSet(InFlight(b)) /\ Cardinality(InFlight(b)) \in Nat
<1>1. IsFiniteSet(Slots) /\ InFlight(b) \in SUBSET Slots
  BY GuiAssumption DEF InFlight
<1> QED BY <1>1, FS_Subset, FS_CardinalityType

\* The part of a step that has no thread begin or end.
LEMMA Stays ==
  ASSUME IInv, IThread', IEvents', \A b : InFlight(b)' = InFlight(b),
         busy' = busy, pbusy' = pbusy, resets' = resets
  PROVE  IInv'
BY DEF IInv, CallsPerButton, OnePersist

----------------------------------------------------------------------------
(* One lemma for each kind of step. *)

\* A click begins a call of a button that had none.
LEMMA ClickKeeps ==
  ASSUME IInv, NEW b \in Buttons, Click(b)
  PROVE  IInv'
<1>1. PICK s \in Free(Clicked) : Begin(s, b)
  BY DEF Click
<1>2. s \in Slots /\ thread[s].at = "free"
  BY <1>1 DEF Free, Slots
<1>3. b /= "persist"
  BY GuiAssumption
<1>4. events' = events /\ pbusy' = pbusy /\ resets' = resets /\ busy' = busy \cup {b} /\ b \notin busy
  BY DEF Click, persist, bounds
<1>5. /\ IThread' /\ IEvents'
      /\ s \notin InFlight(b) /\ InFlight(b)' = InFlight(b) \cup {s}
      /\ \A c : c /= b => InFlight(c)' = InFlight(c)
  BY <1>1, <1>2, <1>4, Begins DEF IInv
<1>6. Cardinality(InFlight(b)') = Cardinality(InFlight(b)) + 1
  BY <1>5, Counted, FS_AddElement
<1>7. OnePersist'
  BY <1>3, <1>4, <1>5 DEF IInv, OnePersist
<1>8. ASSUME NEW c \in Buttons
      PROVE  (Cardinality(InFlight(c)) + (IF c \in busy THEN 0 ELSE 1) <= 1 + resets)'
  <2>1. CASE c = b
    BY <2>1, <1>4, <1>6, Counted DEF IInv, CallsPerButton
  <2>2. CASE c /= b
    BY <2>2, <1>4, <1>5 DEF IInv, CallsPerButton
  <2> QED BY <2>1, <2>2
<1>9. CallsPerButton'
  BY <1>8 DEF CallsPerButton
<1> QED BY <1>4, <1>5, <1>7, <1>9 DEF IInv

\* The flag is tested before a relock begins.
LEMMA RelockKeeps ==
  ASSUME IInv, ~pbusy, NEW old, NEW others, Relock(old, others),
         events' = events, busy' = busy, resets' = resets
  PROVE  IInv'
<1>1. PICK s \in Free(Timed) : Begin(s, "persist")
  BY DEF Relock
<1>2. s \in Slots /\ thread[s].at = "free" /\ pbusy'
  BY <1>1 DEF Free, Slots, Relock
<1>3. /\ IThread' /\ IEvents'
      /\ s \notin InFlight("persist") /\ InFlight("persist")' = InFlight("persist") \cup {s}
      /\ \A c : c /= "persist" => InFlight(c)' = InFlight(c)
  BY <1>1, <1>2, Begins DEF IInv
<1>4. Cardinality(InFlight("persist")') = Cardinality(InFlight("persist")) + 1
  BY <1>3, Counted, FS_AddElement
<1>5. OnePersist'
  BY <1>2, <1>4, Counted DEF IInv, OnePersist
<1>6. \A b \in Buttons : b /= "persist"
  BY GuiAssumption
<1>7. CallsPerButton'
  BY <1>3, <1>6 DEF IInv, CallsPerButton
<1> QED BY <1>3, <1>5, <1>7 DEF IInv

\* Where no thread is touched, only the flags matter.
LEMMA ThreadsStay ==
  ASSUME IInv, thread' = thread, events' = events
  PROVE  IThread' /\ IEvents' /\ \A b : InFlight(b)' = InFlight(b)
BY DEF IInv, IThread, IEvents, InFlight, ThreadOK

\* A tick begins a relock when none is under way, or begins nothing.
LEMMA TickKeeps ==
  ASSUME IInv, NEW old, NEW others, _persist_tick(old, others),
         events' = events, busy' = busy, resets' = resets
  PROVE  IInv'
<1>1. CASE thread' = thread /\ pbusy' = pbusy
  BY <1>1, ThreadsStay, Stays
<1>2. CASE ~pbusy /\ Relock(old, others)
  BY <1>2, RelockKeeps
<1> QED BY <1>1, <1>2 DEF _persist_tick

\* So does the start of the panel.
LEMMA StartKeeps ==
  ASSUME IInv, Start
  PROVE  IInv'
<1>1. events' = events /\ busy' = busy /\ resets' = resets
  BY DEF Start, bounds
<1>2. CASE thread' = thread /\ pbusy' = pbusy
  BY <1>1, <1>2, ThreadsStay, Stays
<1>3. CASE ~pbusy /\ Relock(timer, orphans)
  BY <1>1, <1>3, RelockKeeps
<1> QED BY <1>2, <1>3 DEF Start

\* A press of Reset Connection enables every button, and is counted.
LEMMA ResetKeeps ==
  ASSUME IInv, _on_reset_connection
  PROVE  IInv'
<1>1. thread' = thread /\ events' = events /\ pbusy' = pbusy /\ resets' = resets + 1 /\ busy' = {}
  BY DEF _on_reset_connection, persist
<1>2. IThread' /\ IEvents' /\ \A b : InFlight(b)' = InFlight(b)
  BY <1>1, ThreadsStay
<1>3. ASSUME NEW b \in Buttons
      PROVE  (Cardinality(InFlight(b)) + (IF b \in busy THEN 0 ELSE 1) <= 1 + resets)'
  <2>1. Cardinality(InFlight(b)) \in Nat /\ resets \in Nat
        /\ Cardinality(InFlight(b)) + (IF b \in busy THEN 0 ELSE 1) <= 1 + resets
    BY Counted DEF IInv, CallsPerButton
  <2> QED BY <1>1, <1>2, <2>1
<1>4. CallsPerButton'
  BY <1>3 DEF CallsPerButton
<1> QED BY <1>1, <1>2, <1>4 DEF IInv, OnePersist

\* Commands and file transfers: the thread goes on.
LEMMA ThreadGoes ==
  ASSUME IInv, NEW s \in Slots, execute_cmd(s) \/ Fetch(s) \/ Hang(s)
  PROVE  /\ thread[s].at \notin {"free", "posted"}
         /\ \E t : Follows(t, thread[s]) /\ thread' = [thread EXCEPT ![s] = t]
<1>0. thread[s].at \notin {"free", "posted"} /\ ThreadOK(thread[s])
  BY DEF execute_cmd, Fetch, Hang, IInv, IThread
<1>1. CASE execute_cmd(s)
  <2>1. thread' = [thread EXCEPT ![s] = Answered(thread[s])] \/ thread' = [thread EXCEPT ![s] = Raised(thread[s])]
    BY <1>1 DEF execute_cmd
  <2> QED BY <2>1, <1>0, AnswerFollows
<1>2. CASE Fetch(s)
  <2>1. CASE thread' = [thread EXCEPT ![s].at = "post"]
    BY <2>1, <1>0, SetAt, Zenon
  <2>2. CASE thread' = [thread EXCEPT ![s] = Raised(thread[s])]
    BY <2>2, <1>0, AnswerFollows
  <2>3. CASE \E f, w : thread' = [thread EXCEPT ![s].at = "route", ![s].file = f, ![s].args = w]
    <3>1. PICK f, w : thread' = [thread EXCEPT ![s].at = "route", ![s].file = f, ![s].args = w]
      BY <2>3
    <3>2. thread' = [thread EXCEPT ![s] = [thread[s] EXCEPT !.at = "route", !.file = f, !.args = w]]
      BY <3>1, <1>0 DEF IInv, IThread
    <3> QED BY <3>2, <1>0, SetAtFileArgs
  <2> QED BY <1>2, <2>1, <2>2, <2>3, Zenon DEF Fetch
<1>3. CASE Hang(s)
  <2>1. thread' = [thread EXCEPT ![s].at = "hung"]
    BY <1>3 DEF Hang
  <2> QED BY <2>1, <1>0, SetAt, Zenon
<1> QED BY <1>1, <1>2, <1>3, <1>0

\* They leave every button the calls it has.
LEMMA ThreadKeeps ==
  ASSUME IInv, NEW s \in Slots, execute_cmd(s) \/ Fetch(s) \/ Hang(s)
  PROVE  IInv'
<1>1. events' = events /\ busy' = busy /\ pbusy' = pbusy /\ resets' = resets
  BY DEF execute_cmd, Fetch, Hang, persist, bounds
<1>2. PICK t : Follows(t, thread[s]) /\ thread' = [thread EXCEPT ![s] = t]
  BY ThreadGoes
<1>3. IThread' /\ IEvents' /\ \A b : InFlight(b)' = InFlight(b)
  BY <1>1, <1>2, ThreadGoes, GoesOn DEF IInv
<1> QED BY <1>1, <1>3, Stays

\* A thread that posts its callback has it in the queue once.
LEMMA PostKeeps ==
  ASSUME IInv, NEW s \in Slots, Post(s)
  PROVE  IInv'
<1>1. /\ events' = Append(events, s) /\ busy' = busy /\ pbusy' = pbusy /\ resets' = resets
      /\ thread[s].at = "post" /\ ThreadOK(thread[s])
  BY DEF Post, persist, bounds, IInv, IThread
<1> DEFINE t == [thread[s] EXCEPT !.at = "posted"]
<1>2. Follows(t, thread[s])
  BY <1>1, SetAt
<1>3. thread' = [thread EXCEPT ![s] = t]
  BY Zenon DEF Post
<1>4. t.at = "posted"
  BY <1>1, Zenon DEF ThreadOK
<1> HIDE DEF t
<1>5. IThread' /\ (\A b : InFlight(b)' = InFlight(b)) /\ \A u \in Slots \ {s} : thread'[u] = thread[u]
  BY <1>1, <1>2, <1>3, Goes DEF IInv
<1>6. thread'[s].at = "posted"
  BY <1>3, <1>4 DEF IInv, IThread
<1>7. \A i \in DOMAIN events : events[i] \in Slots /\ events[i] /= s
  BY <1>1 DEF IInv, IEvents
<1>8. IEvents'
  <2>1. events' \in Seq(Slots) /\ DOMAIN events = 1..Len(events) /\ Len(events) \in Nat
        /\ DOMAIN events' = 1..(Len(events) + 1)
        /\ events'[Len(events) + 1] = s /\ \A i \in DOMAIN events : events'[i] = events[i]
    BY <1>1 DEF IInv, IEvents
  <2>2. \A i \in DOMAIN events' : thread'[events'[i]].at = "posted"
    BY <2>1, <1>5, <1>6, <1>7 DEF IInv, IEvents
  <2>3. \A i, j \in DOMAIN events' : events'[i] = events'[j] => i = j
    BY <2>1, <1>7 DEF IInv, IEvents
  <2> QED BY <2>1, <2>2, <2>3 DEF IEvents
<1> QED BY <1>1, <1>5, <1>8, Stays

\* A callback ends one thread, whose button it enables.
LEMMA CallbackKeeps ==
  ASSUME IInv, Callback
  PROVE  IInv'
<1> PICK s : s = Head(events)
  OBVIOUS
<1> PICK b : b = thread[s].button
  OBVIOUS
<1>1. /\ events /= <<>> /\ events' = Tail(events) /\ thread' = [thread EXCEPT ![s] = Idle]
      /\ busy' = busy \ {b} /\ resets' = resets
      /\ pbusy' = IF b = "persist" THEN FALSE ELSE pbusy
  BY DEF Callback, _unbusy, bounds, persist
<1>2. /\ DOMAIN events = 1..Len(events) /\ Len(events) \in Nat \ {0} /\ s = events[1] /\ s \in Slots
      /\ events' \in Seq(Slots) /\ DOMAIN events' = 1..(Len(events) - 1)
      /\ \A i \in DOMAIN events' : events'[i] = events[i + 1]
  BY <1>1 DEF IInv, IEvents
<1>3. thread[s].at = "posted" /\ b \in Buttons \cup {"persist"}
  BY <1>2 DEF IInv, IEvents, IThread, ThreadOK
<1>4. DOMAIN thread' = Slots /\ thread'[s] = Idle /\ \A u \in Slots \ {s} : thread'[u] = thread[u]
  BY <1>1, <1>2 DEF IInv, IThread
<1>5. Idle.at = "free" /\ "at" \in DOMAIN Idle
  BY DEF Idle
<1>6. IThread'
  BY <1>4, <1>5 DEF IInv, IThread, ThreadOK
<1>7. IEvents'
  <2>1. ASSUME NEW i \in DOMAIN events'
        PROVE  i + 1 \in DOMAIN events /\ events'[i] = events[i + 1] /\ events'[i] /= s
    BY <1>2 DEF IInv, IEvents
  <2>2. \A i \in DOMAIN events' : thread'[events'[i]].at = "posted"
    BY <2>1, <1>2, <1>4 DEF IInv, IEvents
  <2>3. \A i, j \in DOMAIN events' : events'[i] = events'[j] => i = j
    BY <2>1, <1>2 DEF IInv, IEvents
  <2> QED BY <1>2, <2>2, <2>3 DEF IEvents
<1>8. s \in InFlight(b) /\ InFlight(b)' = InFlight(b) \ {s}
  BY <1>2, <1>3, <1>4, <1>5 DEF InFlight
<1>9. \A c : c /= b => InFlight(c)' = InFlight(c)
  BY <1>2, <1>4, <1>5 DEF InFlight
<1>10. Cardinality(InFlight(b)') = Cardinality(InFlight(b)) - 1
  BY <1>8, Counted, FS_RemoveElement
<1>11. OnePersist'
  <2>1. CASE b = "persist"
    <3>1. Cardinality(InFlight("persist")) /= 0
      BY <1>8, <2>1, Counted, FS_EmptySet
    <3>2. pbusy /\ ~pbusy' /\ Cardinality(InFlight("persist")) = 1
      BY <2>1, <3>1, <1>1 DEF IInv, OnePersist
    <3>3. Cardinality(InFlight("persist")') = 0
      BY <2>1, <3>2, <1>10
    <3> QED BY <3>2, <3>3 DEF OnePersist
  <2>2. CASE b /= "persist"
    BY <2>2, <1>1, <1>9 DEF IInv, OnePersist
  <2> QED BY <2>1, <2>2
<1>12. ASSUME NEW c \in Buttons
       PROVE  (Cardinality(InFlight(c)) + (IF c \in busy THEN 0 ELSE 1) <= 1 + resets)'
  <2>1. Cardinality(InFlight(c)) \in Nat /\ resets \in Nat
        /\ Cardinality(InFlight(c)) + (IF c \in busy THEN 0 ELSE 1) <= 1 + resets
    BY Counted DEF IInv, CallsPerButton
  <2>2. CASE c = b
    BY <2>1, <2>2, <1>1, <1>10
  <2>3. CASE c /= b
    BY <2>1, <2>3, <1>1, <1>9
  <2> QED BY <2>2, <2>3
<1>13. CallsPerButton'
  BY <1>12 DEF CallsPerButton
<1> QED BY <1>1, <1>6, <1>7, <1>11, <1>13 DEF IInv

----------------------------------------------------------------------------
(* The theorems. *)

\* The invariant holds before the first click.
LEMMA InitInv == Init => IInv
<1> SUFFICES ASSUME Init PROVE IInv
  OBVIOUS
<1>1. /\ thread = [s \in Slots |-> Idle] /\ events = <<>> /\ busy = {} /\ pbusy = FALSE /\ resets = 0
  BY DEF Init
<1>2. Idle.at = "free" /\ "at" \in DOMAIN Idle
  BY DEF Idle
<1>3. IThread
  BY <1>1, <1>2 DEF IThread, ThreadOK
<1>4. IEvents
  BY <1>1 DEF IEvents
<1>5. \A b : InFlight(b) = {}
  BY <1>1, <1>2 DEF InFlight
<1>6. \A b : Cardinality(InFlight(b)) = 0
  BY <1>5, FS_EmptySet
<1> QED BY <1>1, <1>3, <1>4, <1>6 DEF IInv, CallsPerButton, OnePersist

\* Every step keeps the invariant.
LEMMA NextInv == IInv /\ [Next]_vars => IInv'
<1> SUFFICES ASSUME IInv, [Next]_vars PROVE IInv'
  OBVIOUS
<1>1. ASSUME NEW b \in Buttons, Click(b) PROVE IInv'
  BY <1>1, ClickKeeps
<1>2. CASE Edit
  <2>1. thread' = thread /\ events' = events /\ busy' = busy /\ pbusy' = pbusy /\ resets' = resets
    BY <1>2 DEF Edit, persist
  <2> QED BY <2>1, ThreadsStay, Stays
<1>3. CASE Stop
  <2>1. thread' = thread /\ events' = events /\ busy' = busy /\ pbusy' = pbusy /\ resets' = resets
    BY <1>3 DEF Stop, bounds
  <2> QED BY <2>1, ThreadsStay, Stays
<1>4. CASE Fires
  <2>1. events' = events /\ busy' = busy /\ resets' = resets /\ _persist_tick("fired", orphans)
    BY <1>4 DEF Fires, bounds
  <2> QED BY <2>1, TickKeeps
<1>5. CASE OrphanFires
  <2>1. events' = events /\ busy' = busy /\ resets' = resets /\ _persist_tick(timer, orphans - 1)
    BY <1>5 DEF OrphanFires, bounds
  <2> QED BY <2>1, TickKeeps
<1>6. ASSUME NEW s \in Slots, execute_cmd(s) \/ Fetch(s) \/ Hang(s) PROVE IInv'
  BY <1>6, ThreadKeeps
<1>7. ASSUME NEW s \in Slots, Post(s) PROVE IInv'
  BY <1>7, PostKeeps
<1>8. CASE UNCHANGED vars
  <2>1. thread' = thread /\ events' = events /\ busy' = busy /\ pbusy' = pbusy /\ resets' = resets
    BY <1>8 DEF vars, persist, bounds
  <2> QED BY <2>1, ThreadsStay, Stays
<1> QED
  BY <1>1, <1>2, <1>3, <1>4, <1>5, <1>6, <1>7, <1>8, StartKeeps, ResetKeeps, CallbackKeeps DEF Next

\* The persistent autolock has at most one relock under way and knows whether it has,
\* for any number of timers left over and any bounds (_persist_tick, _on_persist_toggle).
THEOREM OnlyOne == Spec => []OnePersist
<1>1. IInv => OnePersist
  BY DEF IInv
<1> QED BY <1>1, InitInv, NextInv, PTL DEF Spec

\* A button has one call under way and one more for every press of Reset Connection,
\* for any number of presses and threads (_busy, _unbusy, unlock_all).
THEOREM Bounded == Spec => []CallsPerButton
<1>1. IInv => CallsPerButton
  BY DEF IInv
<1> QED BY <1>1, InitInv, NextInv, PTL DEF Spec

----------------------------------------------------------------------------
(* The inductive invariant of a lock. *)

\* The panels and the devices hold records of these fields.
Routing(r) == r = [dac1 |-> r.dac1, dac2 |-> r.dac2, pid_sel |-> r.pid_sel]
Settings(p) == p = [gains |-> p.gains, point |-> p.point, en |-> p.en]
Device(d) == d = [io |-> d.io, pid |-> d.pid]
Panels(f) ==
  /\ f = [host |-> f.host, chan |-> f.chan, valid |-> f.valid, io |-> f.io, pid |-> f.pid]
  /\ f.host \in Hosts /\ Routing(f.io) /\ Settings(f.pid)

IPanels == Panels(field) /\ edits \in Nat

IDevices ==
  /\ server \in Hosts
  /\ DOMAIN dev = Hosts /\ DOMAIN log = Hosts
  /\ \A h \in Hosts : Device(dev[h])

\* A thread under way: the steps of a lock are its own, and it began before the last edit
\* or after it.
Shape(t) ==
  /\ t = [at |-> t.at, button |-> t.button, args |-> t.args, file |-> t.file, ok |-> t.ok, host |-> t.host, since |-> t.since]
  /\ t.host \in Hosts /\ t.since \in Nat /\ t.since <= edits
  /\ IF t.button \in {"autolock", "persist"} THEN t.at /= "call" ELSE t.at \notin {"sweep", "route", "set"}

IShape == \A s \in Slots : thread[s].at /= "free" => Shape(thread[s])

\* A thread no other has come between finds the address it was started for, and beside it
\* only threads that change nothing.
IAlone ==
  /\ alone \in [Slots -> BOOLEAN]
  /\ \A s \in Slots : thread[s].at /= "free" /\ alone[s] =>
       /\ thread[s].host = server
       /\ \A u \in Slots \ {s} : thread[u].at /= "free" => ~Disturbs(thread[u].button)

\* What the device holds of settings: their limited gains, the rest as sent.
LEMMA HeldIs ==
  ASSUME NEW a, NEW gains, NEW point, NEW en, a = [gains |-> gains, point |-> point, en |-> en]
  PROVE  Held(a) = [gains |-> Clamped(gains), point |-> point, en |-> en]
<1>1. PICK c : c = Clamped(a.gains)
  OBVIOUS
<1>2. Held(a) = [a EXCEPT !.gains = c]
  BY <1>1, Zenon DEF Held
<1>3. [a EXCEPT !.gains = c] = [gains |-> c, point |-> point, en |-> en]
  OBVIOUS
<1>4. a.gains = gains
  OBVIOUS
<1>5. c = Clamped(gains)
  BY <1>1, <1>4, Zenon
<1> QED BY <1>2, <1>3, <1>5, Zenon

\* The routing and the settings of the lock of thread t, sent and held; what it leaves to
\* the panels is as they show it, or its end, unless a field has been changed since.
RoutingOf(t, r) ==
  /\ r = [dac1 |-> "PID", dac2 |-> r.dac2, pid_sel |-> t.args.chan]
  /\ t.since = edits => r.dac2 = field.io.dac2
SettingsOf(t, p) ==
  /\ p = [gains |-> p.gains, point |-> [sweep |-> t.file, chan |-> t.args.chan], en |-> TRUE]
  /\ t.since = edits => p.gains = field.pid.gains
HeldOf(t, p) ==
  /\ p = [gains |-> p.gains, point |-> [sweep |-> t.file, chan |-> t.args.chan], en |-> TRUE]
  /\ t.since = edits => p.gains = Clamped(field.pid.gains)

\* How far the lock of slot s has come: its sweep is the last of the device, its file is
\* of that sweep, the device is routed, the device is set.
Stage(s) ==
  LET t == thread[s]  d == dev[t.host]
  IN  /\ t.at = "fetch" => log[t.host] = s
      /\ t.at = "route" => t.file = s /\ RoutingOf(t, t.args.io)
      /\ t.at = "set"   => t.file = s /\ RoutingOf(t, d.io) /\ SettingsOf(t, t.args.pid)
      /\ t.at \in {"post", "posted"} /\ t.ok => t.file = s /\ RoutingOf(t, d.io) /\ HeldOf(t, d.pid)

IStages == \A s \in Slots : IsLock(s) /\ alone[s] => Stage(s)

ILock == IInv /\ IPanels /\ IDevices /\ IShape /\ IAlone /\ IStages

----------------------------------------------------------------------------
(* Records that go on. *)

\* A thread that goes on keeps its button and the address it was started for.
Kept(r, t) ==
  /\ r.at /= "free" /\ r.button = t.button /\ r.host = t.host /\ r.since = t.since
  /\ Shape(r)

\* Its place may change within the steps of its button,
LEMMA KeptAt ==
  ASSUME NEW t, Shape(t), NEW v, v \notin {"free", "call", "sweep", "route", "set"}
  PROVE  /\ Kept([t EXCEPT !.at = v], t)
         /\ [t EXCEPT !.at = v].at = v /\ [t EXCEPT !.at = v].args = t.args
         /\ [t EXCEPT !.at = v].file = t.file /\ [t EXCEPT !.at = v].ok = t.ok
<1> DEFINE r == [at |-> v, button |-> t.button, args |-> t.args, file |-> t.file, ok |-> t.ok, host |-> t.host, since |-> t.since]
<1>1. [t EXCEPT !.at = v] = r
  BY DEF Shape
<1>2. Kept(r, t)
  BY DEF Shape, Kept
<1> QED BY <1>1, <1>2

\* it may fail,
LEMMA KeptRaised ==
  ASSUME NEW t, Shape(t)
  PROVE  Kept(Raised(t), t) /\ Raised(t).at = "post" /\ Raised(t).ok = FALSE
<1> DEFINE r == [at |-> "post", button |-> t.button, args |-> t.args, file |-> t.file, ok |-> FALSE, host |-> t.host, since |-> t.since]
<1>0. PICK q : q = [t EXCEPT !.at = "post"]
  OBVIOUS
<1>a. q = [at |-> "post", button |-> t.button, args |-> t.args, file |-> t.file, ok |-> t.ok, host |-> t.host, since |-> t.since]
  BY <1>0 DEF Shape
<1>b. Raised(t) = [q EXCEPT !.ok = FALSE]
  BY <1>0, Zenon DEF Raised
<1>1. Raised(t) = r
  BY <1>a, <1>b
<1>2. Kept(r, t)
  BY DEF Shape, Kept
<1> QED BY <1>1, <1>2

\* a lock whose device is routed has its settings to send,
ToSet(t, w) == [t EXCEPT !.at = "set", !.args = w]
LEMMA KeptSet ==
  ASSUME NEW t, Shape(t), t.button \in {"autolock", "persist"}, NEW w
  PROVE  /\ Kept(ToSet(t, w), t) /\ ToSet(t, w).at = "set"
         /\ ToSet(t, w).args = w /\ ToSet(t, w).file = t.file
<1>1. PICK q : q = [t EXCEPT !.at = "set"]
  OBVIOUS
<1>2. q = [at |-> "set", button |-> t.button, args |-> t.args, file |-> t.file, ok |-> t.ok, host |-> t.host, since |-> t.since]
  BY <1>1 DEF Shape
<1>3. ToSet(t, w) = [q EXCEPT !.args = w]
  BY <1>1, Zenon DEF ToSet
<1>4. ToSet(t, w) = [at |-> "set", button |-> t.button, args |-> w, file |-> t.file, ok |-> t.ok, host |-> t.host, since |-> t.since]
  BY <1>2, <1>3
<1> QED BY <1>4 DEF Shape, Kept

\* and one that has its file has a routing to send.
ToRoute(t, f, w) == [t EXCEPT !.at = "route", !.file = f, !.args = w]
LEMMA KeptRoute ==
  ASSUME NEW t, Shape(t), t.button \in {"autolock", "persist"}, NEW f, NEW w
  PROVE  /\ Kept(ToRoute(t, f, w), t) /\ ToRoute(t, f, w).at = "route"
         /\ ToRoute(t, f, w).args = w /\ ToRoute(t, f, w).file = f
<1>1. PICK q : q = [t EXCEPT !.at = "route"]
  OBVIOUS
<1>2. q = [at |-> "route", button |-> t.button, args |-> t.args, file |-> t.file, ok |-> t.ok, host |-> t.host, since |-> t.since]
  BY <1>1 DEF Shape
<1>3. PICK p : p = [q EXCEPT !.file = f]
  OBVIOUS
<1>4. p = [at |-> "route", button |-> t.button, args |-> t.args, file |-> f, ok |-> t.ok, host |-> t.host, since |-> t.since]
  BY <1>2, <1>3
<1>5. ToRoute(t, f, w) = [p EXCEPT !.args = w]
  BY <1>1, <1>3, Zenon DEF ToRoute
<1>6. ToRoute(t, f, w) = [at |-> "route", button |-> t.button, args |-> w, file |-> f, ok |-> t.ok, host |-> t.host, since |-> t.since]
  BY <1>4, <1>5
<1> QED BY <1>6 DEF Shape, Kept

\* The lock of a slot is where it was when its thread, its device and its fields are as
\* they were, or when they have been edited.
LEMMA StageStays ==
  ASSUME NEW s \in Slots, Stage(s), thread'[s] = thread[s],
         dev'[thread[s].host] = dev[thread[s].host],
         log[thread[s].host] = s => log'[thread[s].host] = s,
         thread[s].since = edits' =>
           thread[s].since = edits /\ field'.io.dac2 = field.io.dac2 /\ field'.pid.gains = field.pid.gains
  PROVE  Stage(s)'
<1> DEFINE t == thread[s]
<1>1. ASSUME NEW r, RoutingOf(t, r) PROVE RoutingOf(t, r)'
  BY <1>1 DEF RoutingOf
<1>2. ASSUME NEW p, SettingsOf(t, p) PROVE SettingsOf(t, p)'
  BY <1>2 DEF SettingsOf
<1>3. ASSUME NEW p, HeldOf(t, p) PROVE HeldOf(t, p)'
  BY <1>3 DEF HeldOf
<1> QED BY <1>1, <1>2, <1>3 DEF Stage

\* Two locks that are each alone are one.
LEMMA OneLock ==
  ASSUME IAlone, NEW s \in Slots, NEW u \in Slots, u /= s, IsLock(s), alone[s], thread[u].at /= "free"
  PROVE  ~Disturbs(thread[u].button) /\ thread[s].host = server
BY DEF IAlone, IsLock

----------------------------------------------------------------------------
(* One lemma for each kind of step: what it leaves of a lock. *)

\* A step of the flags and the timers leaves everything.
LEMMA LockStays ==
  ASSUME ILock, IInv', thread' = thread, dev' = dev, log' = log, alone' = alone,
         field' = field, edits' = edits, server' = server
  PROVE  ILock'
<1>1. IPanels' /\ IDevices'
  BY DEF ILock, IPanels, IDevices
<1>2. IShape'
  BY DEF ILock, IShape, Shape
<1>3. IAlone'
  BY DEF ILock, IAlone
<1>4. ASSUME NEW s \in Slots, IsLock(s)', alone'[s] PROVE Stage(s)'
  <2>1. IsLock(s) /\ alone[s]
    BY <1>4 DEF IsLock
  <2>2. Stage(s)
    BY <2>1 DEF ILock, IStages
  <2> QED BY <2>2, StageStays
<1> QED BY <1>1, <1>2, <1>3, <1>4 DEF ILock, IStages

\* After an edit every thread has begun before the last one.
LEMMA EditKeepsLock ==
  ASSUME ILock, IInv', Edit
  PROVE  ILock'
<1>1. /\ edits \in Nat /\ edits' = edits + 1 /\ Panels(field)
      /\ thread' = thread /\ dev' = dev /\ log' = log /\ alone' = alone /\ server' = server
  BY DEF Edit, ILock, IPanels
<1>2. Panels(field')
  <2> PICK f : f = field
    OBVIOUS
  <2>1. Panels(f)
    BY <1>1
  <2>2. CASE \E h \in Hosts : field' = [field EXCEPT !.host = h]
    <3>1. PICK h \in Hosts : field' = [f EXCEPT !.host = h]
      BY <2>2
    <3>2. field' = [host |-> h, chan |-> f.chan, valid |-> f.valid, io |-> f.io, pid |-> f.pid]
      BY <3>1, <2>1 DEF Panels
    <3> QED BY <3>2, <2>1 DEF Panels
  <2>3. CASE \E c \in Channels : field' = [field EXCEPT !.chan = c]
    <3>1. PICK c \in Channels : field' = [f EXCEPT !.chan = c]
      BY <2>3
    <3>2. field' = [host |-> f.host, chan |-> c, valid |-> f.valid, io |-> f.io, pid |-> f.pid]
      BY <3>1, <2>1 DEF Panels
    <3> QED BY <3>2, <2>1 DEF Panels
  <2>4. CASE field' = [field EXCEPT !.io.dac2 = "PID"]
    <3> PICK io : io = [f.io EXCEPT !.dac2 = "PID"]
      OBVIOUS
    <3>1. io = [dac1 |-> f.io.dac1, dac2 |-> "PID", pid_sel |-> f.io.pid_sel]
      BY <2>1 DEF Panels, Routing
    <3>2. field' = [f EXCEPT !.io = io]
      BY <2>4, Zenon
    <3>3. field' = [host |-> f.host, chan |-> f.chan, valid |-> f.valid, io |-> io, pid |-> f.pid]
      BY <3>2, <2>1 DEF Panels
    <3> QED BY <3>1, <3>3, <2>1 DEF Panels, Routing
  <2>5. CASE \E g \in Gains : field' = [field EXCEPT !.pid.gains = g]
    <3>1. PICK g \in Gains : field' = [f EXCEPT !.pid.gains = g]
      BY <2>5
    <3> PICK pid : pid = [f.pid EXCEPT !.gains = g]
      OBVIOUS
    <3>2. pid = [gains |-> g, point |-> f.pid.point, en |-> f.pid.en]
      BY <2>1 DEF Panels, Settings
    <3>3. field' = [f EXCEPT !.pid = pid]
      BY <3>1, Zenon
    <3>4. field' = [host |-> f.host, chan |-> f.chan, valid |-> f.valid, io |-> f.io, pid |-> pid]
      BY <3>3, <2>1 DEF Panels
    <3> QED BY <3>2, <3>4, <2>1 DEF Panels, Settings
  <2>6. CASE field' = [field EXCEPT !.valid = ~field.valid]
    <3>1. PICK v : field' = [f EXCEPT !.valid = v]
      BY <2>6
    <3>2. field' = [host |-> f.host, chan |-> f.chan, valid |-> v, io |-> f.io, pid |-> f.pid]
      BY <3>1, <2>1 DEF Panels
    <3> QED BY <3>2, <2>1 DEF Panels
  <2> QED BY <2>2, <2>3, <2>4, <2>5, <2>6 DEF Edit
<1>3. IPanels'
  BY <1>1, <1>2 DEF IPanels
<1>4. IDevices' /\ IAlone'
  BY <1>1 DEF ILock, IDevices, IAlone
<1>5. ASSUME NEW s \in Slots, thread[s].at /= "free"
      PROVE  thread[s].since /= edits' /\ Shape(thread[s])'
  BY <1>1, <1>5 DEF ILock, IShape, Shape
<1>6. IShape'
  BY <1>1, <1>5 DEF IShape
<1>7. ASSUME NEW s \in Slots, IsLock(s)', alone'[s] PROVE Stage(s)'
  <2>1. IsLock(s) /\ alone[s] /\ thread[s].since /= edits'
    BY <1>1, <1>5, <1>7 DEF IsLock
  <2>2. Stage(s)
    BY <2>1 DEF ILock, IStages
  <2> QED BY <2>1, <2>2, <1>1, StageStays
<1> QED BY <1>3, <1>4, <1>6, <1>7 DEF ILock, IStages

\* A thread that begins is alone when no other disturbs it, and leaves those alone
\* that it does not disturb.
LEMMA BeginKeepsLock ==
  ASSUME ILock, IInv', NEW s \in Slots, thread[s].at = "free", NEW b, Begin(s, b),
         dev' = dev, log' = log, field' = field, edits' = edits
  PROVE  ILock'
<1> PICK t : t = [at |-> IF b \in {"autolock", "persist"} THEN "sweep" ELSE "call", button |-> b, args |-> Args(b),
                  file |-> Nobody, ok |-> TRUE, host |-> field.host, since |-> edits]
  OBVIOUS
<1>a. thread' = [thread EXCEPT ![s] = t]
  BY Zenon DEF Begin
<1>b. /\ t.at \in {"sweep", "call"} /\ t.button = b /\ t.host = field.host /\ t.since = edits
      /\ t = [at |-> t.at, button |-> t.button, args |-> t.args, file |-> t.file, ok |-> t.ok, host |-> t.host, since |-> t.since]
      /\ IF b \in {"autolock", "persist"} THEN t.at /= "call" ELSE t.at \notin {"sweep", "route", "set"}
  OBVIOUS
<1>1. DOMAIN thread' = Slots /\ thread'[s] = t /\ \A u \in Slots \ {s} : thread'[u] = thread[u]
  BY <1>a DEF ILock, IInv, IThread
<1>2. server' = field.host /\ field.host \in Hosts /\ edits \in Nat
  BY DEF Begin, ILock, IPanels, Panels
<1>3. IPanels' /\ IDevices'
  BY <1>2 DEF ILock, IPanels, IDevices
<1>4. Shape(t)'
  BY <1>b, <1>2 DEF Shape
<1>5. IShape'
  <2>1. ASSUME NEW u \in Slots, u /= s, thread[u].at /= "free" PROVE Shape(thread[u])'
    <3>1. Shape(thread[u]) /\ thread'[u] = thread[u]
      BY <1>1, <2>1 DEF ILock, IShape
    <3> QED BY <3>1 DEF Shape
  <2>2. Shape(thread[s])'
    BY <1>1, <1>4 DEF Shape
  <2>3. ASSUME NEW u \in Slots, thread'[u].at /= "free" PROVE Shape(thread[u])'
    <3>1. CASE u = s
      BY <2>2, <3>1
    <3>2. CASE u /= s
      <4>1. thread[u].at /= "free"
        BY <1>1, <2>3, <3>2
      <4> QED BY <2>1, <3>2, <4>1
    <3> QED BY <3>1, <3>2
  <2> QED BY <2>3 DEF IShape
<1>6. alone' = [u \in Slots |->
                  IF u = s THEN \A v \in Slots \ {s} : thread[v].at /= "free" => ~Disturbs(thread[v].button)
                  ELSE alone[u] /\ (thread[u].at = "free" \/ (~Disturbs(b) /\ thread[u].host = field.host))]
  BY Zenon DEF Begin, Interrupted
<1>7. alone' \in [Slots -> BOOLEAN]
  BY <1>6 DEF ILock, IAlone
<1>8. alone'[s] => \A v \in Slots \ {s} : thread[v].at /= "free" => ~Disturbs(thread[v].button)
  BY <1>6, Zenon
<1>9. ASSUME NEW u \in Slots \ {s}, alone'[u]
      PROVE  alone[u] /\ (thread[u].at = "free" \/ (~Disturbs(b) /\ thread[u].host = field.host))
  BY <1>6, <1>9, Zenon
<1>10. IAlone'
  <2>1. ASSUME NEW u \in Slots, thread'[u].at /= "free", alone'[u]
        PROVE  /\ thread'[u].host = server'
               /\ \A v \in Slots \ {u} : thread'[v].at /= "free" => ~Disturbs(thread'[v].button)
    <3>1. CASE u = s
      BY <3>1, <2>1, <1>b, <1>1, <1>2, <1>8
    <3>2. CASE u /= s
      <4>1. alone[u] /\ thread[u].at /= "free" /\ ~Disturbs(b) /\ thread[u].host = field.host
        BY <3>2, <2>1, <1>1, <1>9
      <4>2. \A v \in Slots \ {u} : thread[v].at /= "free" => ~Disturbs(thread[v].button)
        BY <4>1 DEF ILock, IAlone
      <4> QED BY <3>2, <4>1, <4>2, <1>b, <1>1, <1>2
    <3> QED BY <3>1, <3>2
  <2> QED BY <2>1, <1>7 DEF IAlone, Disturbs
<1>11. ASSUME NEW u \in Slots, IsLock(u)', alone'[u] PROVE Stage(u)'
  <2>1. CASE u = s
    BY <2>1, <1>b, <1>1 DEF Stage
  <2>2. CASE u /= s
    <3>1. IsLock(u) /\ alone[u] /\ thread'[u] = thread[u]
      BY <2>2, <1>1, <1>9, <1>11 DEF IsLock
    <3>2. Stage(u)
      BY <3>1 DEF ILock, IStages
    <3> QED BY <3>1, <3>2, StageStays
  <2> QED BY <2>1, <2>2
<1> QED BY <1>3, <1>5, <1>10, <1>11 DEF ILock, IStages

\* What a command of the thread of slot s may come to.
LEMMA Outcome ==
  ASSUME ILock, NEW s \in Slots, thread[s].at \in {"sweep", "route", "set", "call"}, NEW o \in Outcomes(s)
  PROVE  /\ Device(o.dev)
         /\ thread[s].button = "capture" => o.dev = dev[server] /\ o.log = log[server]
         /\ thread[s].at = "sweep" /\ o.ok => o.log = s
         /\ thread[s].at = "route" /\ o.ok => o.dev.io = thread[s].args.io
         /\ thread[s].at = "set" /\ o.ok => o.dev.io = dev[server].io /\ o.dev.pid = Held(thread[s].args.pid)
<1> PICK t : t = thread[s]
  OBVIOUS
<1> PICK d : d = dev[server]
  OBVIOUS
<1> PICK g : g = log[server]
  OBVIOUS
<1>1. Device(d) /\ Shape(t) /\ t.at \in {"sweep", "route", "set", "call"}
  BY DEF ILock, IDevices, IShape
<1>2. ASSUME NEW x, NEW f, o \in Done(x, f) PROVE o.dev = x /\ o.log = f
  BY <1>2 DEF Done
<1>3. ASSUME NEW x, o \in Failed(x) PROVE o.dev = x /\ o.log = g /\ o.ok = FALSE
  BY <1>3 DEF Failed
<1>4. ASSUME NEW v
      PROVE  /\ Device([d EXCEPT !.io = v]) /\ [d EXCEPT !.io = v].io = v
             /\ Device([d EXCEPT !.pid = v]) /\ [d EXCEPT !.pid = v].io = d.io /\ [d EXCEPT !.pid = v].pid = v
  <2>1. [d EXCEPT !.io = v] = [io |-> v, pid |-> d.pid] /\ [d EXCEPT !.pid = v] = [io |-> d.io, pid |-> v]
    BY <1>1 DEF Device
  <2> QED BY <2>1 DEF Device
<1>5. Device([d EXCEPT !.io.dac1 = "REGISTER"])
  <2>1. [d EXCEPT !.io.dac1 = "REGISTER"] = [d EXCEPT !.io = [d.io EXCEPT !.dac1 = "REGISTER"]]
    BY Zenon
  <2> QED BY <2>1, <1>4
<1>6. Device([io |-> DefaultRouting, pid |-> DefaultPid])
  BY DEF Device
<1>7. ASSUME NEW io, o \in Routed(d, io)
      PROVE  Device(o.dev) /\ (o.ok => o.dev.io = io)
  <2>1. CASE o \in Done([d EXCEPT !.io = io], g)
    <3>1. o.dev = [d EXCEPT !.io = io]
      BY <1>2, <2>1, Zenon
    <3> QED BY <3>1, <1>4, Zenon
  <2>2. CASE o \in Failed([io |-> DefaultRouting, pid |-> DefaultPid])
    BY <2>2, <1>3, <1>6
  <2> QED BY <1>7, <2>1, <2>2 DEF Routed
<1>8. CASE o \in Failed(d)
  BY <1>8, <1>1, <1>3
<1>9. CASE t.at = "sweep" /\ o \in Done(d, s) \cup Failed([d EXCEPT !.io.dac1 = "REGISTER"])
  <2>0. t.button /= "capture"
    BY <1>1, <1>9 DEF Shape
  <2>1. CASE o \in Done(d, s)
    BY <2>0, <2>1, <1>1, <1>2, <1>9
  <2>2. CASE o \in Failed([d EXCEPT !.io.dac1 = "REGISTER"])
    BY <2>0, <2>2, <1>3, <1>5, <1>9
  <2> QED BY <1>9, <2>1, <2>2
<1>10. CASE t.at = "route" /\ o \in Routed(d, t.args.io)
  BY <1>1, <1>7, <1>10 DEF Shape
<1>11. CASE t.at = "set" /\ o \in Done([d EXCEPT !.pid = Held(t.args.pid)], g)
  <2>1. t.button /= "capture"
    BY <1>1, <1>11 DEF Shape
  <2> PICK v : v = Held(t.args.pid)
    OBVIOUS
  <2>2. o.dev = [d EXCEPT !.pid = v]
    BY <1>2, <1>11, Zenon
  <2> PICK x : x = [d EXCEPT !.pid = v]
    OBVIOUS
  <2>a. Device(x) /\ x.io = d.io /\ x.pid = v
    BY <1>4
  <2>3. Device(o.dev) /\ o.dev.io = d.io /\ o.dev.pid = v
    BY <2>a, <2>2
  <2> QED BY <2>1, <2>3, <1>11
<1>12. CASE t.at = "call" /\ t.button = "io" /\ o \in Routed(d, t.args)
  BY <1>7, <1>12
<1>13. CASE t.at = "call" /\ t.button = "pid" /\ o \in Done([d EXCEPT !.pid = Held(t.args)], g)
  <2>1. o.dev = [d EXCEPT !.pid = Held(t.args)]
    BY <1>2, <1>13, Zenon
  <2>2. Device(o.dev)
    BY <1>4, <2>1, Zenon
  <2> QED BY <2>2, <1>13
<1>14. CASE t.at = "call" /\ t.button = "reset" /\ o \in Done([io |-> DefaultRouting, pid |-> DefaultPid], g)
  BY <1>2, <1>6, <1>14
<1>15. CASE t.at = "call" /\ o \in Done(d, g)
  BY <1>1, <1>2, <1>15
<1>16. \/ o \in Failed(d)
       \/ t.at = "sweep" /\ o \in Done(d, s) \cup Failed([d EXCEPT !.io.dac1 = "REGISTER"])
       \/ t.at = "route" /\ o \in Routed(d, t.args.io)
       \/ t.at = "set" /\ o \in Done([d EXCEPT !.pid = Held(t.args.pid)], g)
       \/ t.at = "call" /\ t.button = "io" /\ o \in Routed(d, t.args)
       \/ t.at = "call" /\ t.button = "pid" /\ o \in Done([d EXCEPT !.pid = Held(t.args)], g)
       \/ t.at = "call" /\ t.button = "reset" /\ o \in Done([io |-> DefaultRouting, pid |-> DefaultPid], g)
       \/ t.at = "call" /\ o \in Done(d, g)
  <2> PICK A, B, C, D, E, F, G :
           /\ A = Done(d, s) \cup Failed([d EXCEPT !.io.dac1 = "REGISTER"])
           /\ B = Routed(d, t.args.io) /\ C = Done([d EXCEPT !.pid = Held(t.args.pid)], g)
           /\ D = Routed(d, t.args) /\ E = Done([d EXCEPT !.pid = Held(t.args)], g)
           /\ F = Done([io |-> DefaultRouting, pid |-> DefaultPid], g) /\ G = Done(d, g)
    BY Zenon
  <2>1. Outcomes(s) = Failed(d) \cup
          (CASE t.at = "sweep" -> A [] t.at = "route" -> B [] t.at = "set" -> C
             [] t.button = "io" -> D [] t.button = "pid" -> E [] t.button = "reset" -> F [] OTHER -> G)
    BY Zenon DEF Outcomes
  <2>2. \/ o \in Failed(d)
        \/ (t.at = "sweep" /\ o \in A) \/ (t.at = "route" /\ o \in B) \/ (t.at = "set" /\ o \in C)
        \/ (t.at = "call" /\ t.button = "io" /\ o \in D) \/ (t.at = "call" /\ t.button = "pid" /\ o \in E)
        \/ (t.at = "call" /\ t.button = "reset" /\ o \in F) \/ (t.at = "call" /\ o \in G)
    <3>1. o \in Failed(d) \/
          o \in (CASE t.at = "sweep" -> A [] t.at = "route" -> B [] t.at = "set" -> C
                   [] t.button = "io" -> D [] t.button = "pid" -> E [] t.button = "reset" -> F [] OTHER -> G)
      BY <2>1, Zenon
    <3>2. t.at \in {"sweep", "route", "set"} => t.button \notin {"io", "pid", "reset"}
      BY <1>1 DEF Shape
    <3> QED BY <1>1, <3>1, <3>2
  <2> QED BY <2>2, Zenon
<1> QED BY <1>8, <1>9, <1>10, <1>11, <1>12, <1>13, <1>14, <1>15, <1>16

\* A thread that goes on leaves the others as they are.
LEMMA MovesOn ==
  ASSUME ILock, NEW s \in Slots, thread[s].at /= "free", NEW r, Kept(r, thread[s]),
         thread' = [thread EXCEPT ![s] = r], alone' = alone, server' = server, edits' = edits
  PROVE  /\ IShape' /\ IAlone'
         /\ thread'[s] = r /\ \A u \in Slots \ {s} : thread'[u] = thread[u]
         /\ \A u \in Slots : IsLock(u)' <=> IsLock(u)
<1>1. thread'[s] = r /\ \A u \in Slots \ {s} : thread'[u] = thread[u]
  BY DEF ILock, IInv, IThread
<1>2. r.at /= "free" /\ r.button = thread[s].button /\ r.host = thread[s].host /\ Shape(r)
  BY DEF Kept
<1>3. ASSUME NEW u \in Slots
      PROVE  /\ thread'[u].at = "free" <=> thread[u].at = "free"
             /\ thread[u].at /= "free" => thread'[u].button = thread[u].button /\ thread'[u].host = thread[u].host
  BY <1>1, <1>2
<1>4. IShape'
  <2>1. ASSUME NEW u \in Slots, thread'[u].at /= "free" PROVE Shape(thread'[u])
    BY <2>1, <1>1, <1>2 DEF ILock, IShape
  <2> QED BY <2>1 DEF IShape, Shape
<1>5. IAlone'
  BY <1>3 DEF ILock, IAlone, Disturbs
<1>6. \A u \in Slots : IsLock(u)' <=> IsLock(u)
  BY <1>3 DEF IsLock
<1> QED BY <1>1, <1>4, <1>5, <1>6

\* The locks other threads are on stay where they are when their devices do.
LEMMA OthersStay ==
  ASSUME ILock, NEW s \in Slots, NEW u \in Slots, u /= s, IsLock(u)', alone'[u],
         IsLock(u)' <=> IsLock(u), alone' = alone, thread'[u] = thread[u],
         dev'[thread[u].host] = dev[thread[u].host], log'[thread[u].host] = log[thread[u].host],
         field' = field, edits' = edits
  PROVE  Stage(u)'
<1>1. Stage(u)
  BY DEF ILock, IStages
<1> QED BY <1>1, StageStays

\* A command takes the lock of its own thread a step on, and reaches that of no other.
LEMMA ExecuteKeepsLock ==
  ASSUME ILock, IInv', NEW s \in Slots, execute_cmd(s)
  PROVE  ILock'
<1> PICK t : t = thread[s]
  OBVIOUS
<1>1. PICK o \in Outcomes(s) :
        /\ dev' = [dev EXCEPT ![server] = o.dev] /\ log' = [log EXCEPT ![server] = o.log]
        /\ thread' = [thread EXCEPT ![s] = IF o.ok THEN Answered(thread[s]) ELSE Raised(thread[s])]
  BY DEF execute_cmd
<1>2. /\ t.at \in {"sweep", "route", "set", "call"} /\ Shape(t)
      /\ server' = server /\ field' = field /\ edits' = edits /\ alone' = alone
      /\ server \in Hosts /\ IAlone
  BY DEF execute_cmd, bounds, ILock, IShape, IDevices
<1>3. /\ DOMAIN dev' = Hosts /\ dev'[server] = o.dev /\ \A h \in Hosts \ {server} : dev'[h] = dev[h]
      /\ DOMAIN log' = Hosts /\ log'[server] = o.log /\ \A h \in Hosts \ {server} : log'[h] = log[h]
  BY <1>1, <1>2 DEF ILock, IDevices
<1>4. /\ Device(o.dev)
      /\ t.button = "capture" => o.dev = dev[server] /\ o.log = log[server]
      /\ t.at = "sweep" /\ o.ok => o.log = s
      /\ t.at = "route" /\ o.ok => o.dev.io = t.args.io
      /\ t.at = "set" /\ o.ok => o.dev.io = dev[server].io /\ o.dev.pid = Held(t.args.pid)
  BY <1>2, Outcome
<1>5. IPanels' /\ IDevices'
  BY <1>2, <1>3, <1>4 DEF ILock, IPanels, IDevices
<1> PICK r : r = IF o.ok THEN Answered(t) ELSE Raised(t)
  OBVIOUS
<1> PICK w : w = [chan |-> t.args.chan, pid |-> LockPid(t)]
  OBVIOUS
<1> PICK e : e = dev'[server]
  OBVIOUS
<1>6. thread' = [thread EXCEPT ![s] = r]
  BY <1>1
\* What the thread goes on with.
<1>7. \/ r = Raised(t)
      \/ o.ok /\ t.at = "sweep" /\ r = [t EXCEPT !.at = "fetch"]
      \/ /\ o.ok /\ t.at = "route"
         /\ r = ToSet(t, w)
      \/ o.ok /\ t.at = "set" /\ r = [t EXCEPT !.at = "post"]
      \/ t.at = "call" /\ r = [t EXCEPT !.at = "fetch"]
      \/ t.at = "call" /\ r = [t EXCEPT !.at = "post"]
  <2> PICK a, b, c : a = [t EXCEPT !.at = "fetch"] /\ c = [t EXCEPT !.at = "post"]
                     /\ b = ToSet(t, w)
    BY Zenon
  <2>1. Answered(t) = CASE t.at = "sweep" -> a
                        [] t.at = "route" -> IF field.pid.gains = "invalid" THEN Raised(t) ELSE b
                        [] t.button = "capture" -> a
                        [] OTHER -> c
    BY Zenon DEF Answered, ToSet
  <2>2. t.at \in {"sweep", "route", "set"} => t.button /= "capture"
    BY <1>2 DEF Shape
  <2>3. \/ r = Raised(t)
        \/ o.ok /\ t.at = "sweep" /\ r = a
        \/ o.ok /\ t.at = "route" /\ r = b
        \/ o.ok /\ t.at = "set" /\ r = c
        \/ t.at = "call" /\ r = a
        \/ t.at = "call" /\ r = c
    BY <1>2, <2>1, <2>2
  <2> QED BY <2>3, Zenon
<1>8. t.at \in {"sweep", "route", "set"} => t.button \in {"autolock", "persist"}
  BY <1>2 DEF Shape
<1>a. ASSUME NEW v \in {"fetch", "post"}, r = [t EXCEPT !.at = v]
      PROVE  Kept(r, t) /\ r.at = v /\ r.args = t.args /\ r.file = t.file
  <2>1. v \notin {"free", "call", "sweep", "route", "set"}
    OBVIOUS
  <2>2. /\ Kept([t EXCEPT !.at = v], t) /\ [t EXCEPT !.at = v].at = v
        /\ [t EXCEPT !.at = v].args = t.args /\ [t EXCEPT !.at = v].file = t.file
    <3>1. Shape(t)
      BY <1>2
    <3> HIDE <1>2
    <3> QED BY <3>1, <2>1, KeptAt
  <2> QED BY <1>a, <2>2, Zenon
<1>b. ASSUME t.at = "route", r = ToSet(t, w)
      PROVE  Kept(r, t) /\ r.at = "set" /\ r.args = w /\ r.file = t.file
  BY <1>2, <1>8, <1>b, KeptSet
<1>9. Kept(r, t)
  BY <1>2, <1>7, <1>a, <1>b, KeptRaised
<1>10. /\ IShape' /\ IAlone'
       /\ thread'[s] = r /\ \A u \in Slots \ {s} : thread'[u] = thread[u]
       /\ \A u \in Slots : IsLock(u)' <=> IsLock(u)
  BY <1>2, <1>6, <1>9, MovesOn
<1>11. ASSUME NEW u \in Slots, IsLock(u)', alone'[u], u /= s PROVE Stage(u)'
  <2>1. IsLock(u) /\ alone[u] /\ thread[u].host = server /\ ~Disturbs(t.button)
    BY <1>2, <1>10, <1>11, OneLock
  <2>2. t.button = "capture"
    <3>1. t.button \in Buttons \cup {"persist"}
      BY <1>2 DEF ILock, IInv, IThread, ThreadOK
    <3> QED BY <2>1, <3>1, GuiAssumption DEF Disturbs
  <2>3. dev'[server] = dev[server] /\ log'[server] = log[server]
    BY <1>3, <1>4, <2>2
  <2>4. thread'[u] = thread[u]
    BY <1>10, <1>11
  <2> QED BY <1>2, <1>10, <1>11, <2>1, <2>3, <2>4, OthersStay
<1>12. ASSUME IsLock(s)', alone'[s] PROVE Stage(s)'
  <2>1. IsLock(s) /\ t.button \in {"autolock", "persist"} /\ t.host = server /\ Stage(s) /\ t.at /= "call"
    BY <1>2, <1>10, <1>12 DEF IsLock, IAlone, ILock, IStages, Shape
  <2>2. r.host = server /\ r.since = t.since
    BY <1>9, <2>1 DEF Kept
  <2>3. CASE r = Raised(t)
    <3>1. r.at = "post" /\ r.ok = FALSE
      BY <1>2, <2>3, KeptRaised
    <3> QED BY <1>10, <3>1 DEF Stage
  <2>4. CASE o.ok /\ t.at = "sweep" /\ r = [t EXCEPT !.at = "fetch"]
    <3>1. r.at = "fetch"
      BY <1>a, <2>4
    <3>2. log'[server] = s
      BY <1>3, <1>4, <2>4
    <3> QED BY <1>10, <2>2, <3>1, <3>2 DEF Stage
  <2>5. CASE o.ok /\ t.at = "route" /\ r = ToSet(t, w)
    <3>1. r.at = "set" /\ r.args = w /\ r.file = t.file
      BY <1>b, <2>5
    <3>2. r.args.chan = t.args.chan /\ r.args.pid = LockPid(t)
      BY <3>1
    <3>3. t.file = s /\ RoutingOf(t, t.args.io)
      BY <2>1, <2>5 DEF Stage
    <3>4. e.io = t.args.io
      BY <1>3, <1>4, <2>5
    <3>5. RoutingOf(r, e.io)'
      <4>1. e.io = [dac1 |-> "PID", dac2 |-> e.io.dac2, pid_sel |-> r.args.chan]
        BY <3>2, <3>3, <3>4 DEF RoutingOf
      <4>2. r.since = edits => e.io.dac2 = field.io.dac2
        BY <2>2, <3>3, <3>4 DEF RoutingOf
      <4> QED BY <1>2, <4>1, <4>2 DEF RoutingOf
    <3>6. SettingsOf(r, r.args.pid)'
      <4> PICK p : p = r.args.pid
        OBVIOUS
      <4>1. p = [gains |-> field.pid.gains, point |-> [sweep |-> r.file, chan |-> r.args.chan], en |-> TRUE]
        BY <3>1, <3>2 DEF LockPid
      <4>2. p.gains = field'.pid.gains /\ p = [gains |-> p.gains, point |-> [sweep |-> r.file, chan |-> r.args.chan], en |-> TRUE]
        <5>1. field' = field
          BY <1>2
        <5>2. p.gains = field.pid.gains
          BY <4>1
        <5> QED BY <4>1, <5>1, <5>2
      <4> QED BY <4>2 DEF SettingsOf
    <3> QED BY <1>2, <1>10, <2>2, <3>1, <3>3, <3>5, <3>6 DEF Stage
  <2>6. CASE o.ok /\ t.at = "set" /\ r = [t EXCEPT !.at = "post"]
    <3>1. r.at = "post" /\ r.args = t.args /\ r.file = t.file
      BY <1>a, <2>6
    <3>2. t.file = s /\ RoutingOf(t, dev[server].io) /\ SettingsOf(t, t.args.pid)
      BY <2>1, <2>6 DEF Stage
    <3>3. e.io = dev[server].io /\ e.pid = Held(t.args.pid)
      BY <1>3, <1>4, <2>6
    <3>4. RoutingOf(r, e.io)'
      BY <1>2, <2>2, <3>1, <3>2, <3>3 DEF RoutingOf
    <3>5. HeldOf(r, e.pid)'
      <4> PICK p : p = t.args.pid
        OBVIOUS
      <4>1. p = [gains |-> p.gains, point |-> [sweep |-> t.file, chan |-> t.args.chan], en |-> TRUE]
        BY <3>2 DEF SettingsOf
      <4>2. e.pid = [gains |-> Clamped(p.gains), point |-> [sweep |-> t.file, chan |-> t.args.chan], en |-> TRUE]
        <5>1. PICK gains, point : gains = p.gains /\ point = [sweep |-> t.file, chan |-> t.args.chan]
          OBVIOUS
        <5>2. p = [gains |-> gains, point |-> point, en |-> TRUE]
          BY <4>1, <5>1
        <5>3. Held(p) = [gains |-> Clamped(gains), point |-> point, en |-> TRUE]
          BY <5>2, HeldIs, Zenon
        <5> QED BY <3>3, <5>1, <5>3
      <4>3. e.pid = [gains |-> e.pid.gains, point |-> [sweep |-> t.file, chan |-> t.args.chan], en |-> TRUE]
            /\ e.pid.gains = Clamped(p.gains)
        BY <4>2
      <4>4. t.since = edits => p.gains = field.pid.gains
        BY <3>2 DEF SettingsOf
      <4>5. t.since = edits => e.pid.gains = Clamped(field.pid.gains)
        BY <4>3, <4>4
      <4> QED BY <1>2, <2>2, <3>1, <4>3, <4>5 DEF HeldOf
    <3> QED BY <1>2, <1>10, <2>2, <3>1, <3>2, <3>4, <3>5 DEF Stage
  <2> QED BY <1>7, <2>1, <2>3, <2>4, <2>5, <2>6
<1> QED BY <1>5, <1>10, <1>11, <1>12 DEF ILock, IStages

\* A step of a thread that reaches no device: what is left to show is its own lock.
LEMMA QuietKeepsLock ==
  ASSUME ILock, IInv', NEW s \in Slots, Shape(thread[s]), thread[s].at /= "free",
         NEW r, Kept(r, thread[s]), thread' = [thread EXCEPT ![s] = r],
         server' = server, field' = field, dev' = dev, log' = log, alone' = alone, edits' = edits,
         IsLock(s) /\ alone[s] => (thread'[s] = r => Stage(s)')
  PROVE  ILock'
<1>1. /\ IShape' /\ IAlone'
      /\ thread'[s] = r /\ \A u \in Slots \ {s} : thread'[u] = thread[u]
      /\ \A u \in Slots : IsLock(u)' <=> IsLock(u)
  BY MovesOn
<1>2. IPanels' /\ IDevices'
  BY DEF ILock, IPanels, IDevices
<1>3. ASSUME NEW u \in Slots, IsLock(u)', alone'[u] PROVE Stage(u)'
  <2>1. CASE u = s
    BY <1>1, <1>3, <2>1
  <2>2. CASE u /= s
    BY <1>1, <1>3, <2>2, OthersStay
  <2> QED BY <2>1, <2>2
<1> QED BY <1>1, <1>2, <1>3 DEF ILock, IStages

\* The file of a lock that is alone is that of its own sweep.
LEMMA FetchKeepsLock ==
  ASSUME ILock, IInv', NEW s \in Slots, Fetch(s)
  PROVE  ILock'
<1> PICK t : t = thread[s]
  OBVIOUS
<1>1. /\ t.at = "fetch" /\ Shape(t)
      /\ server' = server /\ field' = field /\ dev' = dev /\ log' = log /\ alone' = alone /\ edits' = edits
  BY DEF Fetch, bounds, ILock, IShape
<1>2. CASE t.button = "capture" /\ thread' = [thread EXCEPT ![s].at = "post"]
  <2> PICK r : r = [t EXCEPT !.at = "post"]
    OBVIOUS
  <2>0. "post" \notin {"free", "call", "sweep", "route", "set"}
    OBVIOUS
  <2>1. Kept(r, t)
    BY <1>1, <2>0, KeptAt
  <2>2. thread' = [thread EXCEPT ![s] = r]
    BY <1>2, Zenon
  <2>3. ~IsLock(s)
    BY <1>2 DEF IsLock
  <2> QED BY <1>1, <2>1, <2>2, <2>3, QuietKeepsLock
<1>3. CASE thread' = [thread EXCEPT ![s] = Raised(t)]
  <2> PICK r : r = Raised(t)
    OBVIOUS
  <2>1. Kept(r, t) /\ r.at = "post" /\ r.ok = FALSE
    BY <1>1, KeptRaised
  <2>2. thread'[s] = r => Stage(s)'
    BY <2>1 DEF Stage
  <2> QED BY <1>1, <1>3, <2>1, <2>2, QuietKeepsLock
<1>4. ASSUME NEW file \in Fetched(s), IsLock(s),
             thread' = [thread EXCEPT ![s].at = "route", ![s].file = file,
                          ![s].args = [chan |-> t.args.chan,
                                       io |-> [dac1 |-> "PID", dac2 |-> field.io.dac2, pid_sel |-> t.args.chan]]]
      PROVE  ILock'
  <2> PICK w : w = [chan |-> t.args.chan,
                    io |-> [dac1 |-> "PID", dac2 |-> field.io.dac2, pid_sel |-> t.args.chan]]
    OBVIOUS
  <2> PICK r : r = ToRoute(t, file, w)
    OBVIOUS
  <2>1. t.button \in {"autolock", "persist"}
    BY <1>4 DEF IsLock
  <2>2. Kept(r, t) /\ r.at = "route" /\ r.args = w /\ r.file = file
    BY <1>1, <2>1, KeptRoute
  <2>3. thread' = [thread EXCEPT ![s] = r]
    <3>1. thread' = [thread EXCEPT ![s].at = "route", ![s].file = file, ![s].args = w]
      BY <1>4, Zenon
    <3> QED BY <3>1, Zenon DEF ToRoute
  <2>4. ASSUME alone[s], thread'[s] = r PROVE Stage(s)'
    <3>1. Stage(s) /\ t.host = server
      BY <1>1, <1>4, <2>4 DEF ILock, IStages, IAlone
    <3>2. log[server] = s
      BY <1>1, <3>1 DEF Stage
    <3>3. ASSUME NEW u \in Slots \ {s} PROVE thread[u].at /= "sweep"
      <4>1. thread[u].at /= "free" => ~Disturbs(thread[u].button) /\ Shape(thread[u])
        BY <1>4, <2>4, <3>3 DEF ILock, IShape, IAlone, IsLock
      <4> QED BY <4>1 DEF Shape, Disturbs
    <3>4. file = s
      BY <1>4, <3>2, <3>3 DEF Fetched
    <3>5. /\ r.args.io = [dac1 |-> "PID", dac2 |-> field.io.dac2, pid_sel |-> t.args.chan]
          /\ r.args.chan = t.args.chan
      BY <2>2
    <3> PICK io : io = r.args.io
      OBVIOUS
    <3>6. RoutingOf(r, io)'
      BY <1>1, <3>5 DEF RoutingOf
    <3>7. RoutingOf(r, r.args.io)'
      BY <3>6
    <3> QED BY <2>2, <2>4, <3>4, <3>7 DEF Stage
  <2> QED BY <1>1, <2>2, <2>3, <2>4, QuietKeepsLock
<1> QED BY <1>2, <1>3, <1>4, Zenon DEF Fetch

\* So does a transfer that hangs, and a result that is posted.
LEMMA HangKeepsLock ==
  ASSUME ILock, IInv', NEW s \in Slots, Hang(s)
  PROVE  ILock'
<1> PICK t : t = thread[s]
  OBVIOUS
<1> PICK r : r = [t EXCEPT !.at = "hung"]
  OBVIOUS
<1>1. /\ t.at = "fetch" /\ Shape(t)
      /\ server' = server /\ field' = field /\ dev' = dev /\ log' = log /\ alone' = alone /\ edits' = edits
  BY DEF Hang, ILock, IShape
<1>2. "hung" \notin {"free", "call", "sweep", "route", "set"}
  OBVIOUS
<1>3. Kept(r, t) /\ r.at = "hung"
  BY <1>1, <1>2, KeptAt
<1>4. thread' = [thread EXCEPT ![s] = r]
  BY Zenon DEF Hang
<1>5. thread'[s] = r => Stage(s)'
  BY <1>3 DEF Stage
<1> QED BY <1>1, <1>3, <1>4, <1>5, QuietKeepsLock

\* The result is of the lock that was made.
LEMMA PostKeepsLock ==
  ASSUME ILock, IInv', NEW s \in Slots, Post(s)
  PROVE  ILock'
<1> PICK t : t = thread[s]
  OBVIOUS
<1> PICK r : r = [t EXCEPT !.at = "posted"]
  OBVIOUS
<1>1. /\ t.at = "post" /\ Shape(t)
      /\ server' = server /\ field' = field /\ dev' = dev /\ log' = log /\ alone' = alone /\ edits' = edits
  BY DEF Post, bounds, ILock, IShape
<1>2. "posted" \notin {"free", "call", "sweep", "route", "set"}
  OBVIOUS
<1>3. Kept(r, t) /\ r.at = "posted" /\ r.args = t.args /\ r.file = t.file /\ r.ok = t.ok
  BY <1>1, <1>2, KeptAt
<1>4. thread' = [thread EXCEPT ![s] = r]
  BY Zenon DEF Post
<1>5. ASSUME IsLock(s), alone[s], thread'[s] = r PROVE Stage(s)'
  <2> PICK d : d = dev[t.host]
    OBVIOUS
  <2>1. t.ok => t.file = s /\ RoutingOf(t, d.io) /\ HeldOf(t, d.pid)
    BY <1>1, <1>5 DEF ILock, IStages, Stage
  <2>2. r.host = t.host /\ r.since = t.since
    BY <1>3 DEF Kept
  <2>3. r.ok => RoutingOf(r, d.io)' /\ HeldOf(r, d.pid)'
    BY <1>1, <1>3, <2>1, <2>2 DEF RoutingOf, HeldOf
  <2> QED BY <1>1, <1>3, <1>5, <2>1, <2>2, <2>3 DEF Stage
<1> QED BY <1>1, <1>3, <1>4, <1>5, QuietKeepsLock

\* What the panels hold after a lock on channel c with lock point p.
ToLocked(f, c, p) ==
  [f EXCEPT !.io.dac1 = "PID", !.io.pid_sel = c, !.pid.en = TRUE, !.pid.point = p]
LEMMA LockedPanels ==
  ASSUME NEW f, Panels(f), NEW c, NEW p
  PROVE  ToLocked(f, c, p) =
           [host |-> f.host, chan |-> f.chan, valid |-> f.valid,
            io |-> [dac1 |-> "PID", dac2 |-> f.io.dac2, pid_sel |-> c],
            pid |-> [gains |-> f.pid.gains, point |-> p, en |-> TRUE]]
<1>1. PICK io1 : io1 = [f.io EXCEPT !.dac1 = "PID"]
  OBVIOUS
<1>2. PICK io2 : io2 = [io1 EXCEPT !.pid_sel = c]
  OBVIOUS
<1>3. PICK pid1 : pid1 = [f.pid EXCEPT !.en = TRUE]
  OBVIOUS
<1>4. PICK pid2 : pid2 = [pid1 EXCEPT !.point = p]
  OBVIOUS
<1>5. io2 = [dac1 |-> "PID", dac2 |-> f.io.dac2, pid_sel |-> c]
  <2>1. io1 = [dac1 |-> "PID", dac2 |-> f.io.dac2, pid_sel |-> f.io.pid_sel]
    BY <1>1 DEF Panels, Routing
  <2> QED BY <2>1, <1>2
<1>6. pid2 = [gains |-> f.pid.gains, point |-> p, en |-> TRUE]
  <2>1. pid1 = [gains |-> f.pid.gains, point |-> f.pid.point, en |-> TRUE]
    BY <1>3 DEF Panels, Settings
  <2> QED BY <2>1, <1>4
<1>7. PICK f1 : f1 = [f EXCEPT !.io = io1]
  OBVIOUS
<1>8. PICK f2 : f2 = [f1 EXCEPT !.io = io2]
  OBVIOUS
<1>9. PICK f3 : f3 = [f2 EXCEPT !.pid = pid1]
  OBVIOUS
<1>10. PICK f4 : f4 = [f3 EXCEPT !.pid = pid2]
  OBVIOUS
<1>11. f1 = [host |-> f.host, chan |-> f.chan, valid |-> f.valid, io |-> io1, pid |-> f.pid]
  BY <1>7 DEF Panels
<1>12. f2 = [host |-> f.host, chan |-> f.chan, valid |-> f.valid, io |-> io2, pid |-> f.pid]
  BY <1>8, <1>11
<1>13. f3 = [host |-> f.host, chan |-> f.chan, valid |-> f.valid, io |-> io2, pid |-> pid1]
  BY <1>9, <1>12
<1>14. f4 = [host |-> f.host, chan |-> f.chan, valid |-> f.valid, io |-> io2, pid |-> pid2]
  BY <1>10, <1>13
<1>15. f1.io = io1 /\ f2.pid = f.pid /\ f3.pid = pid1
  BY <1>11, <1>12, <1>13
<1>16. f1 = [f EXCEPT !.io.dac1 = "PID"]
  BY <1>1, <1>7, Zenon
<1>17. f2 = [f1 EXCEPT !.io.pid_sel = c]
  BY <1>2, <1>8, <1>15, Zenon
<1>18. f3 = [f2 EXCEPT !.pid.en = TRUE]
  BY <1>3, <1>9, <1>15, Zenon
<1>19. f4 = [f3 EXCEPT !.pid.point = p]
  BY <1>4, <1>10, <1>15, Zenon
<1>20. ToLocked(f, c, p) = f4
  BY <1>16, <1>17, <1>18, <1>19, Zenon DEF ToLocked
<1> QED BY <1>5, <1>6, <1>14, <1>20

\* A callback shows a lock; then it was no other thread's to be alone.
LEMMA CallbackKeepsLock ==
  ASSUME ILock, IInv', Callback
  PROVE  ILock'
<1> PICK s : s = Head(events)
  OBVIOUS
<1>1. /\ events /= <<>> /\ thread' = [thread EXCEPT ![s] = Idle] /\ alone' = [alone EXCEPT ![s] = TRUE]
      /\ field' = Shown(s) /\ log' = [h \in Hosts |-> IF log[h] = s THEN Past ELSE log[h]]
      /\ server' = server /\ dev' = dev /\ edits' = edits
  BY DEF Callback, bounds
<1>2. s \in Slots /\ thread[s].at = "posted"
  <2>1. events[1] = s /\ 1 \in DOMAIN events
    BY <1>1 DEF ILock, IInv, IEvents
  <2> QED BY <2>1 DEF ILock, IInv, IEvents
<1>3. Idle.at = "free"
  BY DEF Idle
<1>4. thread'[s] = Idle /\ \A u \in Slots \ {s} : thread'[u] = thread[u]
  BY <1>1, <1>2 DEF ILock, IInv, IThread
<1>5. /\ alone' \in [Slots -> BOOLEAN]
      /\ \A u \in Slots \ {s} : alone'[u] = alone[u]
  BY <1>1, <1>2 DEF ILock, IAlone
<1>6. IPanels'
  <2>1. CASE ~(IsLock(s) /\ thread[s].ok)
    <3>1. field' = field
      BY <1>1, <2>1 DEF Shown
    <3> QED BY <1>1, <3>1 DEF ILock, IPanels
  <2>2. CASE IsLock(s) /\ thread[s].ok
    <3> PICK f : f = field
      OBVIOUS
    <3> PICK c, p : c = thread[s].args.chan /\ p = [sweep |-> thread[s].file, chan |-> thread[s].args.chan]
      OBVIOUS
    <3>1. field' = ToLocked(f, c, p)
      BY <1>1, <2>2, Zenon DEF Shown, ToLocked
    <3>2. Panels(f) /\ edits \in Nat
      BY DEF ILock, IPanels
    <3>3. field' = [host |-> f.host, chan |-> f.chan, valid |-> f.valid,
                    io |-> [dac1 |-> "PID", dac2 |-> f.io.dac2, pid_sel |-> c],
                    pid |-> [gains |-> f.pid.gains, point |-> p, en |-> TRUE]]
      BY <3>1, <3>2, LockedPanels
    <3>4. Panels(field')
      BY <3>2, <3>3 DEF Panels, Routing, Settings
    <3> QED BY <1>1, <3>2, <3>4 DEF IPanels
  <2> QED BY <2>1, <2>2
<1>7. IDevices'
  BY <1>1 DEF ILock, IDevices
<1>8. IShape'
  BY <1>1, <1>3, <1>4 DEF ILock, IShape, Shape
<1>9. IAlone'
  <2>1. ASSUME NEW u \in Slots, thread'[u].at /= "free", alone'[u]
        PROVE  /\ thread'[u].host = server'
               /\ \A v \in Slots \ {u} : thread'[v].at /= "free" => ~Disturbs(thread'[v].button)
    <3>1. u /= s
      BY <1>3, <1>4, <2>1
    <3>2. thread'[u] = thread[u] /\ alone[u] /\ thread[u].at /= "free"
      BY <1>4, <1>5, <2>1, <3>1
    <3>3. /\ thread[u].host = server
          /\ \A v \in Slots \ {u} : thread[v].at /= "free" => ~Disturbs(thread[v].button)
      BY <3>2 DEF ILock, IAlone
    <3> QED BY <1>1, <1>3, <1>4, <3>2, <3>3
  <2> QED BY <1>5, <2>1 DEF IAlone, Disturbs
<1>10. ASSUME NEW u \in Slots, IsLock(u)', alone'[u] PROVE Stage(u)'
  <2>1. u /= s
    BY <1>3, <1>4, <1>10 DEF IsLock
  <2>2. IsLock(u) /\ alone[u] /\ thread'[u] = thread[u]
    BY <1>4, <1>5, <1>10, <2>1 DEF IsLock
  <2>3. ~Disturbs(thread[s].button) /\ thread[u].host = server
    BY <1>2, <2>1, <2>2, OneLock DEF ILock
  <2>4. field' = field
    BY <1>1, <2>3 DEF Shown, IsLock, Disturbs
  <2>5. log[server] = u => log'[server] = u
    BY <1>1, <2>1 DEF ILock, IDevices
  <2>6. Stage(u)
    BY <2>2 DEF ILock, IStages
  <2> QED BY <1>1, <2>2, <2>3, <2>4, <2>5, <2>6, StageStays
<1> QED BY <1>6, <1>7, <1>8, <1>9, <1>10 DEF ILock, IStages

----------------------------------------------------------------------------
(* The theorems about a lock. *)

\* No lock has begun before the first click.
LEMMA InitLock == Init => ILock
<1> SUFFICES ASSUME Init PROVE ILock
  OBVIOUS
<1>1. IInv
  BY InitInv
<1>2. /\ thread = [s \in Slots |-> Idle] /\ alone = [s \in Slots |-> TRUE] /\ edits = 0 /\ server = field.host
      /\ dev = [h \in Hosts |-> [io |-> DefaultRouting, pid |-> DefaultPid]] /\ log = [h \in Hosts |-> Nobody]
  BY DEF Init
<1>3. \A s \in Slots : thread[s].at = "free"
  BY <1>2 DEF Idle
<1>4. IPanels
  <2>1. (CHOOSE h \in Hosts : TRUE) \in Hosts
    BY GuiAssumption
  <2>2. PICK h, c, v : h \in Hosts /\ field = [host |-> h, chan |-> c, valid |-> v, io |-> DefaultRouting, pid |-> DefaultPid]
    BY <2>1 DEF Init
  <2> QED BY <1>2, <2>2 DEF IPanels, Panels, Routing, Settings, DefaultRouting, DefaultPid
<1>5. IDevices
  BY <1>2, <1>4 DEF IPanels, Panels, IDevices, Device
<1>6. IShape /\ IAlone /\ IStages
  BY <1>2, <1>3 DEF IShape, IAlone, IStages, IsLock
<1> QED BY <1>1, <1>4, <1>5, <1>6 DEF ILock

\* A step of the persistent autolock begins a lock or none.
LEMMA TickKeepsLock ==
  ASSUME ILock, IInv', NEW old, NEW others,
         \/ _persist_tick(old, others)
         \/ Schedule(old, others) /\ UNCHANGED <<server, thread, alone>>
         \/ Relock(old, others),
         dev' = dev, log' = log, field' = field, edits' = edits
  PROVE  ILock'
<1>1. CASE thread' = thread /\ alone' = alone /\ server' = server
  BY <1>1, LockStays
<1>2. CASE Relock(old, others)
  <2>1. PICK s \in Free(Timed) : Begin(s, "persist")
    BY <1>2 DEF Relock
  <2>2. s \in Slots /\ thread[s].at = "free"
    BY <2>1 DEF Free, Slots
  <2> QED BY <2>1, <2>2, BeginKeepsLock
<1> QED BY <1>1, <1>2 DEF _persist_tick

\* Every step keeps the invariant.
LEMMA NextLock == ILock /\ [Next]_vars => ILock'
<1> SUFFICES ASSUME ILock, [Next]_vars PROVE ILock'
  OBVIOUS
<1>0. IInv'
  BY NextInv DEF ILock
<1>1. ASSUME NEW b \in Buttons, Click(b) PROVE ILock'
  <2>1. PICK s \in Free(Clicked) : Begin(s, b)
    BY <1>1 DEF Click
  <2>2. s \in Slots /\ thread[s].at = "free"
    BY <2>1 DEF Free, Slots
  <2>3. dev' = dev /\ log' = log /\ field' = field /\ edits' = edits
    BY <1>1 DEF Click, bounds
  <2> QED BY <1>0, <2>1, <2>2, <2>3, BeginKeepsLock
<1>2. CASE Edit
  BY <1>0, <1>2, EditKeepsLock
<1>3. CASE _on_reset_connection \/ Stop \/ UNCHANGED vars
  <2>1. /\ thread' = thread /\ dev' = dev /\ log' = log /\ alone' = alone
        /\ field' = field /\ edits' = edits /\ server' = server
    BY <1>3 DEF _on_reset_connection, Stop, vars, bounds
  <2> QED BY <1>0, <2>1, LockStays
<1>4. CASE Fires \/ OrphanFires
  <2>1. dev' = dev /\ log' = log /\ field' = field /\ edits' = edits
    BY <1>4 DEF Fires, OrphanFires, bounds
  <2>2. _persist_tick("fired", orphans) \/ _persist_tick(timer, orphans - 1)
    BY <1>4 DEF Fires, OrphanFires
  <2> QED BY <1>0, <2>1, <2>2, TickKeepsLock
<1>5. CASE Start
  <2>1. dev' = dev /\ log' = log /\ field' = field /\ edits' = edits
    BY <1>5 DEF Start, bounds
  <2>2. (Schedule(timer, orphans) /\ UNCHANGED <<server, thread, alone>>) \/ Relock(timer, orphans)
    BY <1>5 DEF Start
  <2> QED BY <1>0, <2>1, <2>2, TickKeepsLock
<1>6. CASE Callback
  BY <1>0, <1>6, CallbackKeepsLock
<1>7. ASSUME NEW s \in Slots, execute_cmd(s) \/ Fetch(s) \/ Hang(s) \/ Post(s) PROVE ILock'
  BY <1>0, <1>7, ExecuteKeepsLock, FetchKeepsLock, HangKeepsLock, PostKeepsLock
<1> QED BY <1>1, <1>2, <1>3, <1>4, <1>5, <1>6, <1>7 DEF Next

\* Only the callback ends a thread.
LEMMA OnlyCallbackEnds ==
  ASSUME IInv, Next, NEW s \in Slots, thread[s].at /= "free", thread'[s].at = "free"
  PROVE  Callback
<1>0. IThread
  BY DEF IInv
<1>1. ASSUME NEW u \in Slots, NEW r, r.at /= "free", thread' = [thread EXCEPT ![u] = r]
      PROVE  FALSE
  BY <1>0, <1>1 DEF IThread
<1>2. ASSUME NEW u \in Slots, NEW r, Follows(r, thread[u]), thread' = [thread EXCEPT ![u] = r]
      PROVE  FALSE
  BY <1>1, <1>2 DEF Follows
<1>3. ASSUME NEW slots, slots \subseteq Slots, NEW u \in Free(slots), NEW b, Begin(u, b)
      PROVE  FALSE
  <2> PICK t : t = [at |-> IF b \in {"autolock", "persist"} THEN "sweep" ELSE "call", button |-> b, args |-> Args(b),
                    file |-> Nobody, ok |-> TRUE, host |-> field.host, since |-> edits]
    OBVIOUS
  <2>1. thread' = [thread EXCEPT ![u] = t]
    BY <1>3, Zenon DEF Begin
  <2>2. t.at /= "free" /\ u \in Slots
    BY <1>3 DEF Free
  <2> QED BY <1>1, <2>1, <2>2
<1>4. ASSUME NEW b \in Buttons, Click(b) PROVE FALSE
  BY <1>3, <1>4 DEF Click, Slots
<1>5. ASSUME NEW old, NEW others, Relock(old, others) PROVE FALSE
  BY <1>3, <1>5 DEF Relock, Slots
<1>6. thread' /= thread
  OBVIOUS
<1>7. ASSUME NEW u \in Slots, execute_cmd(u) \/ Fetch(u) \/ Hang(u) PROVE FALSE
  BY <1>2, <1>7, ThreadGoes
<1>8. ASSUME NEW u \in Slots, Post(u) PROVE FALSE
  <2>1. thread[u].at = "post" /\ thread' = [thread EXCEPT ![u].at = "posted"] /\ ThreadOK(thread[u])
    BY <1>0, <1>8 DEF Post, IThread
  <2>2. thread' = [thread EXCEPT ![u] = [thread[u] EXCEPT !.at = "posted"]]
    BY <2>1, Zenon
  <2>3. Follows([thread[u] EXCEPT !.at = "posted"], thread[u])
    BY <2>1, SetAt
  <2> QED BY <1>2, <2>2, <2>3, Zenon
<1>9. ~Edit /\ ~_on_reset_connection /\ ~Stop
  BY <1>6 DEF Edit, _on_reset_connection, Stop
<1>10. ~Start /\ ~Fires /\ ~OrphanFires
  BY <1>5, <1>6 DEF Start, Fires, OrphanFires, _persist_tick
<1> QED BY <1>4, <1>7, <1>8, <1>9, <1>10 DEF Next

\* When a lock is reported by a thread that no other came between, the device it was
\* started for has the routing and the settings of one lock, whatever the hosts, the
\* captures and the edits meanwhile (_autolock_bg).
THEOREM Whole == Spec => []LockIsWhole
<1>1. ILock => LockIsWhole
  <2> SUFFICES ASSUME ILock, NEW s \in Slots, IsLock(s), thread[s].at \in {"post", "posted"}, thread[s].ok, alone[s]
               PROVE  LET d == dev[thread[s].host]
                      IN  /\ d.io.dac1 = "PID" /\ d.io.pid_sel = thread[s].args.chan
                          /\ d.pid.point = [sweep |-> s, chan |-> thread[s].args.chan] /\ d.pid.en
    BY DEF LockIsWhole
  <2> PICK d : d = dev[thread[s].host]
    OBVIOUS
  <2>1. thread[s].file = s /\ RoutingOf(thread[s], d.io) /\ HeldOf(thread[s], d.pid)
    BY DEF ILock, IStages, Stage
  <2>2. d.io.dac1 = "PID" /\ d.io.pid_sel = thread[s].args.chan
    BY <2>1 DEF RoutingOf
  <2>3. d.pid.point = [sweep |-> s, chan |-> thread[s].args.chan] /\ d.pid.en = TRUE
    BY <2>1 DEF HeldOf
  <2> QED BY <2>2, <2>3
<1> QED BY <1>1, InitLock, NextLock, PTL DEF Spec

\* After the callback of such a lock the panels show what the device holds, if no field
\* was touched since the lock began, gains past their ranges excepted, of which the device
\* has the end (_autolock_bg and the on_ok of _on_autolock and _persist_tick, cmd_set_pid).
THEOREM Agree == Spec => PanelsAgree
<1>1. ILock /\ [Next]_vars =>
        [\A s \in Slots :
           IsLock(s) /\ thread[s].ok /\ alone[s] /\ thread[s].since = edits /\ thread'[s].at = "free" =>
             field'.io = dev[thread[s].host].io /\ Held(field'.pid) = dev[thread[s].host].pid]_vars
  <2> SUFFICES ASSUME ILock, Next, NEW s \in Slots,
                      IsLock(s), thread[s].ok, alone[s], thread[s].since = edits, thread'[s].at = "free"
               PROVE  field'.io = dev[thread[s].host].io /\ Held(field'.pid) = dev[thread[s].host].pid
    BY DEF vars
  <2>1. IThread /\ thread[s].at /= "free"
    BY DEF ILock, IInv, IsLock
  <2>2. Callback
    BY <2>1, OnlyCallbackEnds DEF ILock
  <2>3. s = Head(events) /\ thread[s].at = "posted" /\ field' = Shown(s)
    <3> PICK u : u = Head(events)
      OBVIOUS
    <3>1. thread' = [thread EXCEPT ![u] = Idle] /\ events /= <<>> /\ field' = Shown(u)
      BY <2>2 DEF Callback
    <3>2. u = s
      BY <2>1, <3>1 DEF IThread
    <3>3. events[1] = u /\ 1 \in DOMAIN events
      BY <3>1 DEF ILock, IInv, IEvents
    <3> QED BY <3>1, <3>2, <3>3 DEF ILock, IInv, IEvents
  <2> PICK f, c, p, d : /\ f = field /\ c = thread[s].args.chan /\ d = dev[thread[s].host]
                        /\ p = [sweep |-> thread[s].file, chan |-> thread[s].args.chan]
    OBVIOUS
  <2>4. RoutingOf(thread[s], d.io) /\ HeldOf(thread[s], d.pid)
    BY <2>3 DEF ILock, IStages, Stage
  <2>5. field' = ToLocked(f, c, p)
    BY <2>3, Zenon DEF Shown, ToLocked
  <2>6. /\ field'.io = [dac1 |-> "PID", dac2 |-> f.io.dac2, pid_sel |-> c]
        /\ field'.pid = [gains |-> f.pid.gains, point |-> p, en |-> TRUE]
    <3>1. Panels(f)
      BY DEF ILock, IPanels
    <3>2. field' = [host |-> f.host, chan |-> f.chan, valid |-> f.valid,
                    io |-> [dac1 |-> "PID", dac2 |-> f.io.dac2, pid_sel |-> c],
                    pid |-> [gains |-> f.pid.gains, point |-> p, en |-> TRUE]]
      BY <2>5, <3>1, LockedPanels
    <3> QED BY <3>2
  <2>7. field'.io = d.io
    BY <2>4, <2>6 DEF RoutingOf
  <2>8. Held(field'.pid) = d.pid
    <3>1. Held(field'.pid) = [gains |-> Clamped(f.pid.gains), point |-> p, en |-> TRUE]
      <4>1. PICK b, gains : b = field'.pid /\ gains = f.pid.gains
        OBVIOUS
      <4>2. b = [gains |-> gains, point |-> p, en |-> TRUE]
        BY <2>6, <4>1
      <4>3. Held(b) = [gains |-> Clamped(gains), point |-> p, en |-> TRUE]
        BY <4>2, HeldIs, Zenon
      <4> QED BY <4>1, <4>3
    <3> QED BY <2>4, <3>1 DEF HeldOf
  <2> QED BY <2>7, <2>8
<1> QED BY <1>1, InitLock, NextLock, PTL DEF Spec, PanelsAgree

====
