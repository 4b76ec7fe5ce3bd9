---- MODULE Gui ----
(***************************************************************************)
(* The event loop of the GUI (client/gui.py) and the threads run_in_bg     *)
(* starts: several calls of several panels under way at once, the          *)
(* autolock as the sequence of commands it is, the persistent autolock     *)
(* with its timers, and the address of the server that all of them share.  *)
(*                                                                         *)
(* execute_cmd holds _api_lock (client/pdh_api/api.py), so a command is    *)
(* one step; what it may do to a device is reduced to the routing and the  *)
(* PID settings a lock consists of.  Client follows one call in detail.    *)
(***************************************************************************)
EXTENDS Integers, Sequences, FiniteSets

CONSTANTS
  Hosts,           \* addresses that may be entered
  Channels,        \* channels to lock on
  Buttons,         \* of "autolock", "io", "pid", "reset", "capture"
  Editable,        \* of "host", "chan", "dac2", "gains", "valid": fields that are changed
  Clicked, Timed,  \* slots for the threads started by a click, and by a timer (integers)
  MAX_EDITS,       \* bound: changes of a field
  MAX_RESETS,      \* bound: presses of Reset Connection
  MAX_CHAINS,      \* bound: timers that have lost their id
  MAX_HANGS        \* bound: file transfers that never end

Slots == Clicked \cup Timed

ASSUME GuiAssumption ==
  /\ IsFiniteSet(Slots) /\ Slots \subseteq Nat \ {0} /\ Clicked \cap Timed = {}
  /\ Hosts /= {} /\ Channels /= {}
  /\ Buttons \subseteq {"autolock", "io", "pid", "reset", "capture"}
  /\ {MAX_EDITS, MAX_RESETS, MAX_CHAINS, MAX_HANGS} \subseteq Nat

VARIABLES
  server,                     \* SERVER_IP
  field,                      \* what the panels show
  busy,                       \* buttons that are disabled
  thread,                     \* per slot: [at, ...]
  events,                     \* callbacks due in the event loop
  running, pbusy, timer, orphans,   \* the persistent autolock: its flags, its timer, and those without an id
  dev, log,                   \* per host: the registers, and whose sweep_log.csv it holds
  edits, resets, hangs,
  alone                       \* history: threads no other has come between

vars == <<server, field, busy, thread, events, running, pbusy, timer, orphans, dev, log, edits, resets, hangs, alone>>
persist == <<running, pbusy, timer, orphans>>
bounds == <<edits, resets, hangs>>

----------------------------------------------------------------------------
(* Values. *)

\* A lock point is known by the sweep and the channel it was found in.
Nobody == 0        \* a device that has not swept
Partial == -1      \* a file that another sweep is being written to
Past == -2         \* a sweep of a thread that has ended
NoPoint == [sweep |-> Nobody, chan |-> "none"]

DefaultRouting == [dac1 |-> "REGISTER", dac2 |-> "REGISTER", pid_sel |-> "none"]
DefaultPid == [gains |-> "A", point |-> NoPoint, en |-> FALSE]

\* What the fields of the PID panel may hold: kp to gain as one value, sp, bias and egain
\* as the lock point they come from.  A field may be past the end of its range, or no
\* number at all.
InRange == {"A", "B"}
Gains == InRange \cup {"beyond", "invalid"}

\* cmd_set_pid: what is past the end of its range becomes the end, without an error.
Clamped(gains) == IF gains = "beyond" THEN "end" ELSE gains
Held(pid) == [pid EXCEPT !.gains = Clamped(pid.gains)]

Free(slots) == {s \in slots : thread[s].at = "free"}
Idle == [at |-> "free"]
InFlight(b) == {s \in Slots : thread[s].at /= "free" /\ thread[s].button = b}

IsLock(s) == thread[s].at /= "free" /\ thread[s].button \in {"autolock", "persist"}

\* Threads that change the routing, the PID or the last sweep of a device.
Disturbs(b) == b \in {"autolock", "persist", "io", "pid", "reset"}

\* Starting a thread, or leaving it the address of another host, comes between others.
Interrupted(s, b, host) ==
  [t \in Slots |->
     IF t = s THEN \A u \in Slots \ {s} : thread[u].at /= "free" => ~Disturbs(thread[u].button)
     ELSE alone[t] /\ (thread[t].at = "free" \/ (~Disturbs(b) /\ thread[t].host = host))]

----------------------------------------------------------------------------
(* The event loop. *)

\* Arguments are read from the fields when the button is pressed; an autolock
\* reads the source of DAC 2 and the gains later.
Args(b) ==
  CASE b \in {"autolock", "persist"} -> [chan |-> field.chan]
    [] b = "io"  -> field.io
    [] b = "pid" -> field.pid
    [] OTHER     -> [none |-> 0]

\* _prep_call and run_in_bg.
Begin(s, b) ==
  LET lock == b \in {"autolock", "persist"}
  IN  /\ server' = field.host
      /\ thread' = [thread EXCEPT ![s] = [at |-> IF lock THEN "sweep" ELSE "call", button |-> b, args |-> Args(b),
                                          file |-> Nobody, ok |-> TRUE, host |-> field.host, since |-> edits]]
      /\ alone' = Interrupted(s, b, field.host)

\* Fields that do not parse or are out of range send nothing.
Click(b) ==
  /\ b \notin busy
  /\ b = "autolock" => field.valid
  /\ b = "pid" => field.pid.gains \in InRange
  /\ \E s \in Free(Clicked) : (\A t \in Free(Clicked) : s <= t) /\ Begin(s, b)
  /\ busy' = busy \cup {b}
  /\ UNCHANGED <<field, events, persist, dev, log, bounds>>

\* The user's hand on a field.
Edit ==
  /\ edits < MAX_EDITS /\ edits' = edits + 1
  /\ \E f \in Editable :
       \/ f = "host"  /\ \E h \in Hosts : field' = [field EXCEPT !.host = h]
       \/ f = "chan"  /\ \E c \in Channels : field' = [field EXCEPT !.chan = c]
       \/ f = "dac2"  /\ field' = [field EXCEPT !.io.dac2 = "PID"]
       \/ f = "gains" /\ \E g \in Gains : field' = [field EXCEPT !.pid.gains = g]
       \/ f = "valid" /\ field' = [field EXCEPT !.valid = ~field.valid]
  /\ field' /= field
  /\ UNCHANGED <<server, busy, thread, events, persist, dev, log, resets, hangs, alone>>

_on_reset_connection ==
  /\ resets < MAX_RESETS /\ resets' = resets + 1
  /\ busy' = {}
  /\ UNCHANGED <<server, field, thread, events, persist, dev, log, edits, hangs, alone>>

----------------------------------------------------------------------------
(* The persistent autolock.  Its timer is pending, fired or none; a timer  *)
(* whose id is overwritten is an orphan: it fires, and nothing cancels it. *)

\* after(ms, _persist_tick)
Schedule(old, others) ==
  /\ timer' = "pending"
  /\ orphans' = IF old = "pending" THEN others + 1 ELSE others

Relock(old, others) ==
  /\ pbusy' = TRUE /\ timer' = old /\ orphans' = others
  /\ \E s \in Free(Timed) : (\A t \in Free(Timed) : s <= t) /\ Begin(s, "persist")

\* Nothing when stopped; otherwise wait on, stop at fields that do not parse, or relock.
_persist_tick(old, others) ==
  \/ /\ ~running
     /\ timer' = old /\ orphans' = others /\ UNCHANGED <<server, thread, alone, running, pbusy>>
  \/ /\ running /\ pbusy
     /\ Schedule(old, others) /\ UNCHANGED <<server, thread, alone, running, pbusy>>
  \/ /\ running /\ ~pbusy /\ ~field.valid
     /\ running' = FALSE /\ timer' = old /\ orphans' = others /\ UNCHANGED <<server, thread, alone, pbusy>>
  \/ running /\ ~pbusy /\ field.valid /\ UNCHANGED running /\ Relock(old, others)

Fires ==
  /\ timer = "pending" /\ _persist_tick("fired", orphans)
  /\ UNCHANGED <<field, busy, events, dev, log, bounds>>

OrphanFires ==
  /\ orphans > 0 /\ _persist_tick(timer, orphans - 1)
  /\ UNCHANGED <<field, busy, events, dev, log, bounds>>

\* The first tick comes with the button.
Start ==
  /\ ~running /\ orphans < MAX_CHAINS /\ running' = TRUE
  /\ \/ pbusy /\ Schedule(timer, orphans) /\ UNCHANGED <<server, thread, alone, pbusy>>
     \/ ~pbusy /\ field.valid /\ Relock(timer, orphans)
  /\ UNCHANGED <<field, busy, events, dev, log, bounds>>

\* Mutant: stopping forgets the relock under way.
StopForgets ==
  /\ running /\ running' = FALSE /\ timer' = "none" /\ pbusy' = FALSE
  /\ UNCHANGED <<server, field, busy, thread, events, orphans, dev, log, bounds, alone>>

\* Only the timer whose id is known is cancelled.
Stop ==
  /\ running /\ running' = FALSE /\ timer' = "none"
  /\ UNCHANGED <<server, field, busy, thread, events, pbusy, orphans, dev, log, bounds, alone>>

----------------------------------------------------------------------------
(* The threads. *)

\* What a command may come to: done or not, answered in time or not.
Done(d, file) == {[dev |-> d, log |-> file, ok |-> ok] : ok \in BOOLEAN}
Failed(d) == {[dev |-> d, log |-> log[server], ok |-> FALSE]}

Routed(d, io) == Done([d EXCEPT !.io = io], log[server]) \cup Failed([io |-> DefaultRouting, pid |-> DefaultPid])

\* A sweep that cannot open its file leaves DAC 1 to the register; cmd_config_io may
\* reset the device and say so (Handlers).
Outcomes(s) ==
  LET t == thread[s]  d == dev[server]
  IN  Failed(d) \cup
      (CASE t.at = "sweep" -> Done(d, s) \cup Failed([d EXCEPT !.io.dac1 = "REGISTER"])
         [] t.at = "route" -> Routed(d, t.args.io)
         [] t.at = "set"   -> Done([d EXCEPT !.pid = Held(t.args.pid)], log[server])
         [] t.button = "io"    -> Routed(d, t.args)
         [] t.button = "pid"   -> Done([d EXCEPT !.pid = Held(t.args)], log[server])
         [] t.button = "reset" -> Done([io |-> DefaultRouting, pid |-> DefaultPid], log[server])
         [] OTHER              -> Done(d, log[server]))

Raised(t) == [t EXCEPT !.at = "post", !.ok = FALSE]

\* What a lock sends: the gains the panel shows, the lock point, enabled.
LockPid(t) == [gains |-> field.pid.gains, point |-> [sweep |-> t.file, chan |-> t.args.chan], en |-> TRUE]

\* After an answer: the next command, whose fields are read now, or the result.  Gains
\* that do not parse raise; whether they are in range nobody asks.
Answered(t) ==
  CASE t.at = "sweep" -> [t EXCEPT !.at = "fetch"]
    [] t.at = "route" -> IF field.pid.gains = "invalid" THEN Raised(t)
                         ELSE [t EXCEPT !.at = "set", !.args = [chan |-> t.args.chan, pid |-> LockPid(t)]]
    [] t.button = "capture" -> [t EXCEPT !.at = "fetch"]
    [] OTHER          -> [t EXCEPT !.at = "post"]

\* Mutant: the answer to the sweep is not looked at.
ExecuteUnchecked(s) ==
  /\ thread[s].at \in {"sweep", "route", "set", "call"}
  /\ \E o \in Outcomes(s) :
       /\ dev' = [dev EXCEPT ![server] = o.dev] /\ log' = [log EXCEPT ![server] = o.log]
       /\ thread' = [thread EXCEPT ![s] = IF o.ok \/ thread[s].at = "sweep" THEN Answered(thread[s]) ELSE Raised(thread[s])]
  /\ UNCHANGED <<server, field, busy, events, persist, bounds, alone>>

\* execute_cmd, at the address of the moment; an error ends the thread (api_cmd).
execute_cmd(s) ==
  /\ thread[s].at \in {"sweep", "route", "set", "call"}
  /\ \E o \in Outcomes(s) :
       /\ dev' = [dev EXCEPT ![server] = o.dev] /\ log' = [log EXCEPT ![server] = o.log]
       /\ thread' = [thread EXCEPT ![s] = IF o.ok THEN Answered(thread[s]) ELSE Raised(thread[s])]
  /\ UNCHANGED <<server, field, busy, events, persist, bounds, alone>>

\* The file, fetched at the address of the moment (_ssh_fetch_csv).  A capture shows it;
\* an autolock finds a lock point and reads the source of DAC 2 from its panel; or
\* something fails.
Fetched(s) ==
  ({log[server]} \ {Nobody}) \cup (IF \E t \in Slots \ {s} : thread[t].at = "sweep" THEN {Partial} ELSE {})

Fetch(s) ==
  /\ thread[s].at = "fetch"
  /\ \/ thread[s].button = "capture" /\ thread' = [thread EXCEPT ![s].at = "post"]
     \/ \E file \in IF IsLock(s) THEN Fetched(s) ELSE {} :
          LET chan == thread[s].args.chan
          IN  thread' = [thread EXCEPT ![s].at = "route", ![s].file = file,
                ![s].args = [chan |-> chan, io |-> [dac1 |-> "PID", dac2 |-> field.io.dac2, pid_sel |-> chan]]]
     \/ thread' = [thread EXCEPT ![s] = Raised(thread[s])]
  /\ UNCHANGED <<server, field, busy, events, persist, dev, log, bounds, alone>>

\* The file transfer has no timeout.
Hang(s) ==
  /\ thread[s].at = "fetch" /\ hangs < MAX_HANGS
  /\ hangs' = hangs + 1 /\ thread' = [thread EXCEPT ![s].at = "hung"]
  /\ UNCHANGED <<server, field, busy, events, persist, dev, log, edits, resets, alone>>

\* run_in_bg: after(0, ...)
Post(s) ==
  /\ thread[s].at = "post"
  /\ thread' = [thread EXCEPT ![s].at = "posted"] /\ events' = Append(events, s)
  /\ UNCHANGED <<server, field, busy, persist, dev, log, bounds, alone>>

----------------------------------------------------------------------------
(* The callbacks on_ok and on_err. *)

\* Mutant: the PID input of the routing panel is left.
ShownDacOnly(s) ==
  IF IsLock(s) /\ thread[s].ok
  THEN [field EXCEPT !.io.dac1 = "PID", !.pid.en = TRUE,
                     !.pid.point = [sweep |-> thread[s].file, chan |-> thread[s].args.chan]]
  ELSE field

\* A lock is shown in the panels it has overridden.
Shown(s) ==
  IF IsLock(s) /\ thread[s].ok
  THEN [field EXCEPT !.io.dac1 = "PID", !.io.pid_sel = thread[s].args.chan, !.pid.en = TRUE,
                     !.pid.point = [sweep |-> thread[s].file, chan |-> thread[s].args.chan]]
  ELSE field

\* Mutants: every callback unlocks every button; only on_ok unlocks.
UnbusyAll(s) == {}
UnbusyOnOk(s) == IF thread[s].ok THEN busy \ {thread[s].button} ELSE busy

_unbusy(s) == busy \ {thread[s].button}

\* Mutant: only on_ok sets the timer again.
RelockAfterOk(s) == running /\ thread[s].ok

RelockAfter(s) == running

Callback ==
  /\ events /= <<>>
  /\ LET s == Head(events)
     IN  /\ events' = Tail(events)
         /\ thread' = [thread EXCEPT ![s] = Idle] /\ alone' = [alone EXCEPT ![s] = TRUE]
         /\ field' = Shown(s)
         /\ busy' = _unbusy(s)
         /\ log' = [h \in Hosts |-> IF log[h] = s THEN Past ELSE log[h]]
         /\ IF thread[s].button = "persist"
            THEN /\ pbusy' = FALSE /\ UNCHANGED running
                 /\ IF RelockAfter(s) THEN Schedule(timer, orphans) ELSE UNCHANGED <<timer, orphans>>
            ELSE UNCHANGED persist
  /\ UNCHANGED <<server, dev, bounds>>

----------------------------------------------------------------------------
Init ==
  /\ field \in [host : {CHOOSE h \in Hosts : TRUE}, chan : {CHOOSE c \in Channels : TRUE}, valid : {TRUE},
                io : {DefaultRouting}, pid : {DefaultPid}]
  /\ server = field.host
  /\ busy = {} /\ events = <<>>
  /\ thread = [s \in Slots |-> Idle] /\ alone = [s \in Slots |-> TRUE]
  /\ running = FALSE /\ pbusy = FALSE /\ timer = "none" /\ orphans = 0
  /\ dev = [h \in Hosts |-> [io |-> DefaultRouting, pid |-> DefaultPid]]
  /\ log = [h \in Hosts |-> Nobody]
  /\ edits = 0 /\ resets = 0 /\ hangs = 0

Next ==
  \/ \E b \in Buttons : Click(b)
  \/ Edit \/ _on_reset_connection
  \/ Start \/ Stop \/ Fires \/ OrphanFires \/ Callback
  \/ \E s \in Slots : execute_cmd(s) \/ Fetch(s) \/ Hang(s) \/ Post(s)

\* The event loop runs on, timers fire, and a thread that may go on does: commands end
\* at CMD_TIMEOUT_S at the latest, and the lock they queue for is let go every time.
\* Nothing is assumed of the user, and no transfer that hangs ends.
Fairness ==
  /\ WF_vars(Callback) /\ WF_vars(Fires) /\ WF_vars(OrphanFires)
  /\ \A s \in Slots : WF_vars(execute_cmd(s)) /\ WF_vars(Fetch(s)) /\ WF_vars(Post(s))

Spec == Init /\ [][Next]_vars /\ Fairness

----------------------------------------------------------------------------
(* Properties. *)

\* When a lock is reported by a thread that no other came between, the device it was
\* started for has it whole: the routing and the PID settings of one lock, found in
\* the sweep of this thread, on the channel entered (_autolock_bg).  Captures, timed
\* out commands before it, and edits while it runs change nothing of that.
LockIsWhole ==
  \A s \in Slots :
    IsLock(s) /\ thread[s].at \in {"post", "posted"} /\ thread[s].ok /\ alone[s] =>
      LET d == dev[thread[s].host]
      IN  /\ d.io.dac1 = "PID" /\ d.io.pid_sel = thread[s].args.chan
          /\ d.pid.point = [sweep |-> s, chan |-> thread[s].args.chan] /\ d.pid.en

\* After the callback of such a lock the routing and PID panels show what the device
\* holds, if the user has not touched a field meanwhile: with gains in their ranges
\* pressing Apply then changes nothing (on_ok of _on_autolock and _persist_tick).  Gains
\* past the end of a range stay shown as entered, and the device holds the end.
PanelsAgree ==
  [][\A s \in Slots :
       IsLock(s) /\ thread[s].ok /\ alone[s] /\ thread[s].since = edits /\ thread'[s].at = "free" =>
         field'.io = dev[thread[s].host].io /\ Held(field'.pid) = dev[thread[s].host].pid]_vars

\* A button has one call under way, and one more for every press of Reset Connection:
\* the late callback of an unlocked call frees the button of the call that followed
\* it, but never more than once (_busy, _unbusy, unlock_all).
CallsPerButton ==
  \A b \in Buttons : Cardinality(InFlight(b)) + (IF b \in busy THEN 0 ELSE 1) <= 1 + resets

\* The persistent autolock has at most one relock under way, and knows whether it has,
\* however it is started and stopped and whatever timers are left over.
OnePersist == Cardinality(InFlight("persist")) = (IF pbusy THEN 1 ELSE 0)

\* A disabled button comes back, unless a file transfer of its call hangs.
ButtonComesBack ==
  \A b \in Buttons : b \in busy ~> (b \notin busy \/ \E s \in InFlight(b) : thread[s].at = "hung")

\* While it is not stopped, the persistent autolock sweeps again and again, unless a
\* file transfer of its own hangs.
KeepsRelocking ==
  running ~> (~running \/ \E s \in InFlight("persist") : thread[s].at \in {"sweep", "hung"})

====
