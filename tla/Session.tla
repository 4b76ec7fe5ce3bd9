---- MODULE Session ----
(***************************************************************************)
(* The calls of the GUI and the server that answers them: execute_cmd and  *)
(* api_get_frame of client/pdh_api/api.py, each call in a thread of its    *)
(* own (gui.py), and the accept loop of core/sw/server.c, which serves one *)
(* connection at a time and one command a connection.                      *)
(*                                                                         *)
(* A call is named by the order in which it takes _api_lock.  The lock is  *)
(* held over the exchange with the server; the file a get_frame leaves on  *)
(* the server, dma_log.csv, is fetched after it is released.  A file is    *)
(* the set of the calls whose rows it holds, empty while it is written;    *)
(* local is the file of one frame code (api.py names it dma_<code>.csv).   *)
(*                                                                         *)
(* The backlog of the listening socket, the connection and the SFTP        *)
(* transfer are external: connections queue in order, a request (as much   *)
(* of it as one read takes) and a reply each arrive whole, and a transfer  *)
(* reads and writes piece by piece.                                        *)
(***************************************************************************)
EXTENDS Integers, Sequences

CONSTANTS
  MAX_CALLS,     \* bound: calls in a behaviour
  BACKLOG,       \* connections that may wait to be accepted
  PIECES         \* pieces in which a file is fetched

ASSUME SessionAssumption ==
  /\ MAX_CALLS \in Nat \ {0}
  /\ BACKLOG \in Nat \ {0}
  /\ PIECES \in Nat \ {0}

Calls == 1 .. MAX_CALLS
None == 0

\* What a call sends: get_frame, a set_fir longer than the server's one read, which is
\* cut before its last argument, or any other command, which is short and complete.
Kinds == {"get_frame", "cut", "other"}

VARIABLES
  pc, kind, buffer, pieces, data,  \* of every call: step, command, piece of the file in
                                   \* hand, pieces fetched, result
  begun, lock,                     \* calls begun; the holder of _api_lock
  alone,                           \* history: calls that no other overlapped
  backlog, sent, hung,             \* connections waiting; requests sent; client ends closed
  reply,                           \* status that reached the client, if any
  srv, served, func_status,        \* server: step, connection, status of the handler
  executed,                        \* history: calls in the order they were executed
  remote, local                    \* dma_log.csv on the server and on the client

calls == <<pc, kind, buffer, pieces, data, begun, lock, alone>>
conns == <<backlog, sent, hung, reply>>
loop == <<srv, served, func_status, executed>>
vars == <<calls, conns, loop, remote, local>>

Fetching == {"open", "read", "write", "load"}
Ended == {"returned", "failed"}
Active == {c \in 1 .. begun : pc[c] \notin Ended}

----------------------------------------------------------------------------
(* execute_cmd *)

\* Mutant: calls are not serialised.
BeginUnlocked(k) ==
  /\ begun < MAX_CALLS
  /\ begun' = begun + 1 /\ lock' = begun'
  /\ pc' = [pc EXCEPT ![begun'] = "connect"] /\ kind' = [kind EXCEPT ![begun'] = k]
  /\ alone' = IF Active = {} THEN alone \cup {begun'} ELSE alone \ Active
  /\ UNCHANGED <<buffer, pieces, data, conns, loop, remote, local>>

Begin(k) ==
  /\ lock = None /\ begun < MAX_CALLS
  /\ begun' = begun + 1 /\ lock' = begun'
  /\ pc' = [pc EXCEPT ![begun'] = "connect"] /\ kind' = [kind EXCEPT ![begun'] = k]
  /\ alone' = IF Active = {} THEN alone \cup {begun'} ELSE alone \ Active
  /\ UNCHANGED <<buffer, pieces, data, conns, loop, remote, local>>

Goto(c, label) == pc' = [pc EXCEPT ![c] = label]

Connect(c) ==
  /\ pc[c] = "connect" /\ Len(backlog) < BACKLOG
  /\ backlog' = Append(backlog, c)
  /\ Goto(c, "send")
  /\ UNCHANGED <<kind, buffer, pieces, data, begun, lock, alone,
                 sent, hung, reply, loop, remote, local>>

Send(c) ==
  /\ pc[c] = "send"
  /\ sent' = sent \cup {c}
  /\ Goto(c, "recv")
  /\ UNCHANGED <<kind, buffer, pieces, data, begun, lock, alone,
                 backlog, hung, reply, loop, remote, local>>

\* The status is checked by the caller (api_cmd), and the file fetched, when the
\* lock has been released.
Recv(c) ==
  /\ pc[c] = "recv" /\ reply[c] /= "none"
  /\ Goto(c, IF reply[c] /= "ok" THEN "failed"
             ELSE IF kind[c] = "get_frame" THEN "open" ELSE "returned")
  /\ lock' = None /\ hung' = hung \cup {c}
  /\ UNCHANGED <<kind, buffer, pieces, data, begun, alone,
                 backlog, sent, reply, loop, remote, local>>

\* Mutant: the exception leaves the lock held.
TimeoutKeepsLock(c) ==
  /\ pc[c] \in {"connect", "recv"} /\ reply[c] = "none"
  /\ Goto(c, "failed")
  /\ hung' = hung \cup {c}
  /\ UNCHANGED <<kind, buffer, pieces, data, begun, lock, alone,
                 backlog, sent, reply, loop, remote, local>>

\* CMD_TIMEOUT_S: the call raises, its socket is closed and the lock released; what
\* it has sent stays with the server.
Timeout(c) ==
  /\ pc[c] \in {"connect", "recv"} /\ reply[c] = "none"
  /\ Goto(c, "failed")
  /\ lock' = None /\ hung' = hung \cup {c}
  /\ UNCHANGED <<kind, buffer, pieces, data, begun, alone,
                 backlog, sent, reply, loop, remote, local>>

----------------------------------------------------------------------------
(* _ssh_fetch_csv, and the loading of the local file. *)

Fetch(c, label) ==
  /\ Goto(c, label)
  /\ UNCHANGED <<kind, begun, lock, alone, conns, loop, remote>>

Open(c) ==
  /\ pc[c] = "open" /\ Fetch(c, "read")
  /\ local' = {}
  /\ UNCHANGED <<buffer, pieces, data>>

ReadPiece(c) ==
  /\ pc[c] = "read" /\ Fetch(c, "write")
  /\ buffer' = [buffer EXCEPT ![c] = remote]
  /\ UNCHANGED <<pieces, data, local>>

WritePiece(c) ==
  /\ pc[c] = "write"
  /\ local' = local \cup buffer[c]
  /\ pieces' = [pieces EXCEPT ![c] = @ + 1]
  /\ Fetch(c, IF pieces[c] + 1 = PIECES THEN "load" ELSE "read")
  /\ UNCHANGED <<buffer, data>>

Load(c) ==
  /\ pc[c] = "load" /\ Fetch(c, "returned")
  /\ data' = [data EXCEPT ![c] = local]
  /\ UNCHANGED <<buffer, pieces, local>>

FetchFails(c) ==
  /\ pc[c] \in Fetching /\ Fetch(c, "failed")
  /\ UNCHANGED <<buffer, pieces, data, local>>

\* The GUI is closed and started again: its threads end, its sockets close, the
\* new process has a new lock, and the server goes on.
RestartGui ==
  /\ Active /= {}
  /\ pc' = [c \in Calls |-> IF c \in Active THEN "failed" ELSE pc[c]]
  /\ lock' = None /\ hung' = hung \cup Active
  /\ UNCHANGED <<kind, buffer, pieces, data, begun, alone,
                 backlog, sent, reply, loop, remote, local>>

----------------------------------------------------------------------------
(* server.c *)

Accept ==
  /\ srv = "accept" /\ backlog /= <<>>
  /\ served' = Head(backlog) /\ backlog' = Tail(backlog)
  /\ srv' = "read"
  /\ UNCHANGED <<calls, sent, hung, reply, func_status, executed, remote, local>>

Read ==
  /\ srv = "read" /\ served \in sent
  /\ srv' = "dispatch"
  /\ UNCHANGED <<calls, conns, served, func_status, executed, remote, local>>

\* Mutant: the end of a connection that carried nothing is not noticed.
ReadEofWaits ==
  /\ srv = "read" /\ served \in hung \ sent
  /\ UNCHANGED vars

ReadEof ==
  /\ srv = "read" /\ served \in hung \ sent
  /\ srv' = "accept" /\ served' = None
  /\ UNCHANGED <<calls, conns, func_status, executed, remote, local>>

\* A request that load_context cannot parse gets no answer: its connection is closed,
\* which the caller reads as a reply without a status.
LoadFails ==
  /\ srv = "read" /\ served \in sent
  /\ reply' = IF served \in hung THEN reply ELSE [reply EXCEPT ![served] = "error"]
  /\ srv' = "accept" /\ served' = None
  /\ UNCHANGED <<calls, backlog, sent, hung, func_status, executed, remote, local>>

Handled(status) == func_status' = status /\ executed' = Append(executed, served)

\* Every command but get_frame (all that api.py sends are in gCmds); a handler refuses
\* what it cannot execute.
Dispatch ==
  /\ srv = "dispatch" /\ kind[served] = "other" /\ srv' = "reply"
  /\ \E status \in {"ok", "error"} : Handled(status)
  /\ UNCHANGED <<calls, conns, served, remote, local>>

\* A command whose arguments are not all there: no handler runs, and the status that is
\* sent is the 0 that func_status starts with.
DispatchFails ==
  /\ srv = "dispatch" /\ kind[served] = "cut" /\ srv' = "reply"
  /\ func_status' = "ok"
  /\ UNCHANGED <<calls, conns, served, executed, remote, local>>

\* cmd_get_frame opens the file when the capture is over, in vain or emptying it,
\* and then writes it unless the callback was wrong.
FrameOpen ==
  /\ srv = "dispatch" /\ kind[served] = "get_frame"
  /\ \/ \E status \in {"ok", "error"} :
          Handled(status) /\ remote' = {} /\ srv' = "frame"
     \/ Handled("error") /\ UNCHANGED remote /\ srv' = "reply"
  /\ UNCHANGED <<calls, conns, served, local>>

\* Mutant: the reply overtakes the closing of the file.
FrameUnflushed ==
  /\ srv = "frame" /\ srv' = "reply"
  /\ UNCHANGED <<calls, conns, served, func_status, executed, remote, local>>

FrameWrite ==
  /\ srv = "frame" /\ srv' = "reply"
  /\ remote' = IF func_status = "ok" THEN {served} ELSE {}
  /\ UNCHANGED <<calls, conns, served, func_status, executed, local>>

\* Mutant: the reply goes to the connection that came last.
ReplyToLast ==
  /\ srv = "reply"
  /\ reply' = IF begun \in hung THEN reply ELSE [reply EXCEPT ![begun] = func_status]
  /\ srv' = "accept" /\ served' = None
  /\ UNCHANGED <<calls, backlog, sent, hung, func_status, executed, remote, local>>

Reply ==
  /\ srv = "reply"
  /\ reply' = IF served \in hung THEN reply ELSE [reply EXCEPT ![served] = func_status]
  /\ srv' = "accept" /\ served' = None
  /\ UNCHANGED <<calls, backlog, sent, hung, func_status, executed, remote, local>>

----------------------------------------------------------------------------
Init ==
  /\ pc = [c \in Calls |-> "new"] /\ kind = [c \in Calls |-> "other"]
  /\ buffer = [c \in Calls |-> {}] /\ pieces = [c \in Calls |-> 0]
  /\ data = [c \in Calls |-> {}]
  /\ begun = 0 /\ lock = None /\ alone = {}
  /\ backlog = <<>> /\ sent = {} /\ hung = {} /\ reply = [c \in Calls |-> "none"]
  /\ srv = "accept" /\ served = None /\ func_status = "ok" /\ executed = <<>>
  /\ remote = {} /\ local = {}

Client(c) ==
  \/ Connect(c) \/ Send(c) \/ Recv(c) \/ Timeout(c)
  \/ Open(c) \/ ReadPiece(c) \/ WritePiece(c) \/ Load(c) \/ FetchFails(c)

Server ==
  \/ Accept \/ Read \/ ReadEof \/ LoadFails
  \/ Dispatch \/ DispatchFails \/ FrameOpen \/ FrameWrite \/ Reply

Next ==
  \/ \E k \in Kinds : Begin(k)
  \/ \E c \in Calls : Client(c)
  \/ RestartGui
  \/ Server

Spec == Init /\ [][Next]_vars

\* A call goes on or times out, and the server goes on with the connection it has.
FairSpec ==
  /\ Spec
  /\ \A c \in Calls : WF_vars(Send(c)) /\ WF_vars(Connect(c) \/ Recv(c) \/ Timeout(c))
  /\ WF_vars(Server)

----------------------------------------------------------------------------
(* Properties. *)

\* Commands reach the FPGA in the order in which the threads took the lock and each
\* at most once, however many calls timed out and left theirs with the server.
InCallOrder ==
  \A i, j \in DOMAIN executed : i < j => executed[i] < executed[j]

\* A call that got status 0 got it from the execution of its own command, unless its
\* request was cut: then the status says nothing, and the command is not executed at all.
Executed(c) == \E i \in DOMAIN executed : executed[i] = c
OkMeansExecuted ==
  \A c \in Calls :
    pc[c] \in Fetching \cup {"returned"} => (Executed(c) <=> kind[c] /= "cut")

\* A get_frame that no other call overlapped returns its own capture and nothing
\* else, even when earlier ones that were given up are executed meanwhile.
AloneGetsOwn ==
  \A c \in alone : pc[c] = "returned" /\ kind[c] = "get_frame" => data[c] = {c}

\* The lock is always given back: by an answer, a refusal or a timeout.
LockComesFree == lock /= None ~> lock = None

\* The server always comes back to accept, also from a client that went away.
ServerComesBack == srv /= "accept" ~> srv = "accept"

====
