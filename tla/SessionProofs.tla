---- MODULE SessionProofs ----
(***************************************************************************)
(* Proofs about Session for any number of calls, any backlog and any       *)
(* number of pieces: the order of execution, and whose answer and whose    *)
(* file a call gets.                                                       *)
(***************************************************************************)
EXTENDS Session, TLAPS

----------------------------------------------------------------------------
(* The inductive invariant. *)

Exchanging == {"connect", "send", "recv"}
Labels == {"new"} \cup Exchanging \cup Fetching \cup Ended

IType ==
  /\ begun \in 0 .. MAX_CALLS
  /\ pc \in [Calls -> Labels] /\ kind \in [Calls -> Kinds]
  /\ reply \in [Calls -> {"none", "ok", "error"}]
  /\ buffer \in [Calls -> SUBSET Calls] /\ data \in [Calls -> SUBSET Calls]
  /\ pieces \in [Calls -> Nat]
  /\ remote \subseteq Calls /\ local \subseteq Calls /\ alone \subseteq 1 .. begun
  /\ backlog \in Seq(Calls) /\ executed \in Seq(Calls)
  /\ srv \in {"accept", "read", "dispatch", "frame", "reply"}
  /\ served \in Calls \cup {None} /\ (served = None <=> srv = "accept")
  /\ func_status \in {"ok", "error"}

\* Only the call that began last is exchanging, and it holds the lock.
ILock ==
  \A c \in Calls :
    /\ pc[c] = "new" <=> c > begun
    /\ pc[c] \in Exchanging => c = begun /\ lock = c

\* Executed, in execution, waiting, still to connect: an increasing line of calls.  A cut
\* request is answered without having been in execution.
Handling == srv = "frame" \/ (srv = "reply" /\ kind[served] /= "cut")
ILine ==
  /\ InCallOrder
  /\ \A i, j \in DOMAIN backlog : i < j => backlog[i] < backlog[j]
  /\ \A i \in DOMAIN executed, j \in DOMAIN backlog : executed[i] < backlog[j]
  /\ \A j \in DOMAIN backlog : served < backlog[j] /\ backlog[j] <= begun
  /\ served <= begun /\ \A i \in DOMAIN executed : executed[i] <= begun
  /\ srv /= "accept" /\ ~Handling => \A i \in DOMAIN executed : executed[i] < served
  /\ Handling => Len(executed) > 0 /\ executed[Len(executed)] = served
  /\ begun > 0 /\ pc[begun] = "connect" =>
       /\ served /= begun
       /\ \A j \in DOMAIN backlog : backlog[j] /= begun
       /\ \A i \in DOMAIN executed : executed[i] /= begun

\* Who has not been served has no reply; who is told of success has been executed.
IReply ==
  /\ \A c \in Calls : pc[c] \in {"new", "connect"} => reply[c] = "none"
  /\ \A j \in DOMAIN backlog : reply[backlog[j]] = "none"
  /\ served /= None => reply[served] = "none"
  /\ \A c \in Calls : reply[c] = "ok" => kind[c] = "cut" \/ Executed(c)
  /\ \A c \in Calls : pc[c] \in Fetching \cup {"returned"} => reply[c] = "ok"
  /\ \A c \in Calls : pc[c] \in Fetching => kind[c] = "get_frame"

\* A cut request is not executed; who is told of success came before all that wait.
IPast ==
  /\ srv = "frame" => kind[served] /= "cut"
  /\ \A i \in DOMAIN executed : kind[executed[i]] /= "cut"
  /\ \A c \in Calls : reply[c] = "ok" =>
       /\ served /= None => c < served
       /\ \A j \in DOMAIN backlog : c < backlog[j]

\* The last frame stays on the server until another call begins.
IRemote ==
  /\ srv = "reply" /\ func_status = "ok" /\ kind[served] = "get_frame" => remote = {served}
  /\ begun > 0 /\ kind[begun] = "get_frame" /\ reply[begun] = "ok" => remote = {begun}

\* A call that no other overlapped has the local file to itself.
Own(c) ==
  /\ c \in Active => Active = {c} /\ c = begun
  /\ pc[c] = "write" => buffer[c] = {c}
  /\ pc[c] \in {"read", "write"} => local \subseteq {c}
  /\ pc[c] = "load" => local = {c}
  /\ pc[c] = "returned" /\ kind[c] = "get_frame" => data[c] = {c}
IAlone == \A c \in alone : Own(c)

IInv == IType /\ ILock /\ ILine /\ IReply /\ IPast /\ IRemote /\ IAlone

----------------------------------------------------------------------------
(* Sequences. *)

\* What appending does to a sequence.
LEMMA AppendFacts ==
  ASSUME NEW S, NEW q \in Seq(S), NEW x \in S
  PROVE  /\ Append(q, x) \in Seq(S) /\ Append(q, x) /= <<>>
         /\ Len(q) \in Nat /\ DOMAIN q = 1 .. Len(q)
         /\ Len(Append(q, x)) = Len(q) + 1 /\ DOMAIN Append(q, x) = 1 .. Len(q) + 1
         /\ Append(q, x)[Len(q) + 1] = x /\ \A i \in DOMAIN q : Append(q, x)[i] = q[i]
OBVIOUS

\* What taking the head off does to a sequence.
LEMMA TailFacts ==
  ASSUME NEW S, NEW q \in Seq(S), q /= <<>>
  PROVE  /\ Head(q) \in S /\ Tail(q) \in Seq(S)
         /\ Len(q) \in Nat \ {0} /\ DOMAIN q = 1 .. Len(q) /\ Head(q) = q[1]
         /\ DOMAIN Tail(q) = 1 .. Len(q) - 1 /\ \A i \in DOMAIN Tail(q) : Tail(q)[i] = q[i + 1]
OBVIOUS

----------------------------------------------------------------------------
(* What a step moves, and what it leaves alone. *)

\* A label moves for one call only.
LEMMA Moves ==
  ASSUME IType, NEW c \in Calls, NEW label, Goto(c, label)
  PROVE  /\ pc'[c] = label /\ \A d \in Calls \ {c} : pc'[d] = pc[d]
         /\ label \in Labels => pc' \in [Calls -> Labels]
BY DEF Goto, IType

\* A step of a transfer takes its call on through it, or ends it.
LEMMA FetchMoves ==
  ASSUME NEW c \in Calls, Open(c) \/ ReadPiece(c) \/ WritePiece(c) \/ Load(c) \/ FetchFails(c)
  PROVE  /\ pc[c] \in Fetching /\ \E label \in Fetching \cup Ended : Goto(c, label)
         /\ UNCHANGED <<kind, begun, lock, alone, backlog, reply, srv, served, func_status, executed, remote>>
BY DEF Open, ReadPiece, WritePiece, Load, FetchFails, Fetch, Fetching, Ended, conns, loop

\* A call that goes on alone: neither the line nor the server moves, and no call
\* comes to connect.
Apart ==
  /\ UNCHANGED <<begun, backlog, executed, srv, served, func_status, kind, reply, remote>>
  /\ \A c \in Calls : pc'[c] \in {"new", "connect"} => pc'[c] = pc[c]

\* The steps of a call that leave the line alone.
LEMMA GoesApart ==
  ASSUME IType, NEW c \in Calls,
         \/ Send(c) \/ Recv(c) \/ Timeout(c)
         \/ Open(c) \/ ReadPiece(c) \/ WritePiece(c) \/ Load(c) \/ FetchFails(c)
  PROVE  Apart
<1>1. UNCHANGED <<begun, backlog, executed, srv, served, func_status, kind, reply, remote>>
  BY DEF Send, Recv, Timeout, Open, ReadPiece, WritePiece, Load, FetchFails, Fetch, conns, loop
<1>2. \E label \in Labels \ {"new", "connect"} : pc' = [pc EXCEPT ![c] = label]
  BY DEF Send, Recv, Timeout, Open, ReadPiece, WritePiece, Load, FetchFails, Fetch, Goto,
         Labels, Exchanging, Fetching, Ended
<1> QED BY <1>1, <1>2 DEF Apart, IType

\* A restart of the GUI leaves the line alone.
LEMMA RestartApart ==
  ASSUME IType, RestartGui
  PROVE  Apart
BY DEF Apart, RestartGui, IType, loop

----------------------------------------------------------------------------
(* One lemma for each part of the invariant. *)

\* The invariants of the line with the types of what is in it.
LEMMA Line ==
  ASSUME IInv
  PROVE  /\ ILine /\ begun \in Nat /\ served \in Nat /\ backlog \in Seq(Calls) /\ executed \in Seq(Calls)
         /\ DOMAIN backlog = 1 .. Len(backlog) /\ Len(backlog) \in Nat /\ \A j \in DOMAIN backlog : backlog[j] \in Nat
         /\ DOMAIN executed = 1 .. Len(executed) /\ Len(executed) \in Nat /\ \A i \in DOMAIN executed : executed[i] \in Nat
         /\ Calls \subseteq Nat \ {0} /\ begun \in Calls \cup {0}
<1>1. Calls \subseteq Nat \ {0} /\ (begun \in 0 .. MAX_CALLS => begun \in Calls \cup {0})
  BY SessionAssumption DEF Calls
<1>2. /\ ILine /\ begun \in Nat /\ served \in Nat /\ backlog \in Seq(Calls) /\ executed \in Seq(Calls)
  BY <1>1, SessionAssumption DEF IInv, IType, None
<1>3. ASSUME NEW q \in Seq(Calls)
      PROVE  DOMAIN q = 1 .. Len(q) /\ Len(q) \in Nat /\ \A i \in DOMAIN q : q[i] \in Nat
  <2>1. DOMAIN q = 1 .. Len(q) /\ Len(q) \in Nat /\ \A i \in DOMAIN q : q[i] \in Calls
    OBVIOUS
  <2> QED BY <1>1, <2>1
<1>4. begun \in Calls \cup {0}
  BY <1>1 DEF IInv, IType
<1> QED BY <1>1, <1>2, <1>3, <1>4

\* Every step keeps the types.
LEMMA TypeStep ==
  ASSUME IInv, [Next]_vars
  PROVE  IType'
<1> USE DEF IInv, IType, Labels, Exchanging, Fetching, Ended
<1>5. CASE DispatchFails
  BY <1>5 DEF DispatchFails, calls, conns
<1>1. ASSUME NEW k \in Kinds, Begin(k) PROVE IType'
  <2>1. begun' \in Calls /\ begun' = begun + 1 /\ begun' \in 0 .. MAX_CALLS
    BY <1>1, SessionAssumption DEF Begin, Calls
  <2>2. alone' \subseteq 1 .. begun'
    <3>1. alone' \subseteq alone \cup {begun'}
      BY <1>1 DEF Begin
    <3> QED BY <2>1, <3>1
  <2> QED BY <1>1, <2>1, <2>2 DEF Begin, conns, loop
<1>2. ASSUME NEW c \in Calls, Connect(c) PROVE IType'
  BY <1>2 DEF Connect, Goto, loop
<1>3. ASSUME NEW c \in Calls, Send(c) \/ Recv(c) \/ Timeout(c) PROVE IType'
  <2>1. UNCHANGED <<kind, buffer, pieces, data, begun, alone, backlog, reply, srv, served, func_status,
                    executed, remote, local>>
    BY <1>3 DEF Send, Recv, Timeout, loop
  <2>2. \E label \in Labels : Goto(c, label)
    BY <1>3 DEF Send, Recv, Timeout
  <2>3. pc' \in [Calls -> Labels]
    BY <2>2, Moves
  <2> QED BY <2>1, <2>3
<1>4. ASSUME NEW c \in Calls, Open(c) \/ ReadPiece(c) \/ FetchFails(c) \/ WritePiece(c) \/ Load(c)
      PROVE  IType'
  <2>1. pc' \in [Calls -> Labels]
    BY <1>4, FetchMoves, Moves
  <2>2. UNCHANGED <<kind, begun, alone, backlog, reply, srv, served, func_status, executed, remote>>
    BY <1>4, FetchMoves
  <2>3. buffer' \in [Calls -> SUBSET Calls] /\ pieces' \in [Calls -> Nat]
        /\ data' \in [Calls -> SUBSET Calls] /\ local' \subseteq Calls
    <3>1. CASE Open(c) \/ FetchFails(c)
      BY <3>1 DEF Open, FetchFails
    <3>2. CASE ReadPiece(c) \/ Load(c)
      BY <3>2 DEF ReadPiece, Load
    <3>3. CASE WritePiece(c)
      BY <3>3 DEF WritePiece
    <3> QED BY <1>4, <3>1, <3>2, <3>3
  <2> QED BY <2>1, <2>2, <2>3
<1>6. CASE RestartGui
  BY <1>6 DEF RestartGui, loop
<1>7. CASE Accept
  <2>1. /\ served' = Head(backlog) /\ backlog' = Tail(backlog) /\ srv' = "read" /\ backlog /= <<>>
        /\ UNCHANGED <<calls, reply, func_status, executed, remote, local>>
    BY <1>7 DEF Accept
  <2>2. served' \in Calls /\ served' /= None /\ backlog' \in Seq(Calls)
    BY <2>1, TailFacts, Line DEF None
  <2> QED BY <2>1, <2>2 DEF calls
<1>8. CASE Read \/ ReadEof \/ LoadFails \/ Reply
  BY <1>8 DEF Read, ReadEof, LoadFails, Reply, calls, conns, None, Calls
<1>9. CASE Dispatch
  BY <1>9 DEF Dispatch, Handled, calls, conns
<1>10. CASE FrameOpen
  <2>1. srv = "dispatch" /\ served \in Calls
    BY <1>10 DEF FrameOpen
  <2>2. executed' = Append(executed, served) /\ func_status' \in {"ok", "error"}
        /\ srv' \in {"frame", "reply"} /\ remote' \subseteq Calls
    BY <1>10 DEF FrameOpen, Handled
  <2>3. UNCHANGED <<calls, conns, served, local>>
    BY <1>10 DEF FrameOpen
  <2> QED BY <2>1, <2>2, <2>3 DEF calls, conns
<1>11. CASE FrameWrite
  BY <1>11 DEF FrameWrite, calls, conns
<1>12. CASE UNCHANGED vars
  BY <1>12 DEF vars, calls, conns, loop
<1> QED
  BY <1>1, <1>2, <1>3, <1>4, <1>5, <1>6, <1>7, <1>8, <1>9, <1>10, <1>11, <1>12 DEF Next, Client, Server

\* Every step leaves the lock with the call that exchanges.
LEMMA LockStep ==
  ASSUME IInv, [Next]_vars
  PROVE  ILock'
<1> USE SessionAssumption DEF IInv, IType, ILock, Labels, Exchanging, Fetching, Ended, Calls, None
<1>1. ASSUME NEW k \in Kinds, Begin(k) PROVE ILock'
  BY <1>1 DEF Begin
<1>2. ASSUME NEW c \in Calls, Connect(c) \/ Send(c) \/ Recv(c) \/ Timeout(c) PROVE ILock'
  BY <1>2 DEF Connect, Send, Recv, Timeout, Goto
<1>3. ASSUME NEW c \in Calls, Open(c) \/ ReadPiece(c) \/ WritePiece(c) \/ Load(c) \/ FetchFails(c)
      PROVE  ILock'
  <2>1. UNCHANGED <<begun, lock>> /\ pc[c] \in Fetching
    BY <1>3, FetchMoves
  <2>2. PICK label \in Fetching \cup Ended : pc'[c] = label /\ \A d \in Calls \ {c} : pc'[d] = pc[d]
    BY <1>3, FetchMoves, Moves
  <2> QED BY <2>1, <2>2
<1>4. CASE RestartGui
  <2>1. \A c \in Calls : pc[c] /= "new" <=> c \in 1 .. begun
    OBVIOUS
  <2>2. \A c \in Calls : pc'[c] = IF c \in Active THEN "failed" ELSE pc[c]
    BY <1>4 DEF RestartGui
  <2>3. begun' = begun
    BY <1>4 DEF RestartGui
  <2> QED BY <2>1, <2>2, <2>3 DEF Active
<1>5. CASE Server \/ UNCHANGED vars
  BY <1>5 DEF Server, Accept, Read, ReadEof, LoadFails, Dispatch, DispatchFails, FrameOpen, FrameWrite,
     Reply, vars, calls
<1> QED
  BY <1>1, <1>2, <1>3, <1>4, <1>5 DEF Next, Client

\* Every step keeps the line of calls in order.
LEMMA LineStep ==
  ASSUME IInv, [Next]_vars
  PROVE  ILine'
<1>0. /\ ILine /\ begun \in Nat /\ served \in Nat /\ backlog \in Seq(Calls) /\ executed \in Seq(Calls)
      /\ DOMAIN backlog = 1 .. Len(backlog) /\ Len(backlog) \in Nat /\ \A j \in DOMAIN backlog : backlog[j] \in Nat
      /\ DOMAIN executed = 1 .. Len(executed) /\ Len(executed) \in Nat /\ \A i \in DOMAIN executed : executed[i] \in Nat
      /\ Calls \subseteq Nat \ {0} /\ begun \in Calls \cup {0}
  BY Line
<1> USE DEF ILine, InCallOrder, Handling, None
<1>1. ASSUME NEW k \in Kinds, Begin(k) PROVE ILine'
  <2>1. begun' = begun + 1 /\ UNCHANGED <<backlog, executed, srv, served>>
    BY <1>1 DEF Begin, conns, loop
  <2>2. \A j \in DOMAIN backlog : backlog[j] \in Calls /\ backlog[j] < begun'
    BY <1>0, <2>1
  <2>3. \A i \in DOMAIN executed : executed[i] \in Calls /\ executed[i] < begun'
    BY <1>0, <2>1
  <2>4. served < begun'
    BY <1>0, <2>1
  <2>5. srv /= "accept" => kind'[served] = kind[served]
    BY <1>1, <2>4 DEF Begin, IInv, IType
  <2> QED BY <1>0, <2>1, <2>2, <2>3, <2>4, <2>5
<1>2. ASSUME NEW c \in Calls, Connect(c) PROVE ILine'
  <2>1. c = begun /\ pc[c] = "connect"
    BY <1>2 DEF Connect, IInv, ILock, Exchanging
  <2>2. backlog' = Append(backlog, c) /\ UNCHANGED <<begun, executed, srv, served, kind>>
    BY <1>2 DEF Connect, loop
  <2>3. pc'[begun'] /= "connect"
    BY <1>2, <2>1, <2>2 DEF Connect, Goto, IInv, IType
  <2>4. /\ Len(backlog) \in Nat /\ DOMAIN backlog = 1 .. Len(backlog)
        /\ DOMAIN backlog' = 1 .. Len(backlog) + 1 /\ backlog'[Len(backlog) + 1] = c
        /\ \A j \in DOMAIN backlog : backlog'[j] = backlog[j]
    BY <1>0, <2>2, AppendFacts
  <2>5. \A j \in DOMAIN backlog : backlog[j] \in Calls /\ backlog[j] < c
    BY <1>0, <2>1
  <2>6. \A i \in DOMAIN executed : executed[i] \in Calls /\ executed[i] < c
    BY <1>0, <2>1
  <2>7. served < c
    BY <1>0, <2>1
  <2>8. \A i, j \in DOMAIN backlog' : i < j => backlog'[i] < backlog'[j]
    BY <1>0, <2>4, <2>5
  <2>9. \A j \in DOMAIN backlog' : backlog'[j] = c \/ \E i \in DOMAIN backlog : backlog'[j] = backlog[i]
    BY <1>0, <2>4
  <2> QED BY <1>0, <2>1, <2>2, <2>3, <2>5, <2>6, <2>7, <2>8, <2>9
<1>3. CASE Apart
  BY <1>0, <1>3 DEF Apart
<1>4. CASE Accept
  <2>1. /\ served' = Head(backlog) /\ backlog' = Tail(backlog) /\ srv = "accept" /\ srv' = "read"
        /\ UNCHANGED <<begun, executed, pc>> /\ backlog /= <<>>
    BY <1>4 DEF Accept, calls
  <2>2. /\ Len(backlog) \in Nat \ {0} /\ DOMAIN backlog = 1 .. Len(backlog) /\ served' = backlog[1]
        /\ DOMAIN backlog' = 1 .. Len(backlog) - 1
        /\ \A j \in DOMAIN backlog' : backlog'[j] = backlog[j + 1]
    BY <1>0, <2>1, TailFacts
  <2>3. \A j \in DOMAIN backlog' : j + 1 \in DOMAIN backlog /\ backlog[1] < backlog[j + 1]
    BY <1>0, <2>2
  <2>4. \A i, j \in DOMAIN backlog' : i < j => backlog'[i] < backlog'[j]
    BY <1>0, <2>2, <2>3
  <2>5. 1 \in DOMAIN backlog
    BY <1>0, <2>2
  <2> QED BY <1>0, <2>1, <2>2, <2>3, <2>4, <2>5
<1>5. CASE Dispatch \/ FrameOpen
  <2>1. /\ executed' = Append(executed, served) /\ srv = "dispatch" /\ srv' \in {"frame", "reply"}
        /\ UNCHANGED <<begun, backlog, served, pc, kind>> /\ served \in Calls /\ kind[served] /= "cut"
    BY <1>5 DEF Dispatch, FrameOpen, Handled, calls, conns, IInv, IType
  <2>2. /\ Len(executed) \in Nat /\ DOMAIN executed = 1 .. Len(executed) /\ executed' /= <<>>
        /\ DOMAIN executed' = 1 .. Len(executed) + 1 /\ Len(executed') = Len(executed) + 1
        /\ executed'[Len(executed) + 1] = served
        /\ \A i \in DOMAIN executed : executed'[i] = executed[i]
    BY <1>0, <2>1, AppendFacts
  <2>3. \A i \in DOMAIN executed : executed[i] < served
    BY <1>0, <2>1
  <2>4. \A i, j \in DOMAIN executed' : i < j => executed'[i] < executed'[j]
    BY <1>0, <2>2, <2>3
  <2>5. \A i \in DOMAIN executed' : executed'[i] = served \/ \E j \in DOMAIN executed : executed'[i] = executed[j]
    BY <1>0, <2>2
  <2> QED BY <1>0, <2>1, <2>2, <2>4, <2>5
<1>6. CASE Read \/ FrameWrite \/ DispatchFails
  <2>1. CASE Read
    BY <1>0, <2>1 DEF Read, calls, conns
  <2>2. CASE FrameWrite
    BY <1>0, <2>2 DEF FrameWrite, calls, conns, IInv, IPast
  <2>3. CASE DispatchFails
    BY <1>0, <2>3 DEF DispatchFails, calls, conns
  <2> QED BY <1>6, <2>1, <2>2, <2>3
<1>7. CASE ReadEof \/ LoadFails \/ Reply
  <2>1. served' = None /\ srv' = "accept" /\ UNCHANGED <<begun, backlog, executed, pc>>
    BY <1>7 DEF ReadEof, LoadFails, Reply, calls, conns
  <2>2. \A j \in DOMAIN backlog : backlog[j] \in Calls
    BY <1>0
  <2> QED BY <1>0, <2>1, <2>2
<1>8. CASE UNCHANGED vars
  BY <1>0, <1>8 DEF vars, calls, conns, loop
<1> QED
  BY <1>1, <1>2, <1>3, <1>4, <1>5, <1>6, <1>7, <1>8, GoesApart, RestartApart DEF IInv, Next, Client, Server

\* Every step keeps who has been replied to, and with what.
LEMMA ReplyStep ==
  ASSUME IInv, [Next]_vars
  PROVE  IReply'
<1>0. /\ IType /\ ILock /\ IReply /\ ILine /\ served \in Calls \cup {None} /\ (served = None <=> srv = "accept")
      /\ \A c \in Calls : c /= None
      /\ \A j \in DOMAIN backlog : backlog[j] \in Calls
  BY Line DEF IInv, IType, None
<1> USE DEF IReply, Executed
<1>1. ASSUME NEW k \in Kinds, Begin(k) PROVE IReply'
  <2>1. begun' \in Calls /\ pc[begun'] = "new" /\ UNCHANGED <<backlog, executed, served, reply>>
    BY <1>0, <1>1, SessionAssumption DEF Begin, IType, ILock, Calls, conns, loop
  <2>2. pc'[begun'] = "connect" /\ \A c \in Calls \ {begun'} : pc'[c] = pc[c] /\ kind'[c] = kind[c]
    BY <1>0, <1>1, <2>1 DEF Begin, IType
  <2> QED BY <1>0, <2>1, <2>2 DEF Fetching
<1>2. ASSUME NEW c \in Calls, Connect(c) PROVE IReply'
  <2>1. /\ backlog' = Append(backlog, c) /\ pc[c] = "connect" /\ pc' = [pc EXCEPT ![c] = "send"]
        /\ UNCHANGED <<executed, served, reply, kind>>
    BY <1>2 DEF Connect, Goto, loop
  <2>3. pc'[c] = "send" /\ \A d \in Calls \ {c} : pc'[d] = pc[d]
    BY <1>0, <1>2, Moves DEF Connect
  <2>2. \A j \in DOMAIN backlog' : backlog'[j] = c \/ \E i \in DOMAIN backlog : backlog'[j] = backlog[i]
    BY <1>0, <2>1, AppendFacts DEF IType
  <2> QED BY <1>0, <2>1, <2>2, <2>3 DEF Fetching
<1>3. ASSUME NEW c \in Calls, Recv(c) PROVE IReply'
  <2>1. \/ pc'[c] = "open" /\ reply[c] = "ok" /\ kind[c] = "get_frame"
        \/ pc'[c] = "returned" /\ reply[c] = "ok"
        \/ pc'[c] = "failed"
    <3>1. pc'[c] = IF reply[c] /= "ok" THEN "failed" ELSE IF kind[c] = "get_frame" THEN "open" ELSE "returned"
      BY <1>0, <1>3, Moves DEF Recv
    <3> QED BY <3>1
  <2>2. Apart /\ \A d \in Calls \ {c} : pc'[d] = pc[d]
    BY <1>0, <1>3, GoesApart, Moves DEF Recv
  <2> QED BY <1>0, <2>1, <2>2 DEF Apart, Fetching
<1>4. ASSUME NEW c \in Calls, Send(c) \/ Timeout(c) PROVE IReply'
  <2>1. Apart /\ pc'[c] \in {"recv", "failed"} /\ \A d \in Calls \ {c} : pc'[d] = pc[d]
    BY <1>0, <1>4, GoesApart, Moves DEF Send, Timeout
  <2> QED BY <1>0, <2>1 DEF Apart, Fetching
<1>11. ASSUME NEW c \in Calls, Open(c) \/ ReadPiece(c) \/ WritePiece(c) \/ Load(c) \/ FetchFails(c)
       PROVE  IReply'
  <2>1. Apart /\ pc[c] \in Fetching /\ \A d \in Calls \ {c} : pc'[d] = pc[d]
    BY <1>0, <1>11, GoesApart, FetchMoves, Moves
  <2> QED BY <1>0, <2>1 DEF Apart
<1>5. CASE RestartGui
  <2>1. Apart
    BY <1>0, <1>5, RestartApart
  <2>2. \A d \in Calls : pc'[d] \in Fetching \cup {"returned"} => pc'[d] = pc[d]
    BY <1>5 DEF RestartGui, Fetching
  <2> QED BY <1>0, <2>1, <2>2 DEF Apart
<1>6. CASE Accept
  <2>1. /\ served' = Head(backlog) /\ backlog' = Tail(backlog) /\ backlog /= <<>>
        /\ UNCHANGED <<executed, reply, pc, kind>>
    BY <1>6 DEF Accept, calls
  <2>4. /\ Len(backlog) \in Nat \ {0} /\ DOMAIN backlog = 1 .. Len(backlog) /\ served' = backlog[1]
        /\ DOMAIN backlog' = 1 .. Len(backlog) - 1 /\ \A j \in DOMAIN backlog' : backlog'[j] = backlog[j + 1]
    BY <1>0, <2>1, TailFacts DEF IType
  <2>2. \A j \in DOMAIN backlog' : j + 1 \in DOMAIN backlog /\ backlog'[j] = backlog[j + 1]
    BY <2>4
  <2>3. \E i \in DOMAIN backlog : served' = backlog[i]
    BY <2>4
  <2> QED BY <1>0, <2>1, <2>2, <2>3
<1>7. CASE Dispatch \/ FrameOpen
  <2>1. executed' = Append(executed, served) /\ served \in Calls /\ UNCHANGED <<backlog, served, reply, pc, kind>>
    BY <1>0, <1>7 DEF Dispatch, FrameOpen, Handled, calls, conns
  <2>2. \A i \in DOMAIN executed : i \in DOMAIN executed' /\ executed'[i] = executed[i]
    BY <1>0, <2>1, AppendFacts DEF IType
  <2> QED BY <1>0, <2>1, <2>2
<1>8. CASE Read \/ FrameWrite \/ ReadEof \/ DispatchFails
  BY <1>0, <1>8 DEF Read, FrameWrite, ReadEof, DispatchFails, calls, conns
<1>9. CASE LoadFails \/ Reply
  <2>1. served' = None /\ served \in Calls /\ UNCHANGED <<backlog, executed, pc, kind>>
    BY <1>0, <1>9 DEF LoadFails, Reply, calls
  <2>2. \A c \in Calls \ {served} : reply'[c] = reply[c]
    BY <1>0, <1>9 DEF LoadFails, Reply, IType
  <2>3. reply'[served] = "ok" => Reply
    BY <1>0, <1>9, <2>1 DEF LoadFails, IType
  <2>4. Reply => kind[served] = "cut" \/ \E i \in DOMAIN executed : executed[i] = served
    <3>1. Reply /\ kind[served] /= "cut" => Len(executed) > 0 /\ executed[Len(executed)] = served
      BY Line DEF Reply, ILine, Handling
    <3>2. Len(executed) > 0 => Len(executed) \in DOMAIN executed
      BY Line
    <3> QED BY <3>1, <3>2
  <2>5. \A j \in DOMAIN backlog : backlog[j] \in Calls \ {served}
    BY <1>0, Line DEF ILine
  <2>6. pc[served] \notin {"new", "connect"}
    BY <1>0, <2>1, Line DEF ILine, ILock, Exchanging
  <2>7. pc[served] \notin Fetching \cup {"returned"}
    BY <1>0, <2>1
  <2> QED BY <1>0, <2>1, <2>2, <2>3, <2>4, <2>5, <2>6, <2>7
<1>10. CASE UNCHANGED vars
  BY <1>0, <1>10 DEF vars, calls, conns, loop
<1> QED
  BY <1>1, <1>2, <1>3, <1>4, <1>5, <1>6, <1>7, <1>8, <1>9, <1>10, <1>11 DEF Next, Client, Server

\* Every step keeps who came before whom, and what is not executed.
LEMMA PastStep ==
  ASSUME IInv, [Next]_vars
  PROVE  IPast'
<1>0. /\ IType /\ ILock /\ IReply /\ ILine /\ IPast /\ Calls \subseteq Nat \ {0}
      /\ served \in Calls \cup {None} /\ (served = None <=> srv = "accept")
      /\ begun \in Nat /\ DOMAIN executed = 1 .. Len(executed) /\ Len(executed) \in Nat
      /\ \A i \in DOMAIN executed : executed[i] \in Calls /\ executed[i] <= begun
      /\ \A j \in DOMAIN backlog : backlog[j] \in Calls /\ backlog[j] <= begun /\ served < backlog[j]
      /\ served <= begun
  <2>1. \A i \in DOMAIN executed : executed[i] \in Calls /\ executed[i] <= begun
    BY Line DEF IInv, IType, ILine
  <2>2. \A j \in DOMAIN backlog : backlog[j] \in Calls /\ backlog[j] <= begun /\ served < backlog[j]
    BY Line DEF IInv, IType, ILine
  <2>3. served <= begun
    BY Line DEF ILine
  <2> QED BY <2>1, <2>2, <2>3, Line DEF IInv, IType
<1> USE DEF IPast, None
<1>1. ASSUME NEW k \in Kinds, Begin(k) PROVE IPast'
  <2>1. begun' = begun + 1 /\ UNCHANGED <<backlog, executed, srv, served, reply>>
    BY <1>1 DEF Begin, conns, loop
  <2>2. \A c \in Calls : c <= begun => kind'[c] = kind[c]
    BY <1>0, <1>1, <2>1 DEF Begin, IType
  <2> QED BY <1>0, <2>1, <2>2
<1>2. ASSUME NEW c \in Calls, Connect(c) PROVE IPast'
  <2>1. /\ c = begun /\ pc[c] = "connect" /\ backlog' = Append(backlog, c)
        /\ UNCHANGED <<executed, srv, served, reply, kind>>
    BY <1>0, <1>2 DEF Connect, ILock, Exchanging, loop
  <2>2. \A j \in DOMAIN backlog' : backlog'[j] = c \/ \E i \in DOMAIN backlog : backlog'[j] = backlog[i]
    BY <1>0, <2>1, AppendFacts DEF IType
  <2>3. \A d \in Calls : reply[d] = "ok" => d < c
    <3>1. \A d \in Calls : reply[d] = "ok" => d /= c /\ d <= begun
      BY <1>0, <2>1 DEF IReply, ILock
    <3> QED BY <1>0, <2>1, <3>1
  <2> QED BY <1>0, <2>1, <2>2, <2>3
<1>3. CASE Apart
  BY <1>0, <1>3 DEF Apart
<1>4. CASE Accept
  <2>1. /\ served' = Head(backlog) /\ backlog' = Tail(backlog) /\ backlog /= <<>> /\ srv' = "read"
        /\ UNCHANGED <<executed, reply, kind>>
    BY <1>4 DEF Accept, calls
  <2>2. /\ Len(backlog) \in Nat \ {0} /\ DOMAIN backlog = 1 .. Len(backlog) /\ served' = backlog[1]
        /\ DOMAIN backlog' = 1 .. Len(backlog) - 1 /\ \A j \in DOMAIN backlog' : backlog'[j] = backlog[j + 1]
    BY <1>0, <2>1, TailFacts DEF IType
  <2>3. 1 \in DOMAIN backlog /\ \A j \in DOMAIN backlog' : j + 1 \in DOMAIN backlog
    BY <2>2
  <2> QED BY <1>0, <2>1, <2>2, <2>3
<1>5. CASE Dispatch \/ FrameOpen
  <2>1. /\ executed' = Append(executed, served) /\ served \in Calls /\ kind[served] /= "cut"
        /\ UNCHANGED <<backlog, served, reply, kind>>
    BY <1>0, <1>5 DEF Dispatch, FrameOpen, Handled, calls, conns
  <2>2. \A i \in DOMAIN executed' : executed'[i] = served \/ \E j \in DOMAIN executed : executed'[i] = executed[j]
    BY <1>0, <2>1, AppendFacts DEF IType
  <2> QED BY <1>0, <2>1, <2>2
<1>6. CASE Read \/ FrameWrite \/ ReadEof \/ DispatchFails
  BY <1>0, <1>6 DEF Read, FrameWrite, ReadEof, DispatchFails, calls, conns
<1>7. CASE LoadFails \/ Reply
  <2>1. served' = None /\ srv' = "accept" /\ served \in Calls /\ UNCHANGED <<backlog, executed, kind>>
    BY <1>0, <1>7 DEF LoadFails, Reply, calls
  <2>2. \A c \in Calls \ {served} : reply'[c] = reply[c]
    BY <1>0, <1>7 DEF LoadFails, Reply, IType
  <2> QED BY <1>0, <2>1, <2>2
<1>8. CASE UNCHANGED vars
  BY <1>0, <1>8 DEF vars, calls, conns, loop
<1> QED
  BY <1>0, <1>1, <1>2, <1>3, <1>4, <1>5, <1>6, <1>7, <1>8, GoesApart, RestartApart DEF Next, Client, Server

\* Once the last call has its reply the server has nothing to do.
LEMMA NothingLeft ==
  ASSUME IInv, begun > 0, reply[begun] = "ok"
  PROVE  srv = "accept" /\ backlog = <<>>
<1>1. begun \in Calls /\ begun \in Nat /\ served \in Nat /\ backlog \in Seq(Calls)
      /\ DOMAIN backlog = 1 .. Len(backlog) /\ Len(backlog) \in Nat /\ \A j \in DOMAIN backlog : backlog[j] \in Nat
  BY Line
<1>2. served = None
  BY <1>1, Line DEF ILine, IInv, IPast
<1>3. DOMAIN backlog = {}
  BY <1>1, Line DEF ILine, IInv, IPast
<1>4. backlog = <<>>
  BY <1>1, <1>3
<1> QED BY <1>2, <1>4 DEF IInv, IType

\* Every step keeps whose frame the server holds.
LEMMA RemoteStep ==
  ASSUME IInv, [Next]_vars
  PROVE  IRemote'
<1> USE SessionAssumption DEF IInv, IType, IRemote, Calls, None
<1>1. ASSUME NEW k \in Kinds, Begin(k) PROVE IRemote'
  <2>1. begun' \in Calls /\ begun' = begun + 1 /\ UNCHANGED <<srv, served, func_status, reply, remote>>
    BY <1>1 DEF Begin, conns, loop
  <2>2. reply[begun'] = "none"
    BY <2>1 DEF ILock, IReply
  <2>3. served /= None => kind'[served] = kind[served]
    BY <1>1, <2>1 DEF Begin, ILine
  <2> QED BY <2>1, <2>2, <2>3
<1>2. ASSUME NEW c \in Calls, Connect(c) PROVE IRemote'
  BY <1>2 DEF Connect, loop
<1>3. CASE Apart
  BY <1>3 DEF Apart
<1>4. CASE Accept \/ Read \/ ReadEof \/ Dispatch \/ DispatchFails
  BY <1>4 DEF Accept, Read, ReadEof, Dispatch, DispatchFails, Handled, calls, conns
<1>5. CASE FrameOpen \/ FrameWrite
  <2>1. ~(begun > 0 /\ reply[begun] = "ok")
    BY <1>5, NothingLeft DEF FrameOpen, FrameWrite
  <2>2. srv' = "reply" /\ func_status' = "ok" => FrameWrite
    BY <1>5 DEF FrameOpen, Handled
  <2> QED BY <1>5, <2>1, <2>2 DEF FrameOpen, FrameWrite, calls, conns
<1>6. CASE LoadFails
  BY <1>6 DEF LoadFails, calls
<1>7. CASE Reply
  BY <1>7 DEF Reply, calls
<1>8. CASE UNCHANGED vars
  BY <1>8 DEF vars, calls, conns, loop
<1> QED
  BY <1>1, <1>2, <1>3, <1>4, <1>5, <1>6, <1>7, <1>8, GoesApart, RestartApart DEF Next, Client, Server

\* Who is active, in terms of the whole of Calls.
LEMMA WhoIsActive ==
  ASSUME begun \in 0 .. MAX_CALLS
  PROVE  Active = {c \in Calls : c <= begun /\ pc[c] \notin Ended}
BY SessionAssumption DEF Active, Calls

\* Every step keeps what a call without company has.
LEMMA AloneStep ==
  ASSUME IInv, [Next]_vars
  PROVE  IAlone'
<1>0. /\ IType /\ ILock /\ IReply /\ IAlone /\ alone \subseteq Calls
      /\ \A c \in Calls : c /= None
      /\ Active = {c \in Calls : c <= begun /\ pc[c] \notin Ended}
      /\ Active' = {c \in Calls : c <= begun' /\ pc'[c] \notin Ended}
      /\ alone \subseteq 1 .. begun /\ begun \in Nat /\ Calls \subseteq Nat
  <2>1. Active = {c \in Calls : c <= begun /\ pc[c] \notin Ended}
    BY WhoIsActive DEF IInv, IType
  <2>2. Active' = {c \in Calls : c <= begun' /\ pc'[c] \notin Ended}
    <3>1. begun' \in 0 .. MAX_CALLS
      BY TypeStep DEF IType
    <3> QED BY <3>1, SessionAssumption DEF Active, Calls
  <2>3. alone \subseteq 1 .. begun /\ begun \in Nat /\ 1 .. begun \subseteq Calls
    BY SessionAssumption DEF IInv, IType, Calls
  <2>4. Calls \subseteq Nat /\ \A c \in Calls : c /= None
    BY SessionAssumption DEF Calls, None
  <2> QED BY <2>1, <2>2, <2>3, <2>4 DEF IInv
<1> USE DEF IAlone, Own
<1>1. ASSUME NEW k \in Kinds, Begin(k) PROVE IAlone'
  <2>1. begun' = begun + 1 /\ begun' \in Calls /\ pc[begun'] = "new" /\ begun' \notin alone
        /\ UNCHANGED <<buffer, data, local>>
    BY <1>0, <1>1, SessionAssumption DEF Begin, IType, ILock, Calls
  <2>2. pc'[begun'] = "connect" /\ \A c \in Calls \ {begun'} : pc'[c] = pc[c] /\ kind'[c] = kind[c]
    BY <1>0, <1>1, <2>1 DEF Begin, IType
  <2>3. Active' = Active \cup {begun'}
    <3>1. 1 .. begun' = (1 .. begun) \cup {begun'} /\ 1 .. begun \subseteq Calls /\ begun' \notin 1 .. begun
      BY <2>1, Line, SessionAssumption DEF Calls
    <3> QED BY <2>1, <2>2, <3>1 DEF Active, Ended
  <2>4. alone' = IF Active = {} THEN alone \cup {begun'} ELSE alone \ Active
    BY <1>1 DEF Begin
  <2>5. \A c \in alone' \ {begun'} : c \in alone /\ c \notin Active'
    BY <2>3, <2>4
  <2>6. \A c \in alone' \ {begun'} : pc[c] \in Ended
    BY <1>0, <2>3, <2>4, SessionAssumption DEF Active, IType, Calls
  <2>7. begun' \in alone' => Active' = {begun'}
    BY <2>1, <2>3, <2>4
  <2>8. ASSUME NEW c \in alone' \ {begun'}
        PROVE  c \in alone /\ c \in Calls /\ c \notin Active' /\ kind'[c] = kind[c]
               /\ pc'[c] = pc[c] /\ pc'[c] \in Ended
    BY <1>0, <2>2, <2>5, <2>6
  <2>9. ASSUME NEW c \in alone', c = begun'
        PROVE  Active' = {c} /\ pc'[c] = "connect"
    BY <2>2, <2>7, <2>9
  <2>10. ASSUME NEW c \in alone', c /= begun' PROVE Own(c)'
    <3>1. c \in alone /\ c \in Calls /\ c \notin Active' /\ kind'[c] = kind[c] /\ pc'[c] = pc[c]
          /\ pc'[c] \in {"returned", "failed"}
      BY <2>8, <2>10 DEF Ended
    <3>2. pc[c] = "returned" /\ kind[c] = "get_frame" => data[c] = {c}
      BY <1>0, <3>1
    <3> QED BY <2>1, <3>1, <3>2
  <2>11. ASSUME NEW c \in alone', c = begun' PROVE Own(c)'
    BY <2>9, <2>11
  <2> HIDE DEF Own
  <2> QED BY <2>10, <2>11
<1>2. ASSUME NEW c \in Calls, Connect(c) \/ Send(c) \/ Recv(c) \/ Timeout(c) PROVE IAlone'
  <2>1. /\ UNCHANGED <<begun, kind, alone, buffer, data, local>>
        /\ pc[c] \in Exchanging /\ \E label \in {"send", "recv", "failed", "open", "returned"} : Goto(c, label)
        /\ Recv(c) /\ pc'[c] = "returned" => kind[c] /= "get_frame"
    <3>1. CASE Connect(c) \/ Send(c) \/ Timeout(c)
      BY <1>0, <3>1, Moves DEF Connect, Send, Timeout, Exchanging, Recv
    <3>2. CASE Recv(c)
      BY <1>0, <3>2, Moves DEF Recv, Exchanging
    <3> QED BY <1>2, <3>1, <3>2
  <2>2. pc'[c] = "returned" => Recv(c)
    BY <1>0, <1>2, Moves DEF Connect, Send, Timeout
  <2>3. pc'[c] \in {"send", "recv", "failed", "open", "returned"} /\ \A d \in Calls \ {c} : pc'[d] = pc[d]
    BY <1>0, <2>1, Moves
  <2>4. Active' \subseteq Active /\ \A d \in Active \ {c} : d \in Active'
    BY <1>0, <2>1, <2>3 DEF Active, Ended, Exchanging
  <2>5. ASSUME NEW d \in alone PROVE Own(d)'
    <3>1. d \in Calls /\ Own(d)
      BY <1>0
    <3>2. d \in Active' => Active' = {d} /\ d = begun'
      <4>1. ASSUME d \in Active' PROVE Active = {d} /\ d = begun'
        BY <2>1, <2>4, <3>1, <4>1
      <4> QED BY <2>4, <4>1
    <3>3. CASE d = c
      <4>1. pc'[c] \notin {"write", "read", "load"}
        BY <2>3
      <4>2. pc'[c] = "returned" /\ kind'[c] = "get_frame" => FALSE
        BY <2>1, <2>2
      <4> QED BY <3>2, <3>3, <4>1, <4>2
    <3>4. CASE d /= c
      <4>1. pc'[d] = pc[d]
        BY <2>3, <3>1, <3>4
      <4> QED BY <2>1, <3>1, <3>2, <4>1
    <3> QED BY <3>3, <3>4
  <2> HIDE DEF Own
  <2> QED BY <2>1, <2>5
<1>3. ASSUME NEW c \in Calls, Open(c) \/ ReadPiece(c) \/ WritePiece(c) \/ Load(c) \/ FetchFails(c)
      PROVE  IAlone'
  <2>1. UNCHANGED <<begun, kind, alone, remote>> /\ pc[c] \in Fetching
        /\ \A d \in Calls \ {c} : pc'[d] = pc[d]
    BY <1>0, <1>3, FetchMoves, Moves
  <2>2. c \in Active
    BY <1>0, <2>1 DEF Fetching, Ended, ILock
  <2>3. Active' \subseteq Active /\ \A d \in Active \ {c} : d \in Active'
    BY <1>0, <2>1, <2>2 DEF Active
  <2>4. ASSUME c \in alone
        PROVE  remote = {c}
    BY <1>0, <2>1, <2>2, <2>4 DEF IInv, IReply, IRemote
  <2>5. ASSUME NEW d \in alone, d /= c PROVE d \notin Active /\ pc[d] \notin Fetching
    BY <1>0, <2>2, <2>5 DEF Active, Fetching, Ended, ILock
  <2>6. \A d \in alone \ {c} : data'[d] = data[d]
    BY <1>0, <1>3 DEF Open, ReadPiece, WritePiece, Load, FetchFails, IType
  <2>7. ASSUME c \in alone
        PROVE  /\ pc'[c] = "write" => buffer'[c] = {c}
               /\ pc'[c] \in {"read", "write"} => local' \subseteq {c}
               /\ pc'[c] = "load" => local' = {c}
               /\ pc'[c] = "returned" => data'[c] = {c}
    <3>1. CASE Open(c) \/ FetchFails(c)
      BY <1>0, <3>1, Moves DEF Open, FetchFails, Fetch
    <3>2. CASE ReadPiece(c)
      <4>1. pc[c] = "read" /\ local' = local /\ local \subseteq {c} /\ remote = {c}
        BY <1>0, <2>4, <2>7, <3>2 DEF ReadPiece
      <4>2. pc'[c] = "write"
        BY <1>0, <3>2, Moves DEF ReadPiece, Fetch
      <4>3. buffer'[c] = remote
        BY <1>0, <3>2 DEF ReadPiece, IType
      <4> QED BY <4>1, <4>2, <4>3
    <3>3. CASE WritePiece(c)
      <4>1. local \subseteq {c} /\ buffer[c] = {c} /\ local' = local \cup buffer[c]
        BY <1>0, <2>7, <3>3 DEF WritePiece
      <4>2. pc'[c] \in {"load", "read"}
        BY <1>0, <3>3, Moves DEF WritePiece, Fetch
      <4> QED BY <4>1, <4>2
    <3>4. CASE Load(c)
      <4>1. local = {c}
        BY <1>0, <2>7, <3>4 DEF Load
      <4>2. pc'[c] = "returned"
        BY <1>0, <3>4, Moves DEF Load, Fetch
      <4>3. data'[c] = local
        BY <1>0, <3>4 DEF Load, IType
      <4> QED BY <4>1, <4>2, <4>3
    <3> QED BY <1>3, <3>1, <3>2, <3>3, <3>4
  <2>8. ASSUME NEW d \in alone, d /= c
        PROVE  d \notin Active' /\ pc'[d] = pc[d] /\ pc[d] \notin Fetching
    BY <1>0, <2>1, <2>3, <2>5, <2>8
  <2>9. ASSUME c \in alone, c \in Active' PROVE Active' = {c} /\ c = begun'
    BY <1>0, <2>1, <2>2, <2>3, <2>9
  <2>10. ASSUME c \in alone PROVE Own(c)'
    BY <2>7, <2>9, <2>10
  <2>11. ASSUME NEW d \in alone, d /= c PROVE Own(d)'
    <3>1. d \notin Active' /\ pc'[d] = pc[d] /\ pc[d] \notin {"read", "write", "load"}
      BY <2>8, <2>11 DEF Fetching
    <3>2. pc[d] = "returned" /\ kind[d] = "get_frame" => data[d] = {d}
      BY <1>0, <2>11
    <3>3. data'[d] = data[d] /\ kind' = kind
      BY <2>1, <2>6, <2>11
    <3> QED BY <3>1, <3>2, <3>3
  <2> HIDE DEF Own
  <2> QED BY <2>1, <2>10, <2>11
<1>4. CASE RestartGui
  <2>1. UNCHANGED <<begun, kind, alone, buffer, data, local>>
        /\ \A d \in Calls : pc'[d] = IF d \in Active THEN "failed" ELSE pc[d]
    BY <1>4 DEF RestartGui
  <2>2. Active' = {}
    BY <1>0, <2>1 DEF Active, Ended
  <2> QED BY <1>0, <2>1, <2>2
<1>5. CASE Server \/ UNCHANGED vars
  <2>1. UNCHANGED <<calls, local>>
    BY <1>5 DEF Server, Accept, Read, ReadEof, LoadFails, Dispatch, DispatchFails, FrameOpen, FrameWrite,
     Reply, vars
  <2> QED BY <1>0, <2>1 DEF calls
<1> QED BY <1>1, <1>2, <1>3, <1>4, <1>5 DEF Next, Client

----------------------------------------------------------------------------
(* The theorems. *)

\* The invariant holds at the start.
LEMMA InitInv == Init => IInv
<1> SUFFICES ASSUME Init PROVE IInv
  OBVIOUS
<1>1. IType
  BY SessionAssumption DEF Init, IType, Labels, Kinds, Calls, None
<1>2. ILock /\ ILine /\ IReply /\ IPast /\ IRemote /\ IAlone
  BY SessionAssumption DEF Init, ILock, ILine, InCallOrder, Handling, IReply, IPast, IRemote, IAlone, Own,
     Exchanging, Fetching, Calls, None
<1> QED BY <1>1, <1>2 DEF IInv

\* Every step keeps the invariant.
LEMMA NextInv == IInv /\ [Next]_vars => IInv'
BY TypeStep, LockStep, LineStep, ReplyStep, PastStep, RemoteStep, AloneStep DEF IInv

\* Commands reach the FPGA in the order in which the threads took the lock and each at
\* most once, for any number of calls, timeouts, restarts and any backlog (execute_cmd,
\* the accept loop of server.c).
THEOREM Ordered == Spec => []InCallOrder
<1>1. IInv => InCallOrder
  BY DEF IInv, ILine
<1> QED BY <1>1, InitInv, NextInv, PTL DEF Spec

\* A call that got status 0 got it from the execution of its own command, whatever
\* requests of calls given up were answered before it; only a call whose request was cut
\* got it from no execution at all (dispatch_command and main of server.c, _parse_response
\* and api_cmd of api.py).
THEOREM OkExecuted == Spec => []OkMeansExecuted
<1>1. IInv => OkMeansExecuted
  <2> SUFFICES ASSUME IInv, NEW c \in Calls, pc[c] \in Fetching \cup {"returned"}
               PROVE  Executed(c) <=> kind[c] /= "cut"
    BY DEF OkMeansExecuted
  <2>1. reply[c] = "ok"
    BY DEF IInv, IReply
  <2>2. kind[c] = "cut" \/ Executed(c)
    BY <2>1 DEF IInv, IReply
  <2>3. Executed(c) => kind[c] /= "cut"
    BY DEF IInv, IPast, Executed
  <2> QED BY <2>2, <2>3
<1> QED BY <1>1, InitInv, NextInv, PTL DEF Spec

\* A get_frame that no other call overlapped returns its own capture and nothing else,
\* in however many pieces the file is fetched (_ssh_fetch_csv).
THEOREM OwnFrame == Spec => []AloneGetsOwn
<1>1. IInv => AloneGetsOwn
  BY DEF IInv, IAlone, Own, AloneGetsOwn
<1> QED BY <1>1, InitInv, NextInv, PTL DEF Spec

====
