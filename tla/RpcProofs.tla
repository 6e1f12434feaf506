----------------------------- MODULE RpcProofs -----------------------------
(***************************************************************************)
(* Proofs about remote procedure calls, for any number of commands,        *)
(* buffers, queue entries, services and sessions and any width of          *)
(* pending_id.                                                             *)
(*                                                                         *)
(* A response is matched by its msg_id alone.  The argument follows the    *)
(* number n of commands issued so far: the id of a packet of the current   *)
(* session, moved on by the commands issued since, is pending_id.          *)
(***************************************************************************)
EXTENDS Rpc, TLAPS

-----------------------------------------------------------------------------
(* Ids are counted modulo IdMod.                                           *)

\* Multiplication by the number of ids is monotonic.
LEMMA TimesIds ==
    ASSUME NEW x \in Int, NEW y \in Int, x <= y
    PROVE  IdMod * x <= IdMod * y
BY RpcAssumption

\* The division theorem for ids: the quotient and the remainder exist.
LEMMA IdDivMod ==
    ASSUME NEW n \in Int
    PROVE  /\ n \div IdMod \in Int /\ n % IdMod \in 0 .. IdMod - 1
           /\ n = IdMod * (n \div IdMod) + (n % IdMod)
BY RpcAssumption

\* The division theorem for ids: the remainder is unique.
LEMMA IdUnique ==
    ASSUME NEW q \in Int, NEW m \in 0 .. IdMod - 1
    PROVE  (IdMod * q + m) % IdMod = m
<1> DEFINE n == IdMod * q + m
           q1 == n \div IdMod
           m1 == n % IdMod
<1>0. IdMod \in Nat \ {0}
  BY RpcAssumption
<1>1. n \in Int
  BY <1>0
<1>2. q1 \in Int /\ m1 \in 0 .. IdMod - 1 /\ IdMod * q + m = IdMod * q1 + m1
  BY <1>1, IdDivMod
<1> HIDE DEF n, q1, m1
<1>3. ~(q < q1)
  <2> SUFFICES ASSUME q < q1 PROVE FALSE
    OBVIOUS
  <2>1. IdMod * (q + 1) <= IdMod * q1
    BY TimesIds, <1>2
  <2> QED BY <2>1, <1>0, <1>2
<1>4. ~(q1 < q)
  <2> SUFFICES ASSUME q1 < q PROVE FALSE
    OBVIOUS
  <2>1. IdMod * (q1 + 1) <= IdMod * q
    BY TimesIds, <1>2
  <2> QED BY <2>1, <1>0, <1>2
<1>5. q = q1
  BY <1>2, <1>3, <1>4
<1>6. m = m1
  BY <1>0, <1>2, <1>5
<1> QED BY <1>6 DEF n, m1

\* A number below IdMod is its own id.
LEMMA OwnId == ASSUME NEW m \in 0 .. IdMod - 1 PROVE m % IdMod = m
<1>1. IdMod * 0 + m = m
  BY RpcAssumption
<1> QED BY <1>1, IdUnique

\* The server's queue exists from init to deinit only, and an initialisation
\* under way is one of those the bound leaves.
PhaseInv ==
    /\ server.phase \in {"off", "ept"} => server.queue = <<>>
    /\ client.phase = "ept" => client.session < MaxSessions
    /\ server.phase = "ept" => server.session < MaxSessions

-----------------------------------------------------------------------------
(* What the types say of the client, of the command that is being executed *)
(* and of the request that the server works on.                            *)

\* The client structure.
LEMMA ClientFacts ==
    TypeOK => /\ client.pending_id \in 0 .. IdMod - 1 /\ client.pending_id + 1 \in Int
              /\ client.session \in 0 .. MaxSessions /\ client.session \in Nat
              /\ client.pending_cmd \in Cmd \cup {None} /\ client.phase \in {"off", "ept", "up"}
<1>1. TypeOK => client \in [phase : {"off", "ept", "up"}, pending_id : 0 .. IdMod - 1,
                            pending_cmd : Cmd \cup {None}, session : 0 .. MaxSessions]
  BY Zenon DEF TypeOK
<1> QED BY <1>1, RpcAssumption

\* The command that execute_cmd works on.
LEMMA CallFacts ==
    TypeOK /\ call.pc # "idle" => call \in [pc : {"store", "send"}, cmd : Cmd, cmd_id : CmdId]
<1>1. TypeOK => call \in {NoCall} \cup [pc : {"store", "send"}, cmd : Cmd, cmd_id : CmdId]
  BY Zenon DEF TypeOK
<1> QED BY <1>1 DEF NoCall

\* The response to the request that the server works on.
LEMMA ReplyFacts ==
    TypeOK /\ job.pc # "idle" =>
      [cmd |-> job.pkt.cmd, msg_id |-> job.pkt.msg_id, status |-> job.status] \in Response
<1>1. TypeOK => job \in {NoJob} \cup [pc : {"execute", "reply"}, pkt : Packet, status : Status]
  BY Zenon DEF TypeOK
<1>2. job.pc # "idle" => job # NoJob
  BY DEF NoJob
<1> QED BY <1>1, <1>2 DEF Packet, Response

-----------------------------------------------------------------------------
(* Types and buffers.                                                      *)

\* What a dequeue returns and leaves.
LEMMA TakeFirst ==
    ASSUME NEW S, NEW q \in Seq(S), q # <<>>
    PROVE  /\ Head(q) \in S /\ Head(q) = q[1] /\ 1 \in 1 .. Len(q)
           /\ Tail(q) \in Seq(S) /\ Len(q) \in Nat /\ Len(Tail(q)) = Len(q) - 1
           /\ \A k \in 1 .. Len(Tail(q)) : Tail(q)[k] = q[k + 1] /\ k + 1 \in 1 .. Len(q)
  OBVIOUS

\* What an enqueue leaves.
LEMMA PutLast ==
    ASSUME NEW S, NEW q \in Seq(S), NEW x \in S
    PROVE  /\ Append(q, x) \in Seq(S)
           /\ Len(q) \in Nat /\ Len(Append(q, x)) = Len(q) + 1
           /\ \A k \in 1 .. Len(Append(q, x)) :
                \/ k \in 1 .. Len(q) /\ Append(q, x)[k] = q[k]
                \/ Append(q, x)[k] = x
  OBVIOUS

\* The state of the client keeps its type: pending_id stays within its width
\* and a session never exceeds the bound (the client's functions).
LEMMA ClientTypeStep ==
    ASSUME TypeOK, PhaseInv, [Next]_vars
    PROVE  /\ client' \in [phase : {"off", "ept", "up"}, pending_id : 0 .. IdMod - 1,
                           pending_cmd : Cmd \cup {None}, session : 0 .. MaxSessions]
           /\ client'.phase = "ept" => client'.session < MaxSessions
           /\ call' \in {NoCall} \cup [pc : {"store", "send"}, cmd : Cmd, cmd_id : CmdId]
<1> USE RpcAssumption
<1> DEFINE C == [phase : {"off", "ept", "up"}, pending_id : 0 .. IdMod - 1,
                 pending_cmd : Cmd \cup {None}, session : 0 .. MaxSessions]
           Goal == /\ client' \in C /\ (client'.phase = "ept" => client'.session < MaxSessions)
                   /\ call' \in {NoCall} \cup [pc : {"store", "send"}, cmd : Cmd, cmd_id : CmdId]
<1>1. CASE UNCHANGED <<client, call>>
  BY <1>1 DEF TypeOK, PhaseInv
<1>2. CASE ClientInitEpt
  <2>1. client.session \in Nat /\ server.session \in Nat
    BY DEF TypeOK
  <2>2. client.session < MaxSessions
    BY <1>2, <2>1 DEF ClientInitEpt, Sessions
  <2> QED
    BY <1>2, <2>2, Zenon DEF ClientInitEpt, TypeOK
<1>3. CASE ClientInitRun
  <2>1. client \in C /\ client.phase = "ept" /\ client.session < MaxSessions /\ UNCHANGED call
    BY <1>3 DEF ClientInitRun, TypeOK, PhaseInv
  <2>2. client.session + 1 \in 0 .. MaxSessions
    BY <2>1
  <2> QED
    BY <1>3, <2>1, <2>2 DEF ClientInitRun, TypeOK
<1>4. CASE ClientDeinit
  <2>1. 0 \in 0 .. IdMod - 1
    OBVIOUS
  <2>2. /\ client' = [client EXCEPT !.phase = "off", !.pending_id = 0, !.pending_cmd = None]
        /\ client \in C /\ call' = call
    BY <1>4 DEF ClientDeinit, TypeOK
  <2> QED
    BY <2>1, <2>2, Zenon DEF TypeOK
<1>5. ASSUME NEW c \in Cmd, NEW id \in CmdId, Execute(c, id)
      PROVE  Goal
  <2>1. NextId \in 0 .. IdMod - 1
    <3>1. client.pending_id + 1 \in Int
      BY ClientFacts, Zenon
    <3> QED
      BY <3>1, IdDivMod, Zenon DEF NextId
  <2> QED
    BY <1>5, <2>1, Zenon DEF Execute, TypeOK
<1>6. CASE ExecuteStore
  <2>1. call \in [pc : {"store", "send"}, cmd : Cmd, cmd_id : CmdId]
    <3>1. call.pc # "idle"
      BY <1>6 DEF ExecuteStore
    <3> QED BY <3>1, CallFacts, Zenon
  <2>2. call' \in [pc : {"store", "send"}, cmd : Cmd, cmd_id : CmdId]
    BY <1>6, <2>1 DEF ExecuteStore
  <2>3. client' \in C /\ client'.phase = client.phase /\ client'.session = client.session
    BY <1>6, <2>1, Zenon DEF ExecuteStore, TypeOK
  <2> QED
    BY <2>2, <2>3 DEF PhaseInv
<1>7. CASE ExecuteSend
  BY <1>7 DEF ExecuteSend, TypeOK, PhaseInv
<1> QED
  BY <1>1, <1>2, <1>3, <1>4, <1>5, <1>6, <1>7, Zenon DEF Next, ClientStep, ServerStep, JobStep,
     vars, ExecuteNoMem, ClientCb, ServerInitEpt, ServerInitRun, ServerDeinitStop,
     ServerDeinitEnd, AddService, DelService, ServerCbStopped, ServerCb, ServerTake,
     ServerExecute, ServerReply, ServerDrain

\* The state of the server keeps its type: the queue and the sessions stay
\* bounded, and there is no queue outside init and deinit.
LEMMA ServerTypeStep ==
    ASSUME TypeOK, PhaseInv, [Next]_vars
    PROVE  /\ server' \in [phase : {"off", "ept", "up", "drain"}, srv : SUBSET CmdId,
                           queue : Seq(Packet), session : 0 .. MaxSessions]
           /\ Len(server'.queue) <= QueueLen
           /\ job' \in {NoJob} \cup [pc : {"execute", "reply"}, pkt : Packet, status : Status]
           /\ server'.phase \in {"off", "ept"} => server'.queue = <<>>
           /\ server'.phase = "ept" => server'.session < MaxSessions
<1> USE RpcAssumption
<1> DEFINE S == [phase : {"off", "ept", "up", "drain"}, srv : SUBSET CmdId,
                 queue : Seq(Packet), session : 0 .. MaxSessions]
           J == {NoJob} \cup [pc : {"execute", "reply"}, pkt : Packet, status : Status]
           Goal == /\ server' \in S
                   /\ Len(server'.queue) <= QueueLen
                   /\ job' \in J
                   /\ server'.phase \in {"off", "ept"} => server'.queue = <<>>
                   /\ server'.phase = "ept" => server'.session < MaxSessions
<1>a. /\ server \in S /\ Len(server.queue) <= QueueLen /\ job \in J /\ req \in Seq(Packet)
      /\ server.queue \in Seq(Packet)
  BY DEF TypeOK
<1>b. Len(<<>>) <= QueueLen /\ <<>> \in Seq(Packet)
  OBVIOUS
<1>1. CASE UNCHANGED <<server, job>>
  BY <1>1, <1>a DEF PhaseInv
<1>2. CASE ServerInitEpt
  <2>1. client.session \in Nat /\ server.session \in Nat
    BY DEF TypeOK
  <2>2. server.session < MaxSessions
    BY <1>2, <2>1 DEF ServerInitEpt, Sessions
  <2> QED
    BY <1>2, <1>a, <2>2, Zenon DEF ServerInitEpt, PhaseInv
<1>3. CASE ServerInitRun
  BY <1>3, <1>a, <1>b DEF ServerInitRun, PhaseInv
<1>4. CASE ServerDeinitStop
  BY <1>4, <1>a DEF ServerDeinitStop
<1>5. CASE ServerDeinitEnd
  BY <1>5, <1>a, <1>b, Zenon DEF ServerDeinitEnd
<1>6. CASE ServerDrain
  <2>1. Tail(server.queue) \in Seq(Packet) /\ Len(Tail(server.queue)) <= QueueLen
    BY <1>6, <1>a, TakeFirst DEF ServerDrain
  <2> QED
    BY <1>6, <1>a, <2>1, Zenon DEF ServerDrain
<1>7. ASSUME NEW id \in CmdId, AddService(id) \/ DelService(id)
      PROVE  Goal
  BY <1>7, <1>a DEF AddService, DelService
<1>8. CASE ServerCb
  <2>1. CASE QueueFull
    BY <1>8, <1>a, <2>1 DEF ServerCb, PhaseInv
  <2>2. CASE ~QueueFull
    <3>1. Head(req) \in Packet
      BY <1>8, <1>a, TakeFirst DEF ServerCb, Received, Waiting
    <3>2. /\ Append(server.queue, Head(req)) \in Seq(Packet)
          /\ Len(Append(server.queue, Head(req))) <= QueueLen
      BY <1>a, <2>2, <3>1, PutLast DEF QueueFull
    <3> QED
      BY <1>8, <1>a, <2>2, <3>2, Zenon DEF ServerCb
  <2> QED
    BY <2>1, <2>2
<1>9. CASE ServerTake
  <2>1. CASE /\ server.queue # <<>>
             /\ job' = [pc |-> "execute", pkt |-> Head(server.queue), status |-> "pending"]
             /\ server' = [server EXCEPT !.queue = Tail(@)]
    <3>1. /\ Tail(server.queue) \in Seq(Packet) /\ Len(Tail(server.queue)) <= QueueLen
          /\ Head(server.queue) \in Packet
      BY <1>a, <2>1, TakeFirst
    <3> QED
      BY <1>9, <1>a, <2>1, <3>1, Zenon DEF ServerTake, Status
  <2>2. CASE /\ req # <<>> /\ UNCHANGED server
             /\ job' = [pc |-> "execute", pkt |-> Head(req), status |-> "pending"]
    <3>1. Head(req) \in Packet
      BY <1>a, <2>2, TakeFirst
    <3> QED
      BY <1>a, <2>2, <3>1 DEF PhaseInv, Status
  <2> QED
    BY <1>9, <2>1, <2>2 DEF ServerTake, Received, Waiting
<1>10. CASE ServerExecute
  <2>1. job' \in J
    <3>1. job \in [pc : {"execute", "reply"}, pkt : Packet, status : Status]
      BY <1>10, <1>a DEF ServerExecute, NoJob
    <3>2. \/ job' = NoJob
          \/ \E s \in {"ok", "exec_failed", "invalid_cmd"} :
               job' = [job EXCEPT !.pc = "reply", !.status = s]
      BY <1>10 DEF ServerExecute
    <3> QED
      BY <3>1, <3>2, Zenon DEF Status
  <2>2. UNCHANGED server
    BY <1>10 DEF ServerExecute
  <2> QED
    BY <1>a, <2>1, <2>2 DEF PhaseInv
<1>11. CASE ServerReply
  BY <1>11, <1>a DEF ServerReply, PhaseInv
<1> QED
  BY <1>1, <1>2, <1>3, <1>4, <1>5, <1>6, <1>7, <1>8, <1>9, <1>10, <1>11
     DEF Next, ClientStep, ServerStep, JobStep, vars, ExecuteNoMem, Execute, ExecuteStore,
     ExecuteSend, ClientCb, ClientInitEpt, ClientInitRun, ClientDeinit, ServerCbStopped

\* Every step that takes a buffer from a place puts it into another: the
\* packets in the two queues keep their types and the buffers are accounted
\* for (create_message, send, the callbacks, destroy).
LEMMA BufferStep ==
    ASSUME TypeOK, PhaseInv, BuffersAccounted, [Next]_vars
    PROVE  /\ req' \in Seq(Packet) /\ resp' \in Seq(Response)
           /\ free' \in [Dir -> Nat] /\ leaked' \in [Dir -> Nat]
           /\ BuffersAccounted'
<1> DEFINE Typed == /\ req' \in Seq(Packet) /\ resp' \in Seq(Response)
                    /\ free' \in [Dir -> Nat] /\ leaked' \in [Dir -> Nat]
           Goal == Typed /\ BuffersAccounted'
           Held == IF call.pc = "idle" THEN 0 ELSE 1
           Q == server.queue
           freeQ == free["req"]
           freeP == free["resp"]
           leakQ == leaked["req"]
           leakP == leaked["resp"]
           lenR == Len(req)
           lenP == Len(resp)
           lenQ == Len(Q)
<1>a. /\ req \in Seq(Packet) /\ resp \in Seq(Response) /\ Q \in Seq(Packet)
      /\ free \in [Dir -> Nat] /\ leaked \in [Dir -> Nat]
  BY DEF TypeOK, Dir
<1>n. /\ lenR \in Nat /\ lenP \in Nat /\ lenQ \in Nat /\ Held \in Nat
      /\ freeQ \in Nat /\ freeP \in Nat /\ leakQ \in Nat /\ leakP \in Nat
  BY <1>a DEF Dir
<1>b. /\ freeQ + leakQ + lenR + lenQ + Held = Buffers
      /\ freeP + leakP + lenP = Buffers
  BY DEF BuffersAccounted
<1>c. /\ freeQ' + leakQ' + lenR' + lenQ' + Held' = Buffers
      /\ freeP' + leakP' + lenP' = Buffers
      => BuffersAccounted'
  BY DEF BuffersAccounted
<1> HIDE DEF Held, Q, freeQ, freeP, leakQ, leakP, lenR, lenP, lenQ
<1>d. ASSUME UNCHANGED req
      PROVE  lenR' = lenR
  BY <1>d DEF lenR
<1>e. ASSUME UNCHANGED resp
      PROVE  lenP' = lenP
  BY <1>e DEF lenP
<1>f. ASSUME UNCHANGED Q
      PROVE  lenQ' = lenQ
  BY <1>f DEF lenQ
<1>g. ASSUME UNCHANGED free
      PROVE  freeQ' = freeQ /\ freeP' = freeP /\ free' \in [Dir -> Nat]
  BY <1>a, <1>g DEF freeQ, freeP
<1>h. ASSUME UNCHANGED leaked
      PROVE  leakQ' = leakQ /\ leakP' = leakP /\ leaked' \in [Dir -> Nat]
  BY <1>a, <1>h DEF leakQ, leakP
<1>i. ASSUME Destroy("req")
      PROVE  /\ freeQ' = freeQ + 1 /\ freeP' = freeP /\ free' \in [Dir -> Nat]
             /\ leakQ' = leakQ /\ leakP' = leakP /\ leaked' \in [Dir -> Nat]
  BY <1>a, <1>i DEF Destroy, Dir, freeQ, freeP, leakQ, leakP
<1>j. ASSUME req # <<>>, req' = Tail(req)
      PROVE  req' \in Seq(Packet) /\ Head(req) \in Packet /\ lenR' = lenR - 1
  BY <1>a, <1>j, TakeFirst DEF lenR
<1>k. ASSUME Q # <<>>, Q' = Tail(Q)
      PROVE  lenQ' = lenQ - 1
  BY <1>a, <1>k, TakeFirst DEF lenQ
<1>1. ASSUME UNCHANGED <<req, resp, free, leaked, Q, Held>>
      PROVE  Goal
  <2>1. UNCHANGED <<lenR, lenP, lenQ, freeQ, freeP, leakQ, leakP>>
    BY <1>1, <1>d, <1>e, <1>f, <1>g, <1>h
  <2> QED
    BY <1>1, <1>a, <1>b, <1>c, <2>1
<1>2. ASSUME NEW c \in Cmd, NEW id \in CmdId, Execute(c, id)
      PROVE  Goal
  <2>1. /\ free["req"] > 0 /\ free' = [free EXCEPT !["req"] = @ - 1]
        /\ UNCHANGED <<leaked, req, resp, Q>> /\ Held = 0 /\ Held' = 1
    BY <1>2 DEF Execute, Create, Held, Q
  <2>2. free' \in [Dir -> Nat] /\ freeQ' = freeQ - 1 /\ freeP' = freeP
    BY <1>a, <2>1 DEF Dir, freeQ, freeP
  <2>3. UNCHANGED <<leakQ, leakP, lenR, lenP, lenQ>>
    BY <1>d, <1>e, <1>f, <1>h, <2>1
  <2>4. /\ freeQ' + leakQ' + lenR' + lenQ' + Held' = Buffers
        /\ freeP' + leakP' + lenP' = Buffers
    BY <1>n, <1>b, <2>1, <2>2, <2>3
  <2> QED
    BY <1>a, <1>c, <2>1, <2>2, <2>4
<1>3. CASE ExecuteSend
  <2> DEFINE p == [cmd |-> call.cmd, msg_id |-> client.pending_id, cmd_id |-> call.cmd_id]
  <2>1. p \in Packet
    BY <1>3 DEF ExecuteSend, TypeOK, NoCall, Packet
  <2>2. /\ req' = Append(req, p) /\ Held = 1 /\ Held' = 0
        /\ UNCHANGED <<resp, free, leaked, Q>>
    BY <1>3 DEF ExecuteSend, NoCall, Held, Q
  <2> HIDE DEF p
  <2>3. req' \in Seq(Packet) /\ lenR' = lenR + 1
    BY <1>a, <2>1, <2>2, PutLast DEF lenR
  <2>4. UNCHANGED <<freeQ, freeP, leakQ, leakP, lenP, lenQ>>
    BY <1>e, <1>f, <1>g, <1>h, <2>2
  <2>5. /\ freeQ' + leakQ' + lenR' + lenQ' + Held' = Buffers
        /\ freeP' + leakP' + lenP' = Buffers
    BY <1>n, <1>b, <2>2, <2>3, <2>4
  <2> QED
    BY <1>a, <1>c, <2>2, <2>3, <2>5
<1>4. CASE ClientCb
  <2>1. /\ resp # <<>> /\ resp' = Tail(resp) /\ UNCHANGED <<req, Q, Held>>
    BY <1>4 DEF ClientCb, Received, Waiting, Held, Q
  <2>2. resp' \in Seq(Response) /\ lenP' = lenP - 1
    BY <1>a, <2>1, TakeFirst DEF lenP
  <2>3. UNCHANGED <<lenR, lenQ>>
    BY <1>d, <1>f, <2>1
  <2>4. \/ /\ free' = free /\ leaked' \in [Dir -> Nat]
           /\ leakP' = leakP + 1 /\ UNCHANGED <<leakQ, freeQ, freeP>>
        \/ /\ leaked' = leaked /\ free' \in [Dir -> Nat]
           /\ freeP' = freeP + 1 /\ UNCHANGED <<freeQ, leakQ, leakP>>
    <3>1. CASE Leak("resp")
      BY <1>a, <3>1 DEF Leak, Dir, freeQ, freeP, leakQ, leakP
    <3>2. CASE Destroy("resp")
      BY <1>a, <3>2 DEF Destroy, Dir, freeQ, freeP, leakQ, leakP
    <3> QED
      BY <1>4, <3>1, <3>2 DEF ClientCb
  <2>5. /\ freeQ' + leakQ' + lenR' + lenQ' + Held' = Buffers
        /\ freeP' + leakP' + lenP' = Buffers
    <3>1. freeQ' = freeQ /\ leakQ' = leakQ
          /\ \/ leakP' = leakP + 1 /\ freeP' = freeP
             \/ freeP' = freeP + 1 /\ leakP' = leakP
      BY <2>4, Zenon
    <3> QED BY <1>n, <1>b, <2>1, <2>2, <2>3, <3>1
  <2> QED
    BY <1>a, <1>c, <2>1, <2>2, <2>4, <2>5
<1>5. CASE ServerDrain
  <2>1. Q # <<>> /\ Q' = Tail(Q) /\ Destroy("req") /\ UNCHANGED <<req, resp, Held>>
    BY <1>5 DEF ServerDrain, TypeOK, Q, Held
  <2>2. /\ freeQ' + leakQ' + lenR' + lenQ' + Held' = Buffers
        /\ freeP' + leakP' + lenP' = Buffers
    BY <1>n, <1>b, <1>d, <1>e, <1>i, <1>k, <2>1
  <2> QED
    BY <1>a, <1>c, <1>i, <2>1, <2>2
<1>6. CASE ServerCbStopped
  <2>1. req # <<>> /\ req' = Tail(req) /\ Leak("req") /\ UNCHANGED <<resp, Q, Held>>
    BY <1>6 DEF ServerCbStopped, Received, Waiting, Held, Q
  <2>2. /\ leaked' \in [Dir -> Nat] /\ UNCHANGED free
        /\ leakQ' = leakQ + 1 /\ UNCHANGED <<leakP, freeQ, freeP>>
    BY <1>a, <2>1 DEF Leak, Dir, freeQ, freeP, leakQ, leakP
  <2>3. req' \in Seq(Packet) /\ lenR' = lenR - 1 /\ UNCHANGED <<lenP, lenQ>>
    BY <1>e, <1>f, <1>j, <2>1
  <2>4. /\ freeQ' + leakQ' + lenR' + lenQ' + Held' = Buffers
        /\ freeP' + leakP' + lenP' = Buffers
    BY <1>n, <1>b, <2>1, <2>2, <2>3
  <2> QED
    BY <1>a, <1>c, <2>1, <2>2, <2>3, <2>4
<1>7. CASE ServerCb
  <2>1. req # <<>> /\ req' = Tail(req) /\ UNCHANGED <<resp, Held>>
    BY <1>7 DEF ServerCb, Received, Waiting, Held
  <2>2. req' \in Seq(Packet) /\ lenR' = lenR - 1 /\ lenP' = lenP /\ Head(req) \in Packet
    BY <1>e, <1>j, <2>1
  <2>3. CASE QueueFull
    <3>1. Destroy("req") /\ UNCHANGED Q
      BY <1>7, <2>3 DEF ServerCb, Refuse, Q
    <3>2. /\ freeQ' + leakQ' + lenR' + lenQ' + Held' = Buffers
          /\ freeP' + leakP' + lenP' = Buffers
      BY <1>n, <1>b, <1>f, <1>i, <2>1, <2>2, <3>1
    <3> QED
      BY <1>a, <1>c, <1>i, <2>1, <2>2, <3>1, <3>2
  <2>4. CASE ~QueueFull
    <3>1. Q' = Append(Q, Head(req)) /\ UNCHANGED <<free, leaked>>
      BY <1>7, <2>4 DEF ServerCb, TypeOK, Q
    <3>2. lenQ' = lenQ + 1 /\ UNCHANGED <<freeQ, freeP, leakQ, leakP>>
      <4>1. lenQ' = lenQ + 1
        BY <1>a, <2>2, <3>1, PutLast DEF lenQ
      <4> QED
        BY <1>g, <1>h, <3>1, <4>1
    <3>3. /\ freeQ' + leakQ' + lenR' + lenQ' + Held' = Buffers
          /\ freeP' + leakP' + lenP' = Buffers
      BY <1>n, <1>b, <2>1, <2>2, <3>2
    <3> QED
      BY <1>a, <1>c, <2>1, <2>2, <3>1, <3>3
  <2> QED
    BY <2>3, <2>4
<1>8. CASE ServerTake
  <2>1. Destroy("req") /\ UNCHANGED <<resp, Held>>
    BY <1>8 DEF ServerTake, Held
  <2>2. CASE server.queue # <<>> /\ server' = [server EXCEPT !.queue = Tail(@)] /\ UNCHANGED req
    <3>1. Q # <<>> /\ Q' = Tail(Q)
      BY <2>2 DEF TypeOK, Q
    <3>2. /\ freeQ' + leakQ' + lenR' + lenQ' + Held' = Buffers
          /\ freeP' + leakP' + lenP' = Buffers
      BY <1>n, <1>b, <1>d, <1>e, <1>i, <1>k, <2>1, <2>2, <3>1
    <3> QED
      BY <1>a, <1>c, <1>i, <2>1, <2>2, <3>2
  <2>3. CASE req # <<>> /\ req' = Tail(req) /\ UNCHANGED server
    <3>1. UNCHANGED Q
      BY <2>3 DEF Q
    <3>2. /\ freeQ' + leakQ' + lenR' + lenQ' + Held' = Buffers
          /\ freeP' + leakP' + lenP' = Buffers
      BY <1>n, <1>b, <1>e, <1>f, <1>i, <1>j, <2>1, <2>3, <3>1
    <3> QED
      BY <1>a, <1>c, <1>i, <1>j, <2>1, <2>3, <3>2
  <2> QED
    BY <1>8, <2>2, <2>3 DEF ServerTake, Received, Waiting
<1>9. CASE ServerReply
  <2> DEFINE p == [cmd |-> job.pkt.cmd, msg_id |-> job.pkt.msg_id, status |-> job.status]
  <2>1. UNCHANGED <<req, Q, Held>>
    BY <1>9 DEF ServerReply, Q, Held
  <2>2. CASE Create("resp") /\ resp' = Append(resp, p)
    <3>1. p \in Response
      <4>1. job.pc # "idle"
        BY <1>9 DEF ServerReply
      <4> QED BY <4>1, ReplyFacts, Zenon
    <3> HIDE DEF p
    <3>2. resp' \in Seq(Response) /\ lenP' = lenP + 1
      BY <1>a, <2>2, <3>1, PutLast DEF lenP
    <3>3. /\ free' \in [Dir -> Nat] /\ freeP' = freeP - 1 /\ freeQ' = freeQ
          /\ UNCHANGED <<leaked, leakP, leakQ>>
      BY <1>a, <2>2 DEF Create, Dir, freeQ, freeP, leakQ, leakP
    <3>4. /\ freeQ' + leakQ' + lenR' + lenQ' + Held' = Buffers
          /\ freeP' + leakP' + lenP' = Buffers
      BY <1>n, <1>b, <1>d, <1>f, <2>1, <3>2, <3>3
    <3> QED
      BY <1>a, <1>c, <2>1, <3>2, <3>3, <3>4
  <2>3. CASE UNCHANGED <<resp, free, leaked>>
    BY <1>1, <2>1, <2>3
  <2> QED
    BY <1>9, <2>2, <2>3 DEF ServerReply
<1>10. CASE ServerInitRun
  <2>1. Q = <<>> /\ Q' = <<>> /\ UNCHANGED <<req, resp, free, leaked, Held>>
    BY <1>10 DEF ServerInitRun, PhaseInv, Q, Held
  <2> QED
    BY <1>1, <2>1
<1>11. CASE ServerDeinitEnd
  <2>1. Q = <<>> /\ Q' = <<>> /\ UNCHANGED <<req, resp, free, leaked, Held>>
    BY <1>11 DEF ServerDeinitEnd, Drained, TypeOK, Q, Held
  <2> QED
    BY <1>1, <2>1
<1>12. CASE ExecuteStore
  <2>1. UNCHANGED <<req, resp, free, leaked, Q>> /\ call.pc = "store"
    BY <1>12 DEF ExecuteStore, Q
  <2>2. call'.pc = "send"
    BY <1>12 DEF ExecuteStore, TypeOK, NoCall
  <2>3. Held' = Held
    BY <2>1, <2>2 DEF Held
  <2> QED
    BY <1>1, <2>1, <2>3
<1>13. CASE \/ ServerInitEpt \/ ServerDeinitStop
            \/ \E id \in CmdId : AddService(id) \/ DelService(id)
  <2>1. UNCHANGED <<req, resp, free, leaked, Q, Held>>
    BY <1>13 DEF ServerInitEpt, ServerDeinitStop, AddService, DelService, TypeOK, Q, Held
  <2> QED
    BY <1>1, <2>1
<1>14. CASE \/ ClientInitEpt \/ ClientInitRun \/ ClientDeinit \/ ServerExecute
            \/ \E c \in Cmd : ExecuteNoMem(c)
            \/ UNCHANGED vars
  <2>1. UNCHANGED <<req, resp, free, leaked, Q, Held>>
    BY <1>14 DEF ClientInitEpt, ClientInitRun, ClientDeinit, ServerExecute, ExecuteNoMem,
       vars, Q, Held
  <2> QED
    BY <1>1, <2>1
<1> QED
  BY <1>2, <1>3, <1>4, <1>5, <1>6, <1>7, <1>8, <1>9, <1>10, <1>11, <1>12, <1>13, <1>14
     DEF Next, ClientStep, ServerStep, JobStep

\* The commands keep their types: what is written into a command is the
\* status of a packet, the number of a command or a session (execute_cmd, the
\* callbacks and the server's task).
LEMMA CommandTypeStep ==
    ASSUME TypeOK, [Next]_vars
    PROVE  /\ env' \in {"freertos", "baremetal"}
           /\ status' \in [Cmd -> Status \cup {"new"}]
           /\ by' \in [Cmd -> Cmd \cup {None}]
           /\ issued' \in [Cmd -> 0 .. MaxSessions]
           /\ fate' \in [Cmd -> {"none", "sent", "answered", "ignored", "lost", "dropped",
                                 "no_response"}]
<1> USE RpcAssumption
<1> DEFINE F == {"none", "sent", "answered", "ignored", "lost", "dropped", "no_response"}
<1>a. /\ status \in [Cmd -> Status \cup {"new"}] /\ by \in [Cmd -> Cmd \cup {None}]
      /\ issued \in [Cmd -> 0 .. MaxSessions] /\ fate \in [Cmd -> F]
  BY Zenon DEF TypeOK
<1>b. \A c, w : w \in F /\ Settle(c, w) => fate' \in [Cmd -> F]
  BY <1>a, Zenon DEF Settle
<1>1. env' = env
  BY Zenon DEF Next, vars, ClientInitEpt, ClientInitRun, ClientDeinit, ExecuteNoMem, Execute,
     ClientStep, ExecuteStore, ExecuteSend, ClientCb, ServerInitEpt, ServerInitRun,
     ServerDeinitStop, ServerDeinitEnd, AddService, DelService, ServerStep, ServerCbStopped,
     ServerCb, JobStep, ServerTake, ServerExecute, ServerReply, ServerDrain
<1>2. issued' \in [Cmd -> 0 .. MaxSessions]
  <2>1. CASE issued' = issued
    BY <1>a, <2>1
  <2>2. ASSUME NEW c \in Cmd, NEW id \in CmdId, Execute(c, id)
        PROVE  issued' \in [Cmd -> 0 .. MaxSessions]
    BY <1>a, <2>2 DEF Execute, TypeOK
  <2> QED
    BY <2>1, <2>2, Zenon DEF Next, vars, ghosts, ClientInitEpt, ClientInitRun, ClientDeinit,
       ExecuteNoMem, ClientStep, ExecuteStore, ExecuteSend, ClientCb, ServerInitEpt,
       ServerInitRun, ServerDeinitStop, ServerDeinitEnd, AddService, DelService, ServerStep,
       ServerCbStopped, ServerCb, JobStep, ServerTake, ServerExecute, ServerReply, ServerDrain
<1>3. /\ status' \in [Cmd -> Status \cup {"new"}] /\ by' \in [Cmd -> Cmd \cup {None}]
  <2>1. CASE UNCHANGED <<status, by>>
    BY <1>a, <2>1
  <2>2. ASSUME NEW c \in Cmd, status' = [status EXCEPT ![c] = "pending"], by' = by
        PROVE  /\ status' \in [Cmd -> Status \cup {"new"}] /\ by' \in [Cmd -> Cmd \cup {None}]
    BY <1>a, <2>2 DEF Status
  <2>3. CASE ClientCb
    <3>1. Head(resp) \in Response
      BY <2>3, TakeFirst DEF ClientCb, Received, Waiting, TypeOK
    <3>2. Head(resp).cmd \in Cmd /\ Head(resp).status \in Status
      BY <3>1 DEF Response
    <3> QED
      BY <1>a, <2>3, <3>2, Zenon DEF ClientCb
  <2>4. \/ UNCHANGED <<status, by>>
        \/ \E c \in Cmd : status' = [status EXCEPT ![c] = "pending"] /\ by' = by
        \/ ClientCb
    BY Zenon DEF Next, vars, ghosts, ClientInitEpt, ClientInitRun, ClientDeinit,
       ExecuteNoMem, Execute, ClientStep, ExecuteStore, ExecuteSend, ServerInitEpt,
       ServerInitRun, ServerDeinitStop, ServerDeinitEnd, AddService, DelService, ServerStep,
       ServerCbStopped, ServerCb, JobStep, ServerTake, ServerExecute, ServerReply, ServerDrain
  <2> QED
    BY <2>1, <2>2, <2>3, <2>4
<1>4. fate' \in [Cmd -> F]
  <2>1. CASE fate' = fate
    BY <1>a, <2>1
  <2>2. CASE ExecuteSend \/ ServerCbStopped \/ ServerDrain \/ ServerReply
    BY <1>a, <1>b, <2>2 DEF ExecuteSend, ServerCbStopped, ServerDrain, ServerReply
  <2>3. CASE ClientCb
    <3>1. \/ Settle(Head(resp).cmd, "lost") \/ Settle(Head(resp).cmd, "answered")
          \/ Settle(Head(resp).cmd, "ignored")
      BY <2>3 DEF ClientCb
    <3> QED
      BY <1>b, <3>1
  <2>4. CASE ServerCb \/ ServerExecute
    BY <1>a, <1>b, <2>4, Zenon DEF ServerCb, ServerExecute
  <2>5. \/ fate' = fate
        \/ ExecuteSend \/ ServerCbStopped \/ ServerDrain \/ ServerReply
        \/ ClientCb \/ ServerCb \/ ServerExecute
    BY Zenon DEF Next, vars, ghosts, ClientInitEpt, ClientInitRun, ClientDeinit,
       ExecuteNoMem, Execute, ClientStep, ExecuteStore, ServerInitEpt,
       ServerInitRun, ServerDeinitStop, ServerDeinitEnd, AddService, DelService, ServerStep,
       JobStep, ServerTake
  <2> QED
    BY <2>1, <2>2, <2>3, <2>4, <2>5
<1> QED
  BY <1>1, <1>2, <1>3, <1>4, Zenon DEF TypeOK

\* A receive callback is called, not called or stopped (Ring, Received).
LEMMA CallbackTypeStep ==
    ASSUME TypeOK, [Next]_vars
    PROVE  rx' \in [Dir -> {"idle", "called", "stopped"}]
<1>a. rx \in [Dir -> {"idle", "called", "stopped"}]
  BY DEF TypeOK
<1>1. \/ UNCHANGED rx
      \/ \E d \in Dir, w \in {"called", "stopped"} : rx' = [rx EXCEPT ![d] = w]
  BY Zenon DEF Next, vars, ClientInitEpt, ClientInitRun, ClientDeinit, ExecuteNoMem, Execute,
     ClientStep, ExecuteStore, ExecuteSend, ClientCb, ServerInitEpt, ServerInitRun,
     ServerDeinitStop, ServerDeinitEnd, AddService, DelService, ServerStep, ServerCbStopped,
     ServerCb, JobStep, ServerTake, ServerExecute, ServerReply, ServerDrain, Ring, Received, Dir
<1> QED
  BY <1>a, <1>1

\* Types, phases and buffers together.
LEMMA AccountStep ==
    ASSUME TypeOK, PhaseInv, BuffersAccounted, [Next]_vars
    PROVE  TypeOK' /\ PhaseInv' /\ BuffersAccounted'
<1>1. /\ req' \in Seq(Packet) /\ resp' \in Seq(Response)
      /\ free' \in [Dir -> Nat] /\ leaked' \in [Dir -> Nat]
      /\ BuffersAccounted'
  BY BufferStep
<1>2. PhaseInv'
  BY ClientTypeStep, ServerTypeStep DEF PhaseInv
<1>3. free' \in [Dir -> 0 .. Buffers] /\ leaked' \in [Dir -> 0 .. Buffers]
  <2> DEFINE h == IF call.pc = "idle" THEN 0 ELSE 1
             freeQ == free["req"]
             freeP == free["resp"]
             leakQ == leaked["req"]
             leakP == leaked["resp"]
             lenR == Len(req)
             lenP == Len(resp)
             lenQ == Len(server.queue)
  <2>1. /\ freeQ' \in Nat /\ freeP' \in Nat /\ leakQ' \in Nat /\ leakP' \in Nat
        /\ lenR' \in Nat /\ lenP' \in Nat /\ h' \in Nat
    BY <1>1 DEF Dir
  <2>2. lenQ' \in Nat
    BY ServerTypeStep
  <2>3. /\ freeQ' + leakQ' + lenR' + lenQ' + h' = Buffers
        /\ freeP' + leakP' + lenP' = Buffers
    BY <1>1 DEF BuffersAccounted
  <2>4. Buffers \in Nat
    BY RpcAssumption
  <2> HIDE DEF h, freeQ, freeP, leakQ, leakP, lenR, lenP, lenQ
  <2>5. /\ freeQ' <= Buffers /\ leakQ' <= Buffers
        /\ freeP' <= Buffers /\ leakP' <= Buffers
    <3>1. \A a, b, c, d, e \in Nat : a + b + c + d + e = Buffers => a <= Buffers /\ b <= Buffers
      BY <2>4
    <3>2. \A a, b, c \in Nat : a + b + c = Buffers => a <= Buffers /\ b <= Buffers
      BY <2>4
    <3>3. freeQ' <= Buffers /\ leakQ' <= Buffers
      BY <2>1, <2>2, <2>3, <3>1
    <3>4. freeP' <= Buffers /\ leakP' <= Buffers
      BY <2>1, <2>3, <3>2
    <3> QED
      BY <3>3, <3>4
  <2>6. /\ \A d \in Dir : free'[d] \in 0 .. Buffers
        /\ \A d \in Dir : leaked'[d] \in 0 .. Buffers
    BY <2>1, <2>4, <2>5 DEF Dir, freeQ, freeP, leakQ, leakP
  <2> QED
    BY <1>1, <2>6
<1>4. TypeOK'
  BY <1>1, <1>3, ClientTypeStep, ServerTypeStep, CommandTypeStep, CallbackTypeStep, Zenon
     DEF TypeOK
<1> QED
  BY <1>1, <1>2, <1>4

-----------------------------------------------------------------------------
(* Responses and the commands they complete.                               *)

Carries(q, c, m) == \E k \in 1 .. Len(q) : q[k].cmd = c /\ q[k].msg_id = m

\* A request of command c with the id m, or its response, is still to come:
\* it is in a queue, or the server works on it.
Flying(c, m) ==
    \/ Carries(req, c, m) \/ Carries(server.queue, c, m) \/ Carries(resp, c, m)
    \/ job.pc # "idle" /\ job.pkt.cmd = c /\ job.pkt.msg_id = m

\* The response to d that completed c: its own one, one of an earlier
\* session, or one that arrived when pending_id had come round to it again.
\* (It comes round one command earlier while execute_cmd has counted and not
\* yet stored the new command.)
OnlyVeryLate(c, d) ==
    \/ d = c
    \/ issued[d] < issued[c]
    \/ c - d >= IdMod
    \/ c - d >= IdMod - 1 /\ c + 1 \in Cmd

\* n commands have been issued, in the sessions so far.
Issued(n) ==
    /\ \A c \in Cmd : issued[c] # 0 <=> c <= n
    /\ \A c \in Cmd : issued[c] <= client.session
    /\ client.phase = "up" => client.session # 0

\* execute_cmd works on the last one, and pending_cmd is the last one, or the
\* one before until execute_cmd has stored it.
Latest(n) ==
    /\ call.pc # "idle" =>
         client.phase = "up" /\ call.cmd = n /\ issued[n] = client.session
    /\ client.phase = "up" /\ client.pending_cmd # None =>
         /\ issued[client.pending_cmd] = client.session
         /\ client.pending_cmd = IF call.pc = "store" THEN n - 1 ELSE n

\* A packet belongs to a command issued and sent, and the id of a packet of
\* this session is pending_id less the commands issued after it.
PacketIds(n) ==
    \A c \in Cmd, m \in 0 .. IdMod - 1 : Flying(c, m) =>
      /\ c <= n
      /\ call.pc # "idle" => c # n
      /\ client.phase = "up" /\ issued[c] = client.session =>
           (m + (n - c)) % IdMod = client.pending_id

\* What completed a command.
Completed ==
    \A c \in Cmd : by[c] # None =>
      issued[c] # 0 /\ issued[by[c]] # 0 /\ OnlyVeryLate(c, by[c])

Numbered(n) == Issued(n) /\ Latest(n) /\ PacketIds(n) /\ Completed

\* A packet of a queue after a dequeue (esp_amp_env_queue_recv, the callbacks).
LEMMA CarriesLess ==
    ASSUME NEW S, NEW q \in Seq(S), q # <<>>, NEW c, NEW m
    PROVE  /\ Carries(Tail(q), c, m) => Carries(q, c, m)
           /\ Carries(q, Head(q).cmd, Head(q).msg_id)
<1>1. ASSUME Carries(Tail(q), c, m)
      PROVE  Carries(q, c, m)
  <2>1. PICK k \in 1 .. Len(Tail(q)) : Tail(q)[k].cmd = c /\ Tail(q)[k].msg_id = m
    BY <1>1 DEF Carries
  <2>2. Tail(q)[k] = q[k + 1] /\ k + 1 \in 1 .. Len(q)
    BY TakeFirst
  <2> QED
    BY <2>1, <2>2 DEF Carries
<1>2. Head(q) = q[1] /\ 1 \in 1 .. Len(q)
  BY TakeFirst
<1> QED
  BY <1>1, <1>2 DEF Carries

\* A packet of a queue after an enqueue (esp_amp_env_queue_send, send).
LEMMA CarriesMore ==
    ASSUME NEW S, NEW q \in Seq(S), NEW x \in S, NEW c, NEW m, Carries(Append(q, x), c, m)
    PROVE  Carries(q, c, m) \/ (x.cmd = c /\ x.msg_id = m)
<1>1. PICK k \in 1 .. Len(Append(q, x)) : Append(q, x)[k].cmd = c /\ Append(q, x)[k].msg_id = m
  BY DEF Carries
<1>2. \/ k \in 1 .. Len(q) /\ Append(q, x)[k] = q[k]
      \/ Append(q, x)[k] = x
  BY PutLast
<1> QED
  BY <1>1, <1>2 DEF Carries

\* Only execute_cmd makes a packet; every other step passes on the one it
\* was given, with its id (exec_cmd_and_send copies msg_id to the response).
LEMMA FlyStep ==
    ASSUME TypeOK, PhaseInv, [Next]_vars, NEW c, NEW m, Flying(c, m)'
    PROVE  Flying(c, m) \/ (ExecuteSend /\ c = call.cmd /\ m = client.pending_id)
<1> USE DEF Flying
<1>a. req \in Seq(Packet) /\ server.queue \in Seq(Packet) /\ resp \in Seq(Response)
  BY DEF TypeOK
<1>1. CASE UNCHANGED <<req, server.queue, resp, job>>
  BY <1>1
<1>2. CASE ExecuteSend
  <2> DEFINE p == [cmd |-> call.cmd, msg_id |-> client.pending_id, cmd_id |-> call.cmd_id]
  <2>1. p \in Packet
    BY <1>2 DEF ExecuteSend, TypeOK, NoCall, Packet
  <2>2. req' = Append(req, p) /\ UNCHANGED <<server, resp, job>>
    BY <1>2 DEF ExecuteSend
  <2>3. p.cmd = call.cmd /\ p.msg_id = client.pending_id
    OBVIOUS
  <2> HIDE DEF p
  <2>4. Carries(req', c, m) => Carries(req, c, m) \/ (p.cmd = c /\ p.msg_id = m)
    BY <1>a, <2>1, <2>2, CarriesMore
  <2> QED
    BY <1>2, <2>2, <2>3, <2>4
<1>3. CASE ClientCb
  <2>1. resp # <<>> /\ resp' = Tail(resp) /\ UNCHANGED <<req, server, job>>
    BY <1>3 DEF ClientCb, Received, Waiting
  <2>2. Carries(resp', c, m) => Carries(resp, c, m)
    BY <1>a, <2>1, CarriesLess
  <2> QED
    BY <2>1, <2>2
<1>4. CASE ServerDrain
  <2>1. /\ server.queue # <<>> /\ server'.queue = Tail(server.queue)
        /\ UNCHANGED <<req, resp, job>>
    BY <1>4 DEF ServerDrain, TypeOK
  <2>2. Carries(server'.queue, c, m) => Carries(server.queue, c, m)
    BY <1>a, <2>1, CarriesLess
  <2> QED
    BY <2>1, <2>2
<1>5. CASE ServerCbStopped
  <2>1. req # <<>> /\ req' = Tail(req) /\ UNCHANGED <<resp, server, job>>
    BY <1>5 DEF ServerCbStopped, Received, Waiting
  <2>2. Carries(req', c, m) => Carries(req, c, m)
    BY <1>a, <2>1, CarriesLess
  <2> QED
    BY <2>1, <2>2
<1>6. CASE ServerCb
  <2>1. req # <<>> /\ req' = Tail(req) /\ UNCHANGED <<resp, job>>
    BY <1>6 DEF ServerCb, Received, Waiting
  <2>2. /\ Carries(req', c, m) => Carries(req, c, m)
        /\ Carries(req, Head(req).cmd, Head(req).msg_id) /\ Head(req) \in Packet
    BY <1>a, <2>1, CarriesLess, TakeFirst
  <2>3. \/ server'.queue = server.queue
        \/ server'.queue = Append(server.queue, Head(req))
    BY <1>6 DEF ServerCb, TypeOK
  <2>4. Carries(server'.queue, c, m) =>
          Carries(server.queue, c, m) \/ (Head(req).cmd = c /\ Head(req).msg_id = m)
    <3>1. CASE server'.queue = server.queue
      BY <3>1, Zenon
    <3>2. CASE server'.queue = Append(server.queue, Head(req))
      BY <1>a, <2>2, <3>2, CarriesMore
    <3> QED BY <2>3, <3>1, <3>2, Zenon
  <2> QED
    BY <2>1, <2>2, <2>4
<1>7. CASE ServerTake
  <2>1. UNCHANGED resp
    BY <1>7 DEF ServerTake
  <2>2. CASE /\ server.queue # <<>> /\ server' = [server EXCEPT !.queue = Tail(@)]
             /\ job' = [pc |-> "execute", pkt |-> Head(server.queue), status |-> "pending"]
             /\ UNCHANGED req
    <3>1. server'.queue = Tail(server.queue)
      BY <2>2 DEF TypeOK
    <3>2. /\ Carries(server'.queue, c, m) => Carries(server.queue, c, m)
          /\ Carries(server.queue, Head(server.queue).cmd, Head(server.queue).msg_id)
      BY <1>a, <2>2, <3>1, CarriesLess
    <3> QED
      BY <2>1, <2>2, <3>2
  <2>3. CASE /\ req # <<>> /\ req' = Tail(req) /\ UNCHANGED server
             /\ job' = [pc |-> "execute", pkt |-> Head(req), status |-> "pending"]
    <3>1. /\ Carries(req', c, m) => Carries(req, c, m)
          /\ Carries(req, Head(req).cmd, Head(req).msg_id)
      BY <1>a, <2>3, CarriesLess
    <3> QED
      BY <2>1, <2>3, <3>1
  <2> QED
    BY <1>7, <2>2, <2>3 DEF ServerTake, Received, Waiting
<1>8. CASE ServerExecute
  <2>1. UNCHANGED <<req, resp, server>> /\ job.pc # "idle"
    BY <1>8 DEF ServerExecute
  <2>2. job'.pc # "idle" => job'.pkt = job.pkt
    <3>1. job' = NoJob \/ \E s : job' = [job EXCEPT !.pc = "reply", !.status = s]
      BY <1>8, Zenon DEF ServerExecute
    <3>2. job \in [pc : {"execute", "reply"}, pkt : Packet, status : Status]
      BY <2>1 DEF NoJob, TypeOK
    <3>3. CASE job' = NoJob
      BY <3>3 DEF NoJob
    <3>4. ASSUME NEW s, job' = [job EXCEPT !.pc = "reply", !.status = s]
          PROVE  job'.pkt = job.pkt
      BY <3>2, <3>4
    <3> QED
      BY <3>1, <3>3, <3>4, Zenon
  <2> QED
    BY <2>1, <2>2
<1>9. CASE ServerReply
  <2> DEFINE p == [cmd |-> job.pkt.cmd, msg_id |-> job.pkt.msg_id, status |-> job.status]
  <2>1. UNCHANGED <<req, server>> /\ job.pc # "idle" /\ job'.pc = "idle"
    BY <1>9 DEF ServerReply, NoJob
  <2>2. p \in Response
    BY <2>1, ReplyFacts, Zenon
  <2>3. resp' = resp \/ resp' = Append(resp, p)
    BY <1>9 DEF ServerReply
  <2>4. p.cmd = job.pkt.cmd /\ p.msg_id = job.pkt.msg_id
    OBVIOUS
  <2> HIDE DEF p
  <2>5. Carries(resp', c, m) => Carries(resp, c, m) \/ (p.cmd = c /\ p.msg_id = m)
    BY <1>a, <2>2, <2>3, CarriesMore, ZenonT(30)
  <2> QED
    BY <2>1, <2>4, <2>5
<1>10. CASE \/ ServerInitEpt \/ ServerInitRun \/ ServerDeinitStop \/ ServerDeinitEnd
            \/ \E id \in CmdId : AddService(id) \/ DelService(id)
  <2>1. UNCHANGED <<req, resp, job>>
    BY <1>10 DEF ServerInitEpt, ServerInitRun, ServerDeinitStop, ServerDeinitEnd, AddService,
       DelService
  <2>2. CASE ServerInitRun \/ ServerDeinitEnd
    <3>1. server'.queue = <<>> /\ server.queue = <<>>
      <4>1. CASE ServerInitRun
        BY <4>1 DEF ServerInitRun, PhaseInv
      <4>2. CASE ServerDeinitEnd
        BY <4>2 DEF ServerDeinitEnd, Drained, TypeOK
      <4> QED
        BY <2>2, <4>1, <4>2
    <3> QED
      BY <1>1, <2>1, <3>1
  <2>3. CASE ServerInitEpt \/ ServerDeinitStop \/ \E id \in CmdId : AddService(id) \/ DelService(id)
    <3>1. server'.queue = server.queue
      BY <2>3 DEF ServerInitEpt, ServerDeinitStop, AddService, DelService, TypeOK
    <3> QED
      BY <1>1, <2>1, <3>1
  <2> QED
    BY <1>10, <2>2, <2>3
<1>11. CASE \/ ClientInitEpt \/ ClientInitRun \/ ClientDeinit \/ ExecuteStore
            \/ \E d \in Cmd : ExecuteNoMem(d) \/ \E id \in CmdId : Execute(d, id)
            \/ UNCHANGED vars
  <2>1. UNCHANGED <<req, server.queue, resp, job>>
    BY <1>11 DEF ClientInitEpt, ClientInitRun, ClientDeinit, ExecuteStore, ExecuteNoMem,
       Execute, vars
  <2> QED
    BY <1>1, <2>1
<1> QED
  BY <1>2, <1>3, <1>4, <1>5, <1>6, <1>7, <1>8, <1>9, <1>10, <1>11, Zenon
     DEF Next, ClientStep, ServerStep, JobStep

\* The id of an earlier packet is less than pending_id by one more when
\* another command is issued, also when pending_id wraps around.
LEMMA NextTurn ==
    ASSUME NEW a \in Int, NEW pid \in Int, a % IdMod = pid
    PROVE  (a + 1) % IdMod = (pid + 1) % IdMod
<1> DEFINE q == a \div IdMod
           t == (pid + 1) \div IdMod
           m == (pid + 1) % IdMod
<1>0. IdMod \in Nat \ {0}
  BY RpcAssumption
<1>1. q \in Int /\ a = IdMod * q + pid
  BY IdDivMod
<1>2. t \in Int /\ m \in 0 .. IdMod - 1 /\ pid + 1 = IdMod * t + m
  BY IdDivMod
<1> HIDE DEF q, t, m
<1>3. a + 1 = IdMod * (q + t) + m
  BY <1>0, <1>1, <1>2
<1>4. (IdMod * (q + t) + m) % IdMod = m
  BY <1>1, <1>2, IdUnique
<1> QED
  BY <1>3, <1>4 DEF m

\* Two ids are the same only when a multiple of IdMod commands, none or at
\* least IdMod, lies between them.
LEMMA SameId ==
    ASSUME NEW m \in 0 .. IdMod - 1, NEW k \in Nat, (m + k) % IdMod = m
    PROVE  k = 0 \/ k >= IdMod
<1> DEFINE q == (m + k) \div IdMod
<1>0. IdMod \in Nat \ {0}
  BY RpcAssumption
<1>1. q \in Int /\ m + k = IdMod * q + m
  <2>1. m + k \in Int
    BY <1>0
  <2> QED BY <2>1, IdDivMod, Zenon
<1> HIDE DEF q
<1>2. k = IdMod * q
  BY <1>0, <1>1
<1>3. CASE q <= 0
  <2>1. IdMod * q <= IdMod * 0
    BY <1>1, <1>3, TimesIds
  <2> QED
    BY <1>0, <1>2, <2>1
<1>4. CASE 1 <= q
  <2>1. IdMod * 1 <= IdMod * q
    BY <1>1, <1>4, TimesIds
  <2> QED
    BY <1>0, <1>2, <2>1
<1> QED
  BY <1>1, <1>3, <1>4

\* The client's functions and its callback keep the numbers right.
LEMMA NumberedStep ==
    ASSUME TypeOK, PhaseInv, [Next]_vars, NEW n \in 0 .. MaxCmds, Numbered(n)
    PROVE  \E k \in 0 .. MaxCmds : Numbered(k)'
<1> DEFINE Id == 0 .. IdMod - 1
<1>a. /\ MaxCmds \in Nat /\ IdMod \in Nat \ {0} /\ None \notin Cmd /\ MaxSessions \in Nat
      /\ Cmd = 1 .. MaxCmds
  BY RpcAssumption DEF Cmd
<1>b. /\ issued \in [Cmd -> Nat] /\ client.session \in Nat /\ client.pending_id \in Id
      /\ client.pending_cmd \in Cmd \cup {None} /\ by \in [Cmd -> Cmd \cup {None}]
      /\ client.phase \in {"off", "ept", "up"}
  <2>1. issued \in [Cmd -> 0 .. MaxSessions] /\ by \in [Cmd -> Cmd \cup {None}]
    BY Zenon DEF TypeOK
  <2>2. issued \in [Cmd -> Nat]
    BY <1>a, <2>1
  <2> QED BY <2>1, <2>2, ClientFacts, Zenon
<1>c. Issued(n) /\ Latest(n) /\ PacketIds(n) /\ Completed
  BY DEF Numbered
<1>d. ASSUME ~ExecuteSend, NEW c \in Cmd, NEW m \in Id, Flying(c, m)'
      PROVE  Flying(c, m)
  BY <1>d, FlyStep
<1>1. CASE UNCHANGED <<client, call, issued, by>> /\ ~ExecuteSend
  <2>1. PacketIds(n)'
    BY <1>1, <1>c, <1>d DEF PacketIds
  <2>2. Issued(n)' /\ Latest(n)' /\ Completed'
    BY <1>1, <1>c DEF Issued, Latest, Completed, OnlyVeryLate
  <2> QED
    BY <2>1, <2>2 DEF Numbered
<1>2. CASE (ClientInitEpt \/ ClientDeinit) /\ ~ExecuteSend
  <2>1. /\ client'.phase # "up" /\ client'.session = client.session /\ call.pc = "idle"
        /\ UNCHANGED <<call, issued, by>>
    BY <1>2, <1>c, Zenon DEF ClientInitEpt, ClientDeinit, TypeOK, Latest, ghosts
  <2>2. PacketIds(n)'
    BY <1>2, <1>c, <1>d, <2>1 DEF PacketIds
  <2>3. Issued(n)' /\ Latest(n)' /\ Completed'
    BY <1>c, <2>1 DEF Issued, Latest, Completed, OnlyVeryLate
  <2> QED
    BY <2>2, <2>3 DEF Numbered
<1>3. CASE ClientInitRun /\ ~ExecuteSend
  <2>1. /\ client'.session = client.session + 1 /\ client'.pending_cmd = None
        /\ call.pc = "idle" /\ UNCHANGED <<call, issued, by>>
    BY <1>3, <1>c DEF ClientInitRun, Latest, ghosts
  <2>2. \A c \in Cmd : issued[c] < client'.session
    BY <1>b, <1>c, <2>1 DEF Issued
  <2>3. PacketIds(n)'
    BY <1>3, <1>b, <1>c, <1>d, <2>1, <2>2 DEF PacketIds
  <2>4. Issued(n)'
    BY <1>b, <1>c, <2>1, <2>2 DEF Issued
  <2>5. Latest(n)' /\ Completed'
    BY <1>c, <2>1 DEF Latest, Completed, OnlyVeryLate
  <2> QED
    BY <2>3, <2>4, <2>5 DEF Numbered
<1>4. ASSUME NEW c \in Cmd, NEW id \in CmdId, Execute(c, id)
      PROVE  \E k \in 0 .. MaxCmds : Numbered(k)'
  <2>1. /\ client.phase = "up" /\ call.pc = "idle" /\ IsNext(c)
        /\ client' = [client EXCEPT !.pending_id = NextId]
        /\ call' = [pc |-> "store", cmd |-> c, cmd_id |-> id]
        /\ issued' = [issued EXCEPT ![c] = client.session]
        /\ by' = by
    BY <1>4 DEF Execute
  <2>2. /\ client'.phase = "up" /\ client'.session = client.session
        /\ client'.pending_cmd = client.pending_cmd
        /\ client'.pending_id = (client.pending_id + 1) % IdMod
    BY <2>1 DEF TypeOK, NextId
  <2>3. c = n + 1
    <3>1. ~(c <= n)
      BY <1>c, <2>1 DEF IsNext, Issued
    <3>2. CASE c > n + 1
      <4>1. n + 1 \in 1 .. c - 1 /\ n + 1 \in Cmd
        BY <1>a, <3>2
      <4>2. issued[n + 1] # 0
        BY <2>1, <4>1 DEF IsNext
      <4> QED
        BY <1>c, <4>1, <4>2 DEF Issued
    <3> QED
      BY <1>a, <3>1, <3>2
  <2>4. /\ issued'[c] = client.session /\ client.session # 0
        /\ \A d \in Cmd : d # c => issued'[d] = issued[d]
        /\ \A d \in Cmd : issued[d] # 0 => d # c /\ issued'[d] = issued[d]
    BY <1>b, <1>c, <2>1 DEF Issued, IsNext
  <2>5. Issued(n + 1)'
    <3>1. \A d \in Cmd : issued'[d] # 0 <=> d <= n + 1
      <4>1. \A d \in Cmd : d <= n + 1 <=> (d <= n \/ d = c)
        BY <1>a, <2>3
      <4> QED
        BY <1>c, <2>4, <4>1 DEF Issued
    <3>2. \A d \in Cmd : issued'[d] <= client'.session
      BY <1>b, <1>c, <2>2, <2>4 DEF Issued
    <3> QED
      BY <2>2, <2>4, <3>1, <3>2 DEF Issued
  <2>6. Latest(n + 1)'
    <3>1. call'.pc = "store" /\ call'.cmd = n + 1 /\ issued'[n + 1] = client'.session
      BY <2>1, <2>2, <2>3, <2>4
    <3>2. ASSUME client.pending_cmd # None
          PROVE  /\ issued'[client.pending_cmd] = client'.session
                 /\ client.pending_cmd = (n + 1) - 1
      <4>1. issued[client.pending_cmd] = client.session /\ client.pending_cmd = n
        BY <1>c, <2>1, <3>2 DEF Latest
      <4>2. client.pending_cmd \in Cmd
        BY <1>b, <3>2
      <4> QED
        BY <1>a, <2>2, <2>4, <4>1, <4>2
    <3> QED
      BY <2>2, <3>1, <3>2 DEF Latest
  <2>7. PacketIds(n + 1)'
    <3> SUFFICES ASSUME NEW d \in Cmd, NEW m \in Id, Flying(d, m)'
                 PROVE  /\ d <= n + 1
                        /\ call'.pc # "idle" => d # n + 1
                        /\ client'.phase = "up" /\ issued'[d] = client'.session =>
                             (m + ((n + 1) - d)) % IdMod = client'.pending_id
      BY DEF PacketIds
    <3>1. ~ExecuteSend
      BY <2>1 DEF ExecuteSend
    <3>2. Flying(d, m)
      BY <1>d, <3>1
    <3>3. d <= n
      BY <1>c, <3>2 DEF PacketIds
    <3>4. d # n + 1 /\ d <= n + 1
      BY <1>a, <3>3
    <3>5. ASSUME issued'[d] = client'.session
          PROVE  (m + ((n + 1) - d)) % IdMod = client'.pending_id
      <4>1. issued[d] = client.session
        BY <2>2, <2>3, <2>4, <3>4, <3>5
      <4>2. (m + (n - d)) % IdMod = client.pending_id
        BY <1>c, <2>1, <3>2, <4>1 DEF PacketIds
      <4>3. /\ m + (n - d) \in Int /\ client.pending_id \in Int
            /\ m + ((n + 1) - d) = (m + (n - d)) + 1
        BY <1>a, <1>b
      <4> QED
        BY <2>2, <4>2, <4>3, NextTurn
    <3> QED
      BY <3>4, <3>5
  <2>8. Completed'
    <3> SUFFICES ASSUME NEW d \in Cmd, by[d] # None
                 PROVE  issued'[d] # 0 /\ issued'[by[d]] # 0 /\ OnlyVeryLate(d, by[d])'
      BY <2>1 DEF Completed
    <3>1. issued[d] # 0 /\ issued[by[d]] # 0 /\ OnlyVeryLate(d, by[d]) /\ by[d] \in Cmd
      BY <1>b, <1>c DEF Completed
    <3>2. issued'[d] = issued[d] /\ issued'[by[d]] = issued[by[d]]
      BY <2>4, <3>1
    <3> QED
      BY <2>1, <3>1, <3>2 DEF OnlyVeryLate
  <2>9. n + 1 \in 0 .. MaxCmds
    BY <1>a, <2>3
  <2> QED
    BY <2>5, <2>6, <2>7, <2>8, <2>9 DEF Numbered
<1>5. CASE ExecuteStore /\ ~ExecuteSend
  <2>1. /\ call.pc = "store" /\ client' = [client EXCEPT !.pending_cmd = call.cmd]
        /\ call' = [call EXCEPT !.pc = "send"] /\ UNCHANGED <<issued, by>>
    BY <1>5 DEF ExecuteStore, ghosts
  <2>2. /\ client'.phase = client.phase /\ client'.session = client.session
        /\ client'.pending_id = client.pending_id /\ client'.pending_cmd = n
        /\ call'.pc = "send" /\ call'.cmd = n /\ issued[n] = client.session
        /\ client.phase = "up"
    BY <1>c, <2>1 DEF TypeOK, NoCall, Latest
  <2>3. Issued(n)' /\ Latest(n)' /\ Completed'
    BY <1>c, <2>1, <2>2 DEF Issued, Latest, Completed, OnlyVeryLate
  <2>4. PacketIds(n)'
    BY <1>5, <1>c, <1>d, <2>1, <2>2 DEF PacketIds
  <2> QED
    BY <2>3, <2>4 DEF Numbered
<1>6. CASE ExecuteSend
  <2>1. /\ call.pc = "send" /\ call'.pc = "idle" /\ UNCHANGED <<client, issued, by>>
    BY <1>6 DEF ExecuteSend, NoCall
  <2>2. Issued(n)' /\ Latest(n)' /\ Completed'
    BY <1>c, <2>1 DEF Issued, Latest, Completed, OnlyVeryLate
  <2>3. PacketIds(n)'
    <3> SUFFICES ASSUME NEW c \in Cmd, NEW m \in Id, Flying(c, m)'
                 PROVE  c <= n /\ (client.phase = "up" /\ issued[c] = client.session =>
                                     (m + (n - c)) % IdMod = client.pending_id)
      BY <2>1 DEF PacketIds
    <3>1. CASE Flying(c, m)
      BY <1>c, <3>1 DEF PacketIds
    <3>2. CASE c = call.cmd /\ m = client.pending_id
      <4>1. c = n
        BY <1>c, <2>1, <3>2 DEF Latest
      <4>2. m + (n - c) = m /\ m \in 0 .. IdMod - 1
        BY <1>a, <4>1
      <4>3. m % IdMod = m
        BY <4>2, OwnId
      <4> QED
        BY <3>2, <4>1, <4>2, <4>3
    <3> QED
      BY <3>1, <3>2, FlyStep
  <2> QED
    BY <2>2, <2>3 DEF Numbered
<1>7. CASE ClientCb /\ ~ExecuteSend
  <2> DEFINE p == Head(resp)
             c == client.pending_cmd
  <2>1. UNCHANGED <<client, call, issued>> /\ resp # <<>>
    BY <1>7 DEF ClientCb, Received, Waiting
  <2>2. p \in Response /\ Carries(resp, p.cmd, p.msg_id)
    BY <2>1, TakeFirst, CarriesLess DEF TypeOK
  <2>3. p.cmd \in Cmd /\ p.msg_id \in Id /\ Flying(p.cmd, p.msg_id)
    BY <2>2 DEF Response, Flying
  <2>4. Issued(n)' /\ Latest(n)'
    BY <1>c, <2>1 DEF Issued, Latest
  <2>5. PacketIds(n)'
    BY <1>7, <1>c, <1>d, <2>1 DEF PacketIds
  <2>6. CASE by' = by
    <3>1. Completed'
      BY <1>c, <2>1, <2>6 DEF Completed, OnlyVeryLate
    <3> QED
      BY <2>4, <2>5, <3>1 DEF Numbered
  <2>7. CASE /\ client.phase = "up" /\ Matches(p)
             /\ by' = [by EXCEPT ![c] = p.cmd]
    <3>1. c \in Cmd /\ p.msg_id = client.pending_id /\ issued[c] = client.session
      BY <1>b, <1>c, <2>7 DEF Matches, Latest
    <3>2. p.cmd <= n /\ issued[p.cmd] # 0 /\ issued[c] # 0
      BY <1>c, <2>3, <2>7, <3>1 DEF PacketIds, Issued
    <3>3. OnlyVeryLate(c, p.cmd)
      <4>1. CASE issued[p.cmd] # client.session
        BY <1>b, <1>c, <2>3, <3>1, <4>1 DEF OnlyVeryLate, Issued
      <4>2. CASE issued[p.cmd] = client.session
        <5>1. (p.msg_id + (n - p.cmd)) % IdMod = p.msg_id
          BY <1>c, <2>3, <2>7, <3>1, <4>2 DEF PacketIds
        <5>2. n - p.cmd \in Nat /\ n \in Int /\ p.cmd \in Int
          BY <1>a, <2>3, <3>2
        <5>3. n - p.cmd = 0 \/ n - p.cmd >= IdMod
          BY <2>3, <5>1, <5>2, SameId
        <5>4. CASE call.pc = "store"
          <6>1. c = n - 1 /\ p.cmd # n
            BY <1>c, <2>3, <2>7, <3>1, <1>a, <5>4 DEF Latest, PacketIds
          <6>2. c - p.cmd >= IdMod - 1 /\ c + 1 \in Cmd
            BY <1>a, <5>2, <5>3, <6>1, <3>1
          <6> QED
            BY <6>2 DEF OnlyVeryLate
        <5>5. CASE call.pc # "store"
          <6>1. c = n
            BY <1>a, <1>c, <2>7, <3>1, <5>5 DEF Latest
          <6> QED
            BY <5>2, <5>3, <6>1 DEF OnlyVeryLate
        <5> QED
          BY <5>4, <5>5
      <4> QED
        BY <4>1, <4>2
    <3>4. by'[c] = p.cmd /\ \A d \in Cmd : d # c => by'[d] = by[d]
      BY <1>b, <2>7, <3>1
    <3>5. Completed'
      <4> SUFFICES ASSUME NEW d \in Cmd, by'[d] # None
                   PROVE  issued'[d] # 0 /\ issued'[by'[d]] # 0 /\ OnlyVeryLate(d, by[d])'
        BY DEF Completed
      <4>1. CASE d = c
        BY <2>1, <3>2, <3>3, <3>4, <4>1 DEF OnlyVeryLate
      <4>2. CASE d # c
        BY <1>c, <2>1, <3>4, <4>2 DEF Completed, OnlyVeryLate
      <4> QED
        BY <4>1, <4>2
    <3> QED
      BY <2>4, <2>5, <3>5 DEF Numbered
  <2> QED
    BY <1>7, <2>6, <2>7 DEF ClientCb
<1>8. \/ UNCHANGED <<client, call, issued, by>>
      \/ ClientInitEpt \/ ClientDeinit \/ ClientInitRun \/ ExecuteStore \/ ExecuteSend
      \/ ClientCb \/ \E c \in Cmd, id \in CmdId : Execute(c, id)
  BY Zenon DEF Next, vars, ghosts, ClientStep, ServerStep, JobStep, ExecuteNoMem, ServerInitEpt,
     ServerInitRun, ServerDeinitStop, ServerDeinitEnd, AddService, DelService,
     ServerCbStopped, ServerCb, ServerTake, ServerExecute, ServerReply, ServerDrain
<1> QED
  BY <1>1, <1>2, <1>3, <1>4, <1>5, <1>6, <1>7, <1>8

-----------------------------------------------------------------------------
(* Theorems.                                                               *)

IInv == TypeOK /\ PhaseInv /\ BuffersAccounted /\ \E n \in 0 .. MaxCmds : Numbered(n)

\* Nothing issued, nothing sent, all buffers free.
LEMMA InvInit == Init => IInv
<1> SUFFICES ASSUME Init
             PROVE  IInv
  OBVIOUS
<1> USE RpcAssumption
<1>1. TypeOK
  <2>1. /\ 0 \in 0 .. IdMod - 1 /\ 0 \in 0 .. MaxSessions
        /\ 0 \in 0 .. Buffers /\ Buffers \in 0 .. Buffers
    OBVIOUS
  <2>2. client \in [phase : {"off", "ept", "up"}, pending_id : 0 .. IdMod - 1,
                    pending_cmd : Cmd \cup {None}, session : 0 .. MaxSessions]
    BY <2>1 DEF Init
  <2>4. server \in [phase : {"off", "ept", "up", "drain"}, srv : SUBSET CmdId,
                    queue : Seq(Packet), session : 0 .. MaxSessions]
    BY <2>1 DEF Init
  <2>5. Len(server.queue) <= QueueLen /\ req \in Seq(Packet) /\ resp \in Seq(Response)
    BY DEF Init
  <2>3. /\ status \in [Cmd -> Status \cup {"new"}] /\ by \in [Cmd -> Cmd \cup {None}]
        /\ issued \in [Cmd -> 0 .. MaxSessions]
        /\ fate \in [Cmd -> {"none", "sent", "answered", "ignored", "lost", "dropped",
                             "no_response"}]
        /\ free \in [{"req", "resp"} -> 0 .. Buffers]
        /\ leaked \in [{"req", "resp"} -> 0 .. Buffers]
    BY <2>1 DEF Init, Dir
  <2>6. rx \in [Dir -> {"idle", "called", "stopped"}]
    BY DEF Init
  <2> QED
    BY <2>2, <2>3, <2>4, <2>5, <2>6, Zenon DEF Init, TypeOK, Dir
<1>2. PhaseInv
  BY DEF Init, PhaseInv
<1>3. BuffersAccounted
  <2>1. /\ free["req"] = Buffers /\ free["resp"] = Buffers /\ Buffers \in Nat
        /\ leaked["req"] = 0 /\ leaked["resp"] = 0
        /\ Len(req) = 0 /\ Len(resp) = 0 /\ Len(server.queue) = 0 /\ call.pc = "idle"
    BY DEF Init, NoCall, Dir
  <2> QED
    BY <2>1 DEF BuffersAccounted
<1>4. Numbered(0)
  <2>1. \A c, m : ~Flying(c, m)
    <3>1. req = <<>> /\ resp = <<>> /\ server.queue = <<>> /\ job.pc = "idle"
      BY DEF Init, NoJob
    <3>2. \A c, m : ~Carries(<<>>, c, m)
      BY DEF Carries
    <3> QED BY <3>1, <3>2, Zenon DEF Flying
  <2>2. /\ \A c \in Cmd : c > 0 /\ issued[c] = 0 /\ by[c] = None
        /\ client.session = 0 /\ client.phase = "off" /\ call.pc = "idle"
    <3>1. client.session = 0 /\ client.phase = "off" /\ call.pc = "idle"
      BY DEF Init, NoCall
    <3>2. issued = [c \in Cmd |-> 0] /\ by = [c \in Cmd |-> None]
      BY Zenon DEF Init
    <3>3. \A c \in Cmd : c > 0
      BY DEF Cmd
    <3> QED BY <3>1, <3>2, <3>3, Zenon
  <2>3. Issued(0)
    <3>1. \A c \in Cmd : ~(c <= 0)
      BY DEF Cmd
    <3>2. \A c \in Cmd : issued[c] <= client.session
      BY <2>2
    <3> QED
      BY <2>2, <3>1, <3>2, Zenon DEF Issued
  <2> QED
    BY <2>1, <2>2, <2>3 DEF Numbered, Latest, PacketIds, Completed
<1> QED
  BY <1>1, <1>2, <1>3, <1>4 DEF IInv

\* The inductive invariant, for any number of commands and any width of
\* pending_id.
THEOREM RpcInvariant == Spec => []IInv
<1>1. ASSUME IInv, [Next]_vars
      PROVE  IInv'
  <2>1. TypeOK' /\ PhaseInv' /\ BuffersAccounted'
    BY <1>1, AccountStep DEF IInv
  <2>2. PICK n \in 0 .. MaxCmds : Numbered(n)
    BY <1>1 DEF IInv
  <2>3. \E k \in 0 .. MaxCmds : Numbered(k)'
    BY <1>1, <2>2, NumberedStep DEF IInv
  <2> QED
    BY <2>1, <2>3 DEF IInv
<1>2. IInv /\ [Next]_vars => IInv'
  BY <1>1
<1> QED
  BY <1>2, InvInit, PTL DEF Spec

\* Every variable of client and server keeps its type: the queue stays within
\* queue_len and pending_id within its width.
THEOREM TypeCorrect == Spec => []TypeOK
<1>1. IInv => TypeOK
  BY DEF IInv
<1> QED
  BY <1>1, RpcInvariant, PTL

\* A step takes a buffer out of circulation only where the code does: a
\* request when server_cb finds no running server, a response when client_cb
\* finds no running client.
OnlyStoppedLeak ==
    /\ leaked'["req"] # leaked["req"] => server.phase # "up"
    /\ leaked'["resp"] # leaked["resp"] => client.phase # "up"

\* Every buffer of the two RPMsg queues is in exactly one place, none is given
\* back twice, and none leaves the circulation while client and server run.
\* Stopping one of them does cost buffers: those its callback finds are
\* leaked, and the theorem says only that they are counted.
THEOREM BuffersConserved == Spec => []BuffersAccounted /\ [][OnlyStoppedLeak]_vars
<1>1. IInv => BuffersAccounted
  BY DEF IInv
<1>2. ASSUME TypeOK, [Next]_vars
      PROVE  [OnlyStoppedLeak]_vars
  <2>1. \/ UNCHANGED leaked
        \/ Leak("req") /\ server.phase # "up"
        \/ Leak("resp") /\ client.phase # "up"
    BY <1>2, Zenon DEF Next, vars, ghosts, ClientInitEpt, ClientInitRun, ClientDeinit,
       ExecuteNoMem, Execute, ClientStep, ExecuteStore, ExecuteSend, ClientCb, ServerInitEpt,
       ServerInitRun, ServerDeinitStop, ServerDeinitEnd, AddService, DelService, ServerStep,
       ServerCbStopped, ServerCb, Refuse, JobStep, ServerTake, ServerExecute, ServerReply,
       ServerDrain, Create, Destroy
  <2>2. leaked \in [Dir -> Nat]
    BY <1>2, RpcAssumption DEF TypeOK
  <2> QED
    BY <2>1, <2>2 DEF Leak, OnlyStoppedLeak, Dir
<1>3. IInv /\ [Next]_vars => [OnlyStoppedLeak]_vars
  BY <1>2 DEF IInv
<1> QED
  BY <1>1, <1>3, RpcInvariant, PTL DEF Spec

\* client_cb matches by msg_id alone.  Within a session of the client it can
\* be wrong only by a response IdMod - 1 commands late or more.
OwnOrVeryLate == \A c \in Cmd : by[c] \in Cmd => OnlyVeryLate(c, by[c])

\* However many commands there are: a command is completed by its own
\* response, by one of an earlier session, or by a response so late that
\* pending_id has come round.
THEOREM OnlyVeryLateResponses == Spec => []OwnOrVeryLate
<1>1. ASSUME IInv
      PROVE  OwnOrVeryLate
  <2>1. None \notin Cmd
    BY RpcAssumption DEF Cmd
  <2>2. Completed
    BY <1>1 DEF IInv, Numbered
  <2> QED
    BY <2>1, <2>2 DEF OwnOrVeryLate, Completed
<1>2. IInv => OwnOrVeryLate
  BY <1>1
<1> QED
  BY <1>2, RpcInvariant, PTL

\* As long as pending_id does not come round, a late response completes no
\* other command of its session.
THEOREM LateResponseIgnored == MaxCmds <= IdMod => (Spec => []OwnResponse)
<1> SUFFICES ASSUME MaxCmds <= IdMod
             PROVE  Spec => []OwnResponse
  OBVIOUS
<1>1. ASSUME OwnOrVeryLate
      PROVE  OwnResponse
  <2> SUFFICES ASSUME NEW c \in Cmd, by[c] \in Cmd
               PROVE  by[c] = c \/ issued[by[c]] < issued[c]
    BY DEF OwnResponse
  <2>1. OnlyVeryLate(c, by[c])
    BY <1>1 DEF OwnOrVeryLate
  <2>2. \A d \in Cmd : ~(c - d >= IdMod) /\ ~(c - d >= IdMod - 1 /\ c + 1 \in Cmd)
    BY RpcAssumption DEF Cmd
  <2> QED
    BY <2>1, <2>2 DEF OnlyVeryLate
<1>2. OwnOrVeryLate => OwnResponse
  BY <1>1
<1> QED
  BY <1>2, OnlyVeryLateResponses, PTL
=============================================================================
