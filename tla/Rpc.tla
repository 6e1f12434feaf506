-------------------------------- MODULE Rpc --------------------------------
(***************************************************************************)
(* Remote procedure calls (src/rpc): a client on one core, a server on the *)
(* other, and a RPMsg queue with its pool of buffers in each direction.    *)
(* The client callback runs in an interrupt or a poll, between any two     *)
(* steps of execute_cmd.  The FreeRTOS server queues requests for its      *)
(* task; the bare-metal server executes them in the callback.  A client or *)
(* server is initialised and stopped by the task that uses it.             *)
(***************************************************************************)
EXTENDS Integers, Sequences, FiniteSets

CONSTANTS
    MaxCmds,      \* bound: the number of commands the application issues
    CmdId,        \* their cmd_id
    None,         \* no command: NULL
    Buffers,      \* number of buffers of each RPMsg queue
    QueueLen,     \* cfg->queue_len, of the FreeRTOS server
    SrvTblLen,    \* cfg->srv_tbl_len
    IdMod,        \* pending_id counts modulo this (2^16 in the code)
    MaxSessions   \* bound: the number of initialisations

ASSUME RpcAssumption ==
    /\ {MaxCmds, Buffers, QueueLen, SrvTblLen, MaxSessions} \subseteq Nat \ {0}
    /\ IdMod \in Nat \ {0, 1}
    /\ None \notin Nat

\* The commands (esp_amp_rpc_cmd_t), in the order they are issued.
Cmd == 1 .. MaxCmds

\* The two queues: requests to the server, responses to the client.
Dir == {"req", "resp"}

\* A packet with the command it belongs to.
Packet == [cmd : Cmd, msg_id : 0 .. IdMod - 1, cmd_id : CmdId]
Status == {"pending", "ok", "exec_failed", "invalid_cmd"}
Response == [cmd : Cmd, msg_id : 0 .. IdMod - 1, status : Status]

VARIABLES
    env,        \* "freertos" or "baremetal": where the server runs
    client,     \* esp_amp_rpc_client_inst_t; its endpoint exists unless "off"
    call,       \* execute_cmd in progress
    req, resp,  \* packets sent and not received, oldest first
    rx,         \* rx[d]: is the receive callback of queue d called, or to be?
    free,       \* free[d]: buffers that create_message can take
    server,     \* esp_amp_rpc_server_inst_t; its endpoint exists unless "off"
    job,        \* the request the server is working on
    status,     \* status[c]: cmd->status
    by,         \* by[c]: the command whose response has written cmd c
    issued,     \* issued[c]: the client session that issued c; 0: not issued
    fate,       \* fate[c]: what became of the request of c, or of its response
    leaked      \* leaked[d]: buffers that will never be given back

\* The next command: all the earlier ones have been issued.
IsNext(c) == issued[c] = 0 /\ \A d \in 1 .. c - 1 : issued[d] # 0

Sessions == client.session + server.session

ghosts == <<by, issued, fate>>
vars == <<env, client, call, req, resp, rx, free, server, job, status, by, issued, fate,
          leaked>>

NoCall == [pc |-> "idle", cmd |-> None, cmd_id |-> None]
NoJob == [pc |-> "idle", pkt |-> None, status |-> "pending"]

Init ==
    /\ env \in {"freertos", "baremetal"}
    /\ client = [phase |-> "off", pending_id |-> 0, pending_cmd |-> None, session |-> 0]
    /\ call = NoCall
    /\ req = <<>> /\ resp = <<>>
    /\ rx = [d \in Dir |-> "idle"]
    /\ free = [d \in Dir |-> Buffers]
    /\ server = [phase |-> "off", srv |-> {}, queue |-> <<>>, session |-> 0]
    /\ job = NoJob
    /\ status = [c \in Cmd |-> "new"]
    /\ by = [c \in Cmd |-> None]
    /\ issued = [c \in Cmd |-> 0]
    /\ fate = [c \in Cmd |-> "none"]
    /\ leaked = [d \in Dir |-> 0]

\* esp_amp_rpmsg_create_message, esp_amp_rpmsg_destroy; a callback that
\* returns without destroying, or no endpoint at all, leaks the buffer.
Create(d) == free[d] > 0 /\ free' = [free EXCEPT ![d] = @ - 1] /\ UNCHANGED leaked
Destroy(d) == free' = [free EXCEPT ![d] = @ + 1] /\ UNCHANGED leaked
Leak(d) == leaked' = [leaked EXCEPT ![d] = @ + 1] /\ UNCHANGED free
Settle(c, what) == fate' = [fate EXCEPT ![c] = what]

-----------------------------------------------------------------------------
(* The RPMsg receiver of each queue (rx_callback and poll of RpMsg).  A    *)
(* notification has the callback called, which goes on until the queue is  *)
(* empty or a packet finds no endpoint; then later packets wait for a      *)
(* notification that the callback has not answered yet.                    *)

Waiting(d) == IF d = "req" THEN req ELSE resp

\* The notification of a send.
Ring(d) == rx' = [rx EXCEPT ![d] = "called"]

\* Mutant of Received: the callback returns after one packet.
ReceivedOne(d, found) ==
    /\ rx[d] = "called" /\ Waiting(d) # <<>>
    /\ rx' = [rx EXCEPT ![d] = "idle"]

\* The callback takes a packet and finds its endpoint, or does not.  Then it
\* returns, and is called again if another notification came meanwhile or if
\* the receiver polls.
Received(d, found) ==
    /\ rx[d] = "called" /\ Waiting(d) # <<>>
    /\ \/ UNCHANGED rx
       \/ ~found /\ rx' = [rx EXCEPT ![d] = "stopped"]

-----------------------------------------------------------------------------
(* The client.                                                             *)

\* esp_amp_rpc_client_init: the endpoint can be called before running is set
ClientInitEpt ==
    /\ client.phase = "off" /\ Sessions < MaxSessions
    /\ client' = [client EXCEPT !.phase = "ept"]
    /\ UNCHANGED <<env, call, req, resp, rx, free, server, job, status, ghosts, leaked>>

ClientInitRun ==
    /\ client.phase = "ept"
    /\ client' = [phase |-> "up", pending_id |-> 0, pending_cmd |-> None,
                  session |-> client.session + 1]
    /\ UNCHANGED <<env, call, req, resp, rx, free, server, job, status, ghosts, leaked>>

ClientDeinit ==
    /\ client.phase = "up" /\ call.pc = "idle"
    /\ client' = [client EXCEPT !.phase = "off", !.pending_id = 0, !.pending_cmd = None]
    /\ UNCHANGED <<env, call, req, resp, rx, free, server, job, status, ghosts, leaked>>

\* Mutant of NextId: the counter is not kept to 16 bits.
NextIdUnwrapped == client.pending_id + 1

NextId == (client.pending_id + 1) % IdMod

\* esp_amp_rpc_client_execute_cmd: a buffer, then ++pending_id, then
\* pending_cmd, then the packet.
Execute(c, id) ==
    /\ client.phase = "up" /\ call.pc = "idle" /\ IsNext(c)
    /\ Create("req")
    /\ status' = [status EXCEPT ![c] = "pending"]
    /\ client' = [client EXCEPT !.pending_id = NextId]
    /\ call' = [pc |-> "store", cmd |-> c, cmd_id |-> id]
    /\ issued' = [issued EXCEPT ![c] = client.session]
    /\ UNCHANGED <<env, req, resp, rx, server, job, by, fate>>

\* ESP_AMP_RPC_ERR_NO_MEM
ExecuteNoMem(c) ==
    /\ client.phase = "up" /\ call.pc = "idle" /\ IsNext(c)
    /\ free["req"] = 0
    /\ status' = [status EXCEPT ![c] = "pending"]
    /\ UNCHANGED <<env, client, call, req, resp, rx, free, server, job, ghosts, leaked>>

ExecuteStore ==
    /\ call.pc = "store"
    /\ client' = [client EXCEPT !.pending_cmd = call.cmd]
    /\ call' = [call EXCEPT !.pc = "send"]
    /\ UNCHANGED <<env, req, resp, rx, free, server, job, status, ghosts, leaked>>

ExecuteSend ==
    /\ call.pc = "send"
    /\ req' = Append(req, [cmd |-> call.cmd, msg_id |-> client.pending_id,
                           cmd_id |-> call.cmd_id])
    /\ Ring("req")
    /\ Settle(call.cmd, "sent")
    /\ call' = NoCall
    /\ UNCHANGED <<env, client, resp, free, server, job, status, by, issued, leaked>>

\* Mutant of Matches: any response completes the pending command.
MatchesAny(p) == client.pending_cmd # None

\* "if response to current pending request"
Matches(p) == client.pending_cmd # None /\ p.msg_id = client.pending_id

\* client_cb
ClientCb ==
    /\ Received("resp", client.phase # "off")
    /\ resp' = Tail(resp)
    /\ LET p == Head(resp)
           c == client.pending_cmd
       IN IF client.phase # "up"
          THEN Leak("resp") /\ Settle(p.cmd, "lost") /\ UNCHANGED <<status, by>>
          ELSE /\ Destroy("resp")
               /\ IF Matches(p)
                  THEN /\ status' = [status EXCEPT ![c] = p.status]
                       /\ by' = [by EXCEPT ![c] = p.cmd]
                       /\ Settle(p.cmd, "answered")
                  ELSE Settle(p.cmd, "ignored") /\ UNCHANGED <<status, by>>
    /\ UNCHANGED <<env, client, call, req, server, job, issued>>

-----------------------------------------------------------------------------
(* The server: initialisation and services.                                *)

\* esp_amp_rpc_server_init: the endpoint first.  If the queue cannot be
\* created it returns NULL here, and the endpoint stays.
ServerInitEpt ==
    /\ server.phase = "off" /\ Sessions < MaxSessions
    /\ server' = [server EXCEPT !.phase = "ept"]
    /\ UNCHANGED <<env, client, call, req, resp, rx, free, job, status, ghosts, leaked>>

ServerInitRun ==
    /\ server.phase = "ept"
    /\ server' = [phase |-> "up", srv |-> {}, queue |-> <<>>, session |-> server.session + 1]
    /\ UNCHANGED <<env, client, call, req, resp, rx, free, job, status, ghosts, leaked>>

\* esp_amp_rpc_server_deinit: stop, drain, and remove the endpoint.
ServerDeinitStop ==
    /\ server.phase = "up" /\ job.pc = "idle"
    /\ server' = [server EXCEPT !.phase = "drain"]
    /\ UNCHANGED <<env, client, call, req, resp, rx, free, job, status, ghosts, leaked>>

ServerDrain ==
    /\ server.phase = "drain" /\ server.queue # <<>>
    /\ Destroy("req")
    /\ Settle(Head(server.queue).cmd, "lost")
    /\ server' = [server EXCEPT !.queue = Tail(@)]
    /\ UNCHANGED <<env, client, call, req, resp, rx, job, status, by, issued>>

Drained == server.queue = <<>>

ServerDeinitEnd ==
    /\ server.phase = "drain" /\ Drained
    /\ server' = [server EXCEPT !.phase = "off", !.srv = {}, !.queue = <<>>]
    /\ UNCHANGED <<env, client, call, req, resp, rx, free, job, status, ghosts, leaked>>

\* esp_amp_rpc_server_add_service, esp_amp_rpc_server_del_service
AddService(id) ==
    /\ server.phase = "up"
    /\ id \notin server.srv /\ Cardinality(server.srv) < SrvTblLen
    /\ server' = [server EXCEPT !.srv = @ \cup {id}]
    /\ UNCHANGED <<env, client, call, req, resp, rx, free, job, status, ghosts, leaked>>

DelService(id) ==
    /\ server.phase = "up" /\ id \in server.srv
    /\ server' = [server EXCEPT !.srv = @ \ {id}]
    /\ UNCHANGED <<env, client, call, req, resp, rx, free, job, status, ghosts, leaked>>

-----------------------------------------------------------------------------
(* The server: requests.                                                   *)

\* esp_amp_env_queue_send, with no timeout, fails
QueueFull == Len(server.queue) = QueueLen

\* Mutant of Refuse: a request that does not fit in the queue is forgotten.
RefuseForgets == UNCHANGED <<free, leaked>>

Refuse == Destroy("req")

\* server_cb without a running server, in both environments
ServerCbStopped ==
    /\ server.phase # "up"
    /\ Received("req", server.phase # "off")
    /\ req' = Tail(req)
    /\ Leak("req")
    /\ Settle(Head(req).cmd, "lost")
    /\ UNCHANGED <<env, client, call, resp, server, job, status, by, issued>>

\* server_cb under FreeRTOS: "if queue is full ... destroy rpmsg message"
ServerCb ==
    /\ env = "freertos" /\ server.phase = "up"
    /\ Received("req", TRUE)
    /\ req' = Tail(req)
    /\ IF QueueFull
       THEN Refuse /\ Settle(Head(req).cmd, "dropped") /\ UNCHANGED server
       ELSE /\ server' = [server EXCEPT !.queue = Append(@, Head(req))]
            /\ UNCHANGED <<free, leaked, fate>>
    /\ UNCHANGED <<env, client, call, resp, job, status, by, issued>>

\* exec_cmd_and_send copies the request and destroys it: called by
\* esp_amp_rpc_server_run, or by the callback on bare metal.
ServerTake ==
    /\ job.pc = "idle" /\ server.phase = "up"
    /\ \/ /\ env = "freertos" /\ server.queue # <<>>
          /\ job' = [pc |-> "execute", pkt |-> Head(server.queue), status |-> "pending"]
          /\ server' = [server EXCEPT !.queue = Tail(@)]
          /\ UNCHANGED <<req, rx>>
       \/ /\ env = "baremetal" /\ Received("req", TRUE)
          /\ job' = [pc |-> "execute", pkt |-> Head(req), status |-> "pending"]
          /\ req' = Tail(req)
          /\ UNCHANGED server
    /\ Destroy("req")
    /\ UNCHANGED <<env, client, call, resp, status, ghosts>>

\* The handler of the command says how it went and whether there is a
\* response; without a handler the response says so.
ServerExecute ==
    /\ job.pc = "execute"
    /\ IF job.pkt.cmd_id \in server.srv
       THEN \/ \E s \in {"ok", "exec_failed"} : job' = [job EXCEPT !.pc = "reply", !.status = s]
               /\ UNCHANGED fate
            \/ job' = NoJob /\ Settle(job.pkt.cmd, "no_response")
       ELSE job' = [job EXCEPT !.pc = "reply", !.status = "invalid_cmd"] /\ UNCHANGED fate
    /\ UNCHANGED <<env, client, call, req, resp, rx, free, server, status, by, issued, leaked>>

\* With no buffer for it the response is dropped.
ServerReply ==
    /\ job.pc = "reply"
    /\ job' = NoJob
    /\ \/ /\ Create("resp")
          /\ resp' = Append(resp, [cmd |-> job.pkt.cmd, msg_id |-> job.pkt.msg_id,
                                   status |-> job.status])
          /\ Ring("resp")
          /\ UNCHANGED fate
       \/ /\ free["resp"] = 0
          /\ Settle(job.pkt.cmd, "dropped")
          /\ UNCHANGED <<resp, rx, free, leaked>>
    /\ UNCHANGED <<env, client, call, req, server, status, by, issued>>

-----------------------------------------------------------------------------
ClientStep == ExecuteStore \/ ExecuteSend
ServerStep == ServerCbStopped \/ ServerCb
JobStep == ServerTake \/ ServerExecute \/ ServerReply \/ ServerDrain

Next ==
    \/ ClientInitEpt \/ ClientInitRun \/ ClientDeinit
    \/ \E c \in Cmd : ExecuteNoMem(c) \/ \E id \in CmdId : Execute(c, id)
    \/ ClientStep \/ ClientCb
    \/ ServerInitEpt \/ ServerInitRun \/ ServerDeinitStop \/ ServerDeinitEnd
    \/ \E id \in CmdId : AddService(id) \/ DelService(id)
    \/ ServerStep \/ JobStep

Spec == Init /\ [][Next]_vars

\* A notification interrupts its receiver, or the receiver polls; the callback
\* takes what is waiting, and the tasks of client and server go on.  Nothing
\* makes them start or stop, or send and so notify again.
FairSpec ==
    Spec /\ WF_vars(ClientStep) /\ WF_vars(ClientCb) /\ WF_vars(ServerStep) /\ WF_vars(JobStep)

-----------------------------------------------------------------------------
(* Properties.                                                             *)

\* Every variable keeps its type: pending_id is 16 bits wide, the queues and
\* the service table are bounded.
TypeOK ==
    /\ env \in {"freertos", "baremetal"}
    /\ client \in [phase : {"off", "ept", "up"}, pending_id : 0 .. IdMod - 1,
                   pending_cmd : Cmd \cup {None}, session : 0 .. MaxSessions]
    /\ call \in {NoCall} \cup [pc : {"store", "send"}, cmd : Cmd, cmd_id : CmdId]
    /\ req \in Seq(Packet) /\ resp \in Seq(Response)
    /\ rx \in [Dir -> {"idle", "called", "stopped"}]
    /\ free \in [Dir -> 0 .. Buffers]
    /\ server \in [phase : {"off", "ept", "up", "drain"}, srv : SUBSET CmdId,
                   queue : Seq(Packet), session : 0 .. MaxSessions]
    /\ Len(server.queue) <= QueueLen
    /\ job \in {NoJob} \cup [pc : {"execute", "reply"}, pkt : Packet, status : Status]
    /\ status \in [Cmd -> Status \cup {"new"}]
    /\ by \in [Cmd -> Cmd \cup {None}]
    /\ issued \in [Cmd -> 0 .. MaxSessions]
    /\ fate \in [Cmd -> {"none", "sent", "answered", "ignored", "lost", "dropped", "no_response"}]
    /\ leaked \in [Dir -> 0 .. Buffers]

\* A late response does not complete another command: a command is completed
\* by the response to itself, or, because pending_id starts from 0 again, by
\* one to a command of an earlier session of the client.
OwnResponse == \A c \in Cmd : by[c] \in Cmd => by[c] = c \/ issued[by[c]] < issued[c]

\* No buffer is lost or freed twice: each one is free, carries a packet, is
\* held by execute_cmd or the server's queue, or was leaked by a callback
\* that found no running client or server.
BuffersAccounted ==
    /\ free["req"] + leaked["req"] + Len(req) + Len(server.queue)
         + (IF call.pc = "idle" THEN 0 ELSE 1) = Buffers
    /\ free["resp"] + leaked["resp"] + Len(resp) = Buffers

\* Packets wait behind one that found no endpoint, and nothing will call the
\* receive callback for them.
Stranded(d) == Waiting(d) # <<>> /\ rx[d] = "stopped"

\* Unless a queue stays stranded, every command that is sent is settled: its
\* response arrives, or the request or the response is dropped in one of the
\* ways the code has, or the handler wanted no response.  None waits for ever
\* in between, whenever client and server are stopped and started.
CommandSettles ==
    (\A d \in Dir : []<>~Stranded(d)) =>
      \A c \in Cmd : fate[c] = "sent" ~> fate[c] # "sent"
=============================================================================
