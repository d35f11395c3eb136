----------------------------- MODULE PipeServer -----------------------------
(***************************************************************************)
(* Calls to the service over its LPC port: SbieDll_CallServer in           *)
(* dll/callsvc.c and the worker threads of svc/PipeServer.cpp (the         *)
(* implementation that USE_NEW_LPC_IMPL selects).                          *)
(*                                                                         *)
(* A message is cut into chunks that fit the port.  The client sends the   *)
(* chunks of its request one by one, each of them answered by an empty     *)
(* message, gets the first chunk of the reply in answer to its last one    *)
(* and asks for the others with empty messages.  The service keeps one     *)
(* SClient per connection.  Lengths are counted in chunks.                 *)
(***************************************************************************)
EXTENDS Integers, Sequences

CONSTANTS
    Clients,     \* client threads, each with a connection of its own
    Workers,     \* the threads of PipeServer
    MaxLen,      \* bound: chunks of a message
    SeqMod,      \* 2^w for the w bits of a sequence number
    MaxCalls,    \* bound: calls
    MaxConns,    \* bound: connections
    MayFail      \* bound: the connections for which AllocMsg may fail

ASSUME PipeAssumption == /\ MaxLen \in Nat \ {0} /\ SeqMod \in Nat \ {0}
                         /\ MaxCalls \in Nat /\ MaxConns \in Nat
                         /\ MayFail \subseteq 1 .. MaxConns

VARIABLES
    client,        \* per client thread, where it is in SbieDll_CallServer
    length,        \* per call, the chunks of its request
    last_sequence, \* the client process' counter of calls
    port,          \* the messages that wait at the server port
    worker,        \* per worker, what it does with which message
    m_Clients,     \* the connections that PortFindClient finds
    sclient,       \* per connection, its SClient
    failed,        \* the connections for which it did
    conns, calls

vars == <<client, length, last_sequence, port, worker, m_Clients, sclient,
          failed, conns, calls>>

Conns == 1 .. MaxConns
Calls == 1 .. MaxCalls
Seqs == 0 .. SeqMod - 1

\* A message at the server port; for a request, which chunk it is: part 0 is
\* an empty one.
Message(type, k, call, part, seq) ==
    [type |-> type, conn |-> k, call |-> call, part |-> part, seq |-> seq]
NoMessage == Message("NONE", 0, 0, 0, 0)

\* A chunk of a reply: the call that the reply answers (0: what the handler
\* got was no request of a client), its part and length; length 0 is the
\* empty message.
Chunk(call, part, len, seq) ==
    [call |-> call, part |-> part, len |-> len, seq |-> seq]
Empty == Chunk(0, 0, 0, 0)

\* SClient: the length of the message in buf_hdr (0: it is NULL) and how much of
\* it was collected or sent, which is where buf_ptr points; the chunks of the
\* request while it is collected, the call that is answered while replying.
SClient(replying, sequence, len, pos, req, call) ==
    [replying |-> replying, sequence |-> sequence, len |-> len, pos |-> pos,
     req |-> req, call |-> call]
NewClient == SClient(FALSE, 0, 0, 0, {}, 0)

\* A client thread: its connection, the call it makes, how much of the request
\* it sent, the reply chunk that NtRequestWaitReplyPort returns, the length
\* of the reply (0: not known yet) and what was collected of it.
NewThread == [at |-> "idle", conn |-> 0, call |-> 0, seq |-> 0, sent |-> 0,
              inbox |-> Empty, len |-> 0, pos |-> 0, got |-> {}]

Init ==
    /\ client = [c \in Clients |-> NewThread]
    /\ length = [n \in Calls |-> 0]
    /\ last_sequence = 0
    /\ port = << >>
    /\ worker = [w \in Workers |-> [at |-> "receive", msg |-> NoMessage]]
    /\ m_Clients = {}
    /\ sclient = [k \in Conns |-> NewClient]
    /\ conns = 0
    /\ calls = 0
    /\ failed = {}

-----------------------------------------------------------------------------
\* SbieDll_ConnectPort: NtConnectPort blocks until the service completes the
\* connection, which is then a new one for the service.
ConnectPort(c) ==
    /\ client[c].at = "idle" /\ client[c].conn = 0
    /\ conns < MaxConns /\ calls < MaxCalls
    /\ conns' = conns + 1
    /\ client' = [client EXCEPT ![c].at = "connect", ![c].conn = conns + 1]
    /\ port' = Append(port, Message("CONNECT", conns + 1, 0, 0, 0))
    /\ UNCHANGED <<length, last_sequence, worker, m_Clients, sclient, calls, failed>>

\* The sequence number travels in the first chunk only.
Send_Twice(c, th, part) ==              \* mutant: repeated without need
    LET m == Message("REQUEST", th.conn, th.call, part, IF part = 1 THEN th.seq ELSE 0)
    IN  /\ client' = [client EXCEPT ![c] = [th EXCEPT !.at = "wait", !.sent = part,
                                                      !.inbox = Empty]]
        /\ port' = port \o <<m, m>>
Send(c, th, part) ==
    /\ client' = [client EXCEPT ![c] = [th EXCEPT !.at = "wait", !.sent = part,
                                                  !.inbox = Empty]]
    /\ port' = Append(port, Message("REQUEST", th.conn, th.call, part,
                                    IF part = 1 THEN th.seq ELSE 0))

Sequence == (last_sequence + 1) % SeqMod

CallServer(c, n) ==
    /\ client[c].at \in {"idle", "connected"} /\ client[c].conn # 0
    /\ calls < MaxCalls
    /\ calls' = calls + 1
    /\ length' = [length EXCEPT ![calls + 1] = n]
    /\ last_sequence' = Sequence
    /\ Send(c, [NewThread EXCEPT !.conn = client[c].conn, !.call = calls + 1,
                                 !.seq = Sequence], 1)
    /\ UNCHANGED <<worker, m_Clients, sclient, conns, failed>>

\* SbieDll_CallServer returns; what the caller gets is what is in got.  Where
\* it gives up it frees the reply, and leaves the connection as it is.
ReturnReply(c, got) == client' = [client EXCEPT ![c].at = "idle", ![c].inbox = Empty,
                                                ![c].got = got]
ReturnNull(c) == ReturnReply(c, {})

\* The reply to a chunk that is not the last should be empty.
SendNext(c) ==
    LET th == client[c]
    IN  /\ th.at = "answered" /\ th.len = 0 /\ th.sent < length[th.call]
        /\ IF th.inbox.len # 0 THEN ReturnNull(c) /\ UNCHANGED port
                               ELSE Send(c, th, th.sent + 1)
        /\ UNCHANGED <<length, last_sequence, worker, m_Clients, sclient,
                       conns, calls, failed>>

\* The first chunk of a reply has the length and the sequence number; the
\* others are added to it until they are as long.
Accept_Early(c, len) ==                 \* mutant: one chunk is missing
    LET th == client[c]
        new == IF th.inbox.len = 0 THEN {} ELSE {th.inbox}
    IN  IF th.pos + 2 >= len
        THEN ReturnReply(c, th.got \cup new) /\ UNCHANGED port
        ELSE Send(c, [th EXCEPT !.len = len, !.pos = th.pos + 1, !.got = @ \cup new], 0)
Accept(c, len) ==
    LET th == client[c]
        new == IF th.inbox.len = 0 THEN {} ELSE {th.inbox}
        pos == IF th.inbox.len = 0 THEN th.pos ELSE th.pos + 1
    IN  IF pos >= len
        THEN ReturnReply(c, th.got \cup new) /\ UNCHANGED port
        ELSE Send(c, [th EXCEPT !.len = len, !.pos = pos, !.got = @ \cup new], 0)
SequenceMatches(th) == th.inbox.seq = th.seq
FirstReply(c) ==
    LET th == client[c]
    IN  /\ th.at = "answered" /\ th.len = 0 /\ th.sent = length[th.call]
        /\ IF th.inbox.len = 0 \/ ~SequenceMatches(th)
           THEN ReturnNull(c) /\ UNCHANGED port
           ELSE Accept(c, th.inbox.len)
        /\ UNCHANGED <<length, last_sequence, worker, m_Clients, sclient,
                       conns, calls, failed>>
NextReply(c) ==
    /\ client[c].at = "answered" /\ client[c].len # 0
    /\ Accept(c, client[c].len)
    /\ UNCHANGED <<length, last_sequence, worker, m_Clients, sclient, conns,
                   calls, failed>>

\* The thread ends wherever it is, and with it its connection; another takes
\* its place in the model.
Exit(c) ==
    /\ client[c].conn # 0
    /\ client' = [client EXCEPT ![c] = NewThread]
    /\ port' = Append(port, Message("CLOSED", client[c].conn, 0, 0, 0))
    /\ UNCHANGED <<length, last_sequence, worker, m_Clients, sclient, conns,
                   calls, failed>>

-----------------------------------------------------------------------------
\* NtReplyWaitReceivePort: a worker takes the oldest message.
Receive(w) ==
    /\ worker[w].at = "receive" /\ port # << >>
    /\ worker' = [worker EXCEPT ![w] = [at |-> "received", msg |-> Head(port)]]
    /\ port' = Tail(port)
    /\ UNCHANGED <<client, length, last_sequence, m_Clients, sclient, conns,
                   calls, failed>>

Got(w, type) == worker[w].at = "received" /\ worker[w].msg.type = type
Goto(w, at) == worker' = [worker EXCEPT ![w].at = at]

\* PortConnect: NtCompleteConnectPort lets the client run, and only then is
\* the connection put into m_Clients.
PortConnect(w) ==
    /\ Got(w, "CONNECT")
    /\ sclient' = [sclient EXCEPT ![worker[w].msg.conn] = NewClient]
    /\ client' = [c \in Clients |-> IF /\ client[c].conn = worker[w].msg.conn
                                       /\ client[c].at = "connect"
                                    THEN [client[c] EXCEPT !.at = "connected"]
                                    ELSE client[c]]
    /\ Goto(w, "completed")
    /\ UNCHANGED <<length, last_sequence, port, m_Clients, conns, calls, failed>>
StoreClient(w) ==
    /\ worker[w].at = "completed"
    /\ m_Clients' = m_Clients \cup {worker[w].msg.conn}
    /\ Goto(w, "receive")
    /\ UNCHANGED <<client, length, last_sequence, port, sclient, conns, calls, failed>>

PortDisconnect(w) ==
    /\ Got(w, "CLOSED")
    /\ m_Clients' = m_Clients \ {worker[w].msg.conn}
    /\ Goto(w, "receive")
    /\ UNCHANGED <<client, length, last_sequence, port, sclient, conns, calls, failed>>

\* A request of a connection that is not found gets no reply.
PortFindClient(w) ==
    /\ Got(w, "REQUEST")
    /\ Goto(w, IF worker[w].msg.conn \in m_Clients THEN "found" ELSE "receive")
    /\ UNCHANGED <<client, length, last_sequence, port, m_Clients, sclient, conns,
                   calls, failed>>

\* The chunks of a call's request.
RequestOf(n) == {<<n, i>> : i \in 1 .. length[n]}

\* CallTarget: a handler gets the request, which is then freed, and returns a
\* reply of some length, or NULL (0) for lack of memory.
CallOf(req) == IF \E n \in Calls : length[n] # 0 /\ req = RequestOf(n)
               THEN CHOOSE n \in Calls : length[n] # 0 /\ req = RequestOf(n)
               ELSE 0
CallTarget(s, len) == SClient(TRUE, s.sequence, len, 0, {}, CallOf(s.req))

\* PortRequest: the chunk goes into the buffer, and a complete request to its
\* handler.
Complete_Early(s) == s.pos + 1 >= s.len \* mutant: one chunk is missing
Complete(s) == s.pos >= s.len
Handled(s) == IF Complete(s) THEN {CallTarget(s, len) : len \in 0 .. MaxLen} ELSE {s}
Store(s, m) == IF m.part = 0 THEN s
               ELSE [s EXCEPT !.pos = s.pos + 1, !.req = s.req \cup {<<m.call, m.part>>}]
Finish(sequence) == SClient(TRUE, sequence, 0, 0, {}, 0)

\* A first chunk has a header.  A chunk that is not, but comes when the buffer
\* is NULL, is read as a header all the same, whatever it says.
Header(len, seq) == SClient(FALSE, seq, len, 0, {}, 0)
FirstChunk(m) == Handled(Store(Header(length[m.call], m.seq), m))
NoHeader(m) == {Finish(0)} \cup UNION {Handled(Store(Header(len, seq), m)) :
                                          len \in 1 .. MaxLen, seq \in Seqs}
\* A chunk that does not fit into the rest of the buffer ends the request; it
\* always fits when the length came from the request's own header.
IsPrefix(req) == \E n \in Calls : req \subseteq RequestOf(n) /\ <<n, 1>> \in req
NextChunk(s, m) == Handled(Store(s, m)) \cup (IF IsPrefix(s.req) THEN {} ELSE {Finish(s.sequence)})
PortRequest(s, m) == CASE s.len # 0 -> NextChunk(s, m)
                       [] s.len = 0 /\ m.part = 1 -> FirstChunk(m)
                       [] OTHER -> NoHeader(m)

\* PortReply: one chunk of the reply; after the last one the client may send
\* its next request.
LastChunk_Late(s) == s.pos > s.len      \* mutant
LastChunk(s) == s.pos + 1 >= s.len
PortReply(s) == IF ~s.replying THEN s
                ELSE IF LastChunk(s) THEN SClient(FALSE, s.sequence, 0, 0, {}, 0)
                ELSE [s EXCEPT !.pos = s.pos + 1]
ReplyChunk(s) == IF ~s.replying \/ s.len = 0 THEN Empty
                 ELSE Chunk(s.call, s.pos + 1, s.len, IF s.pos = 0 THEN s.sequence ELSE 0)

\* The worker sends the reply, empty or not, when it waits for its next message.
Answer_OnlyReplies(k, s) ==             \* mutant: no empty replies
    IF ~s.replying THEN client
    ELSE [c \in Clients |-> IF client[c].conn = k /\ client[c].at = "wait"
                            THEN [client[c] EXCEPT !.at = "answered", !.inbox = ReplyChunk(s)]
                            ELSE client[c]]
Answer(k, s) ==
    [c \in Clients |-> IF client[c].conn = k /\ client[c].at = "wait"
                       THEN [client[c] EXCEPT !.at = "answered", !.inbox = ReplyChunk(s)]
                       ELSE client[c]]
Reply(w, s) ==
    LET k == worker[w].msg.conn
    IN  /\ sclient' = [sclient EXCEPT ![k] = PortReply(s)]
        /\ client' = Answer(k, s)
        /\ Goto(w, "receive")
        /\ UNCHANGED <<length, last_sequence, port, m_Clients, conns, calls>>

Serve(w) ==
    /\ worker[w].at = "found"
    /\ LET s == sclient[worker[w].msg.conn]
       IN  \E r \in IF s.replying THEN {s} ELSE PortRequest(s, worker[w].msg) : Reply(w, r)
    /\ UNCHANGED failed

\* AllocMsg fails for the buffer of a request.
ServeNoMemory(w) ==
    /\ worker[w].at = "found" /\ worker[w].msg.part = 1
    /\ LET s == sclient[worker[w].msg.conn]
       IN  /\ ~s.replying /\ s.len = 0
           /\ Reply(w, Finish(0))
    /\ worker[w].msg.conn \in MayFail
    /\ failed' = failed \cup {worker[w].msg.conn}

-----------------------------------------------------------------------------
Call(c) == \/ ConnectPort(c) \/ \E n \in 1 .. MaxLen : CallServer(c, n)
Continue(c) == SendNext(c) \/ FirstReply(c) \/ NextReply(c)
Work(w) == \/ Receive(w) \/ PortConnect(w) \/ StoreClient(w) \/ PortDisconnect(w)
           \/ PortFindClient(w) \/ Serve(w) \/ ServeNoMemory(w)
Next == \/ \E c \in Clients : Call(c) \/ Continue(c) \/ Exit(c)
        \/ \E w \in Workers : Work(w)

\* Threads run; nobody has to begin a call.
Fairness == /\ \A c \in Clients : WF_vars(Continue(c))
            /\ \A w \in Workers : WF_vars(Work(w))

Spec == Init /\ [][Next]_vars /\ Fairness

-----------------------------------------------------------------------------
SClientType == [replying : BOOLEAN, sequence : Seqs, len : 0 .. MaxLen,
                pos : 0 .. MaxLen, req : SUBSET (Calls \X (1 .. MaxLen)),
                call : 0 .. MaxCalls]
ChunkType == [call : 0 .. MaxCalls, part : 0 .. MaxLen, len : 0 .. MaxLen, seq : Seqs]
MessageType == [type : {"NONE", "CONNECT", "REQUEST", "CLOSED"}, conn : 0 .. MaxConns,
                call : 0 .. MaxCalls, part : 0 .. MaxLen, seq : Seqs]
ThreadType == [at : {"idle", "connect", "connected", "wait", "answered"},
               conn : 0 .. MaxConns, call : 0 .. MaxCalls, seq : Seqs,
               sent : 0 .. MaxLen, inbox : ChunkType, len : 0 .. MaxLen,
               pos : 0 .. MaxLen, got : SUBSET ChunkType]

\* The variables have their types.
TypeOK ==
    /\ client \in [Clients -> ThreadType]
    /\ length \in [Calls -> 0 .. MaxLen]
    /\ last_sequence \in Seqs
    /\ port \in Seq(MessageType)
    /\ worker \in [Workers -> [at : {"receive", "received", "completed", "found"},
                               msg : MessageType]]
    /\ m_Clients \subseteq Conns
    /\ sclient \in [Conns -> SClientType]
    /\ conns \in 0 .. MaxConns
    /\ calls \in 0 .. MaxCalls
    /\ failed \subseteq Conns

\* PortRequest and PortReply use an SClient without a lock: no two workers have
\* a request of the same connection, even when its thread ended.  The
\* variables have their types.
SClientNotShared ==
    /\ TypeOK
    /\ \A v, w \in Workers :
          /\ v # w /\ worker[v].at = "found" /\ worker[w].at = "found"
          => worker[v].msg.conn # worker[w].msg.conn

\* Unless a request buffer could not be allocated for the same connection, what
\* the service has of a request is what the client sent of the call that it
\* makes, so a handler never gets a part of a request, or parts of two.
Sound(c) == client[c].conn \in m_Clients \ failed
HandlerGetsRequest ==
    \A c \in Clients :
        LET th == client[c]
            s == sclient[th.conn]
        IN  Sound(c) /\ th.at \in {"wait", "answered"} =>
               /\ s.replying => s.call = th.call
               /\ ~s.replying /\ s.len # 0 =>
                      /\ s.len = length[th.call]
                      /\ s.req = {<<th.call, i>> : i \in 1 .. s.pos}
                      /\ s.pos = IF th.at = "wait" THEN th.sent - 1 ELSE th.sent

\* Under the same condition a call returns NULL or the whole reply to its own
\* request.
ReplyAnswersCall ==
    \A c \in Clients : Sound(c) /\ client[c].at = "idle" /\ client[c].got # {} =>
        \E len \in 1 .. MaxLen :
            {<<x.call, x.part, x.len>> : x \in client[c].got}
                = {<<client[c].call, i, len>> : i \in 1 .. len}

\* Under the same condition the two sides of a connection are in step between
\* two calls, whatever the handlers returned: the service neither collects nor
\* replies.
InStepBetweenCalls ==
    \A c \in Clients : Sound(c) /\ client[c].at = "idle" =>
        ~sclient[client[c].conn].replying /\ sclient[client[c].conn].len = 0

\* A chunk that a worker has or will get, of a connection that is stored, is
\* answered, unless the client ends.
Pending(c) == \/ \E i \in 1 .. Len(port) : /\ port[i].type = "REQUEST"
                                            /\ port[i].conn = client[c].conn
              \/ \E w \in Workers : /\ worker[w].at \in {"received", "found"}
                                     /\ worker[w].msg.type = "REQUEST"
                                     /\ worker[w].msg.conn = client[c].conn
StoredClientAnswered ==
    \A c \in Clients :
        (client[c].at = "wait" /\ client[c].conn \in m_Clients /\ Pending(c))
            ~> client[c].at # "wait"

\* "send the chunk on the LPC port and wait for acknowledgement"
\* (dll/callsvc.c): every chunk is acknowledged, unless the client ends.
ChunkAcknowledged == \A c \in Clients : client[c].at = "wait" ~> client[c].at # "wait"
=============================================================================
