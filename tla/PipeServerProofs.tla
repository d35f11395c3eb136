-------------------------- MODULE PipeServerProofs --------------------------
(***************************************************************************)
(* For any number of clients, workers, connections and calls, and any      *)
(* length of messages: no two workers have a request of one connection, a  *)
(* handler gets the request of the call that the client makes, the caller  *)
(* gets the reply to it, and between two calls both sides are in step.     *)
(***************************************************************************)
EXTENDS PipeServer, TLAPS

USE PipeAssumption

-----------------------------------------------------------------------------
(* The inductive invariant *)

\* A message that the client of its connection waits for: at the port, or with a
\* worker that has not completed or answered it yet.
Opens(m) == m.type \in {"CONNECT", "REQUEST"}
Busy(w) == worker[w].at \in {"received", "found"} /\ Opens(worker[w].msg)

\* It is of a connection that was made; its client, if there still is one, waits,
\* and it is what that client has sent last.
Sent(m) == Opens(m) =>
    /\ m.conn \in 1 .. conns /\ (m.type = "REQUEST" => m.call \in Calls)
    /\ \A c \in Clients : client[c].conn = m.conn =>
          /\ m.type = "CONNECT" => client[c].at = "connect"
          /\ m.type = "REQUEST" => /\ client[c].at = "wait" /\ m.call = client[c].call
                                   /\ m.part = client[c].sent
                                   /\ m.part = 1 => m.seq = client[c].seq

Messages == /\ \A i \in 1 .. Len(port) : Sent(port[i])
            /\ \A w \in Workers : Busy(w) => Sent(worker[w].msg)
            /\ \A w \in Workers : worker[w].at = "found" =>
                                     worker[w].msg.type = "REQUEST"
            /\ \A w \in Workers : worker[w].at = "completed" =>
                                     worker[w].msg.conn \in Conns

\* There is one such message per connection.
Unique ==
    /\ \A i, j \in 1 .. Len(port) : Opens(port[i]) /\ Opens(port[j]) /\ i # j
          => port[i].conn # port[j].conn
    /\ \A i \in 1 .. Len(port), w \in Workers : Opens(port[i]) /\ Busy(w)
          => port[i].conn # worker[w].msg.conn
    /\ \A v, w \in Workers : Busy(v) /\ Busy(w) /\ v # w
          => worker[v].msg.conn # worker[w].msg.conn

\* A connection belongs to one client.
Owned == \A c \in Clients :
    /\ client[c].conn \in 0 .. conns /\ client[c].call \in 0 .. calls
    /\ client[c].conn = 0 => client[c].at = "idle"
    /\ client[c].at \in {"wait", "answered"} => client[c].call # 0
    /\ \A d \in Clients : client[c].conn = client[d].conn /\ c # d => client[c].conn = 0

\* buf_ptr points into the buffer.
Inside(s) == s.pos = 0 \/ s.pos < s.len

\* The two sides of a connection.  The first n chunks of a call's request:
First(call, n) == {<<call, i>> : i \in 1 .. n}

\* The service has nothing; it has n chunks of the request; it has a reply of L
\* chunks, and sent n of them.
Quiet(s) == ~s.replying /\ s.len = 0 /\ s.pos = 0
Collects(s, th, n) ==
    IF n = 0 THEN Quiet(s)
    ELSE /\ ~s.replying /\ s.len = length[th.call] /\ n < s.len /\ s.pos = n
         /\ s.req = First(th.call, n) /\ s.sequence = th.seq
Replies(s, th, L, n) ==
    IF n >= L THEN Quiet(s)
    ELSE s.replying /\ s.len = L /\ s.pos = n /\ s.call = th.call

\* The client has the first n of the L chunks of a reply.
Parts(got) == {<<x.call, x.part, x.len>> : x \in got}
Has(th, L, n) == Parts(th.got) = {<<th.call, i, L>> : i \in 1 .. n}

Calling(s, th) ==
    /\ th.call \in Calls /\ length[th.call] # 0
    /\ th.len = 0 => th.sent \in 1 .. length[th.call] /\ th.got = {} /\ th.pos = 0
    /\ th.len # 0 => th.pos \in 1 .. th.len - 1 /\ Has(th, th.len, th.pos)
    /\ th.at = "wait" /\ th.len = 0 => Collects(s, th, th.sent - 1)
    /\ th.at = "wait" /\ th.len # 0 => th.sent = 0 /\ Replies(s, th, th.len, th.pos)
    /\ th.at = "answered" /\ th.len = 0 /\ th.sent < length[th.call] =>
          th.inbox = Empty /\ Collects(s, th, th.sent)
    /\ th.at = "answered" /\ th.len = 0 /\ th.sent = length[th.call] =>
          IF th.inbox.len = 0 THEN Quiet(s)
          ELSE /\ th.inbox.call = th.call /\ th.inbox.part = 1
               /\ th.inbox.seq = th.seq /\ Replies(s, th, th.inbox.len, 1)
    /\ th.at = "answered" /\ th.len # 0 =>
          /\ th.inbox.call = th.call /\ th.inbox.part = th.pos + 1
          /\ th.inbox.len = th.len /\ Replies(s, th, th.len, th.pos + 1)

InStep(s, th) ==
    /\ th.at \in {"idle", "connect", "connected"} => Quiet(s)
    /\ th.at = "idle" /\ th.got # {} => \E len \in 1 .. MaxLen : Has(th, len, len)
    /\ th.at \in {"wait", "answered"} => Calling(s, th)

Steps == \A c \in Clients : client[c].conn \notin failed \cup {0}
            => InStep(sclient[client[c].conn], client[c])
Buffers == \A k \in Conns : Inside(sclient[k])

\* A connection that is to come is fresh.
Fresh == \A k \in Conns : k > conns => Quiet(sclient[k]) /\ k \notin failed

PipeInv == TypeOK /\ Messages /\ Unique /\ Owned /\ Buffers /\ Steps /\ Fresh

-----------------------------------------------------------------------------
(* What the service makes of a chunk *)

\* The call of a request is a call.
LEMMA CallOfTyped == ASSUME NEW req PROVE CallOf(req) \in 0 .. MaxCalls
<1> DEFINE P(n) == length[n] # 0 /\ req = RequestOf(n)
<1>1. CASE \E n \in Calls : P(n)
    <2>1. (CHOOSE n \in Calls : P(n)) \in Calls
        BY <1>1
    <2>2. CallOf(req) = CHOOSE n \in Calls : P(n)
        BY <1>1 DEF CallOf
    <2> QED BY <2>1, <2>2 DEF Calls
<1>2. CASE ~\E n \in Calls : P(n)
    BY <1>2 DEF CallOf
<1> QED BY <1>1, <1>2

\* A request that is complete, or not.
LEMMA HandledFacts ==
    ASSUME NEW s \in SClientType, NEW r \in Handled(s)
    PROVE  /\ r \in SClientType /\ Inside(r) /\ r.sequence = s.sequence
           /\ s.pos < s.len => r = s
           /\ s.pos >= s.len => r.replying /\ r.pos = 0 /\ r.call = CallOf(s.req)
<1>1. s.pos \in Int /\ s.len \in Int /\ s.sequence \in Seqs
    BY DEF SClientType
<1>2. CASE Complete(s)
    <2>1. PICK len \in 0 .. MaxLen : r = CallTarget(s, len)
        BY <1>2 DEF Handled
    <2>2. CallOf(s.req) \in 0 .. MaxCalls
        BY CallOfTyped
    <2> DEFINE call == CallOf(s.req)
    <2>3. call \in 0 .. MaxCalls /\ r = SClient(TRUE, s.sequence, len, 0, {}, call)
        BY <2>1, <2>2 DEF CallTarget
    <2> HIDE DEF call
    <2>4. /\ r \in SClientType /\ r.pos = 0 /\ r.replying /\ r.sequence = s.sequence
          /\ r.call = call
        BY <1>1, <2>3 DEF SClient, SClientType
    <2> QED BY <1>1, <1>2, <2>4 DEF Inside, Complete, call
<1>3. CASE ~Complete(s)
    <2>1. r = s
        BY <1>3 DEF Handled
    <2> QED BY <1>1, <1>3, <2>1 DEF Complete, Inside
<1> QED BY <1>2, <1>3

\* A chunk that is stored.
LEMMA StoreFacts ==
    ASSUME NEW s \in SClientType, s.pos < MaxLen, NEW m \in MessageType, m.call \in Calls
    PROVE  /\ Store(s, m) \in SClientType /\ Store(s, m).len = s.len
           /\ Store(s, m).sequence = s.sequence /\ (Store(s, m).replying <=> s.replying)
           /\ m.part = 0 => Store(s, m) = s
           /\ m.part # 0 => /\ Store(s, m).pos = s.pos + 1
                            /\ Store(s, m).req = s.req \cup {<<m.call, m.part>>}
<1>1. CASE m.part = 0
    BY <1>1 DEF Store
<1>2. CASE m.part # 0
    <2>1. m.part \in 1 .. MaxLen /\ s.pos + 1 \in 0 .. MaxLen
        BY <1>2 DEF MessageType, SClientType
    <2>2. s.req \cup {<<m.call, m.part>>} \in SUBSET (Calls \X (1 .. MaxLen))
        BY <2>1 DEF SClientType
    <2> QED BY <1>2, <2>1, <2>2 DEF Store, SClientType
<1> QED BY <1>1, <1>2

\* A buffer that a header begins.
LEMMA HeaderFacts ==
    ASSUME NEW len \in 0 .. MaxLen, NEW seq \in Seqs
    PROVE  /\ Header(len, seq) \in SClientType /\ Header(len, seq).pos = 0
           /\ Header(len, seq).len = len /\ Header(len, seq).sequence = seq
           /\ Header(len, seq).req = {} /\ ~Header(len, seq).replying
BY DEF Header, SClient, SClientType

\* A request that is given up.
LEMMA FinishFacts ==
    ASSUME NEW seq \in Seqs
    PROVE  /\ Finish(seq) \in SClientType /\ Finish(seq).pos = 0 /\ Finish(seq).len = 0
           /\ Finish(seq).replying
BY DEF Finish, SClient, SClientType

\* PortRequest keeps the type, wherever the chunk comes from.
LEMMA RequestTyped ==
    ASSUME TypeOK, NEW s \in SClientType, Inside(s), NEW m \in MessageType, m.call \in Calls,
           NEW r \in PortRequest(s, m)
    PROVE  r \in SClientType /\ Inside(r)
<1>1. s.pos \in 0 .. MaxLen /\ s.len \in 0 .. MaxLen /\ s.sequence \in Seqs
    BY DEF SClientType
<1>2. 0 \in Seqs /\ 0 < MaxLen
    BY DEF Seqs
<1>3. CASE s.len # 0
    <2>1. s.pos < MaxLen
        BY <1>1, <1>3 DEF Inside
    <2>2. r \in Handled(Store(s, m)) \/ r = Finish(s.sequence)
        BY <1>3 DEF PortRequest, NextChunk
    <2> QED BY <1>1, <2>1, <2>2, StoreFacts, HandledFacts, FinishFacts DEF Inside
<1>4. CASE s.len = 0 /\ m.part = 1
    <2>1. r \in Handled(Store(Header(length[m.call], m.seq), m))
        BY <1>4 DEF PortRequest, FirstChunk
    <2>2. length[m.call] \in 0 .. MaxLen /\ m.seq \in Seqs
        BY DEF TypeOK, MessageType
    <2> DEFINE h == Header(length[m.call], m.seq)
    <2>3. h \in SClientType /\ h.pos = 0
        BY <2>2, HeaderFacts
    <2>4. r \in Handled(Store(h, m))
        BY <2>1
    <2> HIDE DEF h
    <2> QED BY <1>2, <2>3, <2>4, StoreFacts, HandledFacts
<1>5. CASE s.len = 0 /\ m.part # 1
    <2>1. r \in NoHeader(m)
        BY <1>5 DEF PortRequest
    <2>2. CASE r = Finish(0)
        BY <1>2, <2>2, FinishFacts DEF Inside
    <2>3. ASSUME NEW len \in 1 .. MaxLen, NEW seq \in Seqs,
                 r \in Handled(Store(Header(len, seq), m))
          PROVE  r \in SClientType /\ Inside(r)
        <3> DEFINE h == Header(len, seq)
        <3>1. h \in SClientType /\ h.pos = 0
            BY HeaderFacts
        <3>2. r \in Handled(Store(h, m))
            BY <2>3
        <3> HIDE DEF h
        <3> QED BY <1>2, <3>1, <3>2, StoreFacts, HandledFacts
    <2> QED BY <2>1, <2>2, <2>3 DEF NoHeader
<1> QED BY <1>3, <1>4, <1>5

\* PortReply: the chunk that is sent, and what is left.
LEMMA ReplyFacts ==
    ASSUME NEW r \in SClientType, Inside(r)
    PROVE  /\ PortReply(r) \in SClientType /\ Inside(PortReply(r))
           /\ ReplyChunk(r) \in ChunkType
           /\ ~r.replying => PortReply(r) = r /\ ReplyChunk(r) = Empty
           /\ r.replying /\ r.pos + 1 >= r.len => Quiet(PortReply(r))
           /\ r.replying /\ r.pos + 1 < r.len =>
                 /\ PortReply(r).replying /\ PortReply(r).len = r.len
                 /\ PortReply(r).pos = r.pos + 1 /\ PortReply(r).call = r.call
           /\ r.replying /\ r.len = 0 => ReplyChunk(r) = Empty
           /\ r.replying /\ r.len # 0 =>
                 /\ ReplyChunk(r).call = r.call /\ ReplyChunk(r).part = r.pos + 1
                 /\ ReplyChunk(r).len = r.len
                 /\ r.pos = 0 => ReplyChunk(r).seq = r.sequence
<1>1. /\ r.pos \in 0 .. MaxLen /\ r.len \in 0 .. MaxLen /\ r.sequence \in Seqs
      /\ r.call \in 0 .. MaxCalls
    BY DEF SClientType
<1>2. 0 \in Seqs /\ 0 \in 0 .. MaxLen /\ 0 \in 0 .. MaxCalls
    BY DEF Seqs
<1>3. Empty \in ChunkType /\ Empty.len = 0
    BY <1>2 DEF Empty, Chunk, ChunkType
<1>4. CASE ~r.replying
    BY <1>3, <1>4 DEF PortReply, ReplyChunk
<1>5. ASSUME r.replying, r.pos + 1 >= r.len
      PROVE  /\ PortReply(r) \in SClientType /\ Inside(PortReply(r)) /\ Quiet(PortReply(r))
    <2>1. PortReply(r) = SClient(FALSE, r.sequence, 0, 0, {}, 0)
        BY <1>5 DEF PortReply, LastChunk
    <2> QED BY <1>1, <2>1 DEF SClient, SClientType, Inside, Quiet
<1>6. ASSUME r.replying, r.pos + 1 < r.len
      PROVE  /\ PortReply(r) \in SClientType /\ Inside(PortReply(r))
             /\ PortReply(r).replying /\ PortReply(r).len = r.len
             /\ PortReply(r).pos = r.pos + 1 /\ PortReply(r).call = r.call
    <2>1. PortReply(r) = [r EXCEPT !.pos = r.pos + 1]
        <3>1. ~LastChunk(r)
            BY <1>1, <1>6 DEF LastChunk
        <3> QED BY <1>6, <3>1, Zenon DEF PortReply
    <2>2. r.pos + 1 \in 0 .. MaxLen
        BY <1>1, <1>6
    <2> QED BY <1>6, <2>1, <2>2 DEF SClientType, Inside
<1>7. ASSUME r.replying, r.len = 0 PROVE ReplyChunk(r) = Empty
    BY <1>7 DEF ReplyChunk
<1>8. ASSUME r.replying, r.len # 0
      PROVE  /\ ReplyChunk(r) \in ChunkType
             /\ ReplyChunk(r).call = r.call /\ ReplyChunk(r).part = r.pos + 1
             /\ ReplyChunk(r).len = r.len
             /\ r.pos = 0 => ReplyChunk(r).seq = r.sequence
    <2>1. ReplyChunk(r) = Chunk(r.call, r.pos + 1, r.len, IF r.pos = 0 THEN r.sequence ELSE 0)
        BY <1>8 DEF ReplyChunk
    <2>2. r.pos + 1 \in 0 .. MaxLen
        BY <1>1, <1>8 DEF Inside
    <2> QED BY <1>1, <1>2, <2>1, <2>2 DEF Chunk, ChunkType
<1> QED BY <1>1, <1>3, <1>4, <1>5, <1>6, <1>7, <1>8

\* The chunks of a request, one more, and all of them.
LEMMA FirstFacts ==
    ASSUME NEW call, NEW n \in Nat
    PROVE  /\ First(call, 0) = {} /\ First(call, n) \cup {<<call, n + 1>>} = First(call, n + 1)
           /\ n # 0 => <<call, 1>> \in First(call, n)
           /\ \A k \in Nat : n <= k => First(call, n) \subseteq First(call, k)
           /\ \A d, k : <<d, 1>> \in First(call, n) => d = call
<1>1. First(call, n) \cup {<<call, n + 1>>} = First(call, n + 1)
    <2>1. ASSUME NEW z \in First(call, n + 1) PROVE z \in First(call, n) \cup {<<call, n + 1>>}
        BY DEF First
    <2>2. ASSUME NEW z \in First(call, n) \cup {<<call, n + 1>>} PROVE z \in First(call, n + 1)
        BY DEF First
    <2> QED BY <2>1, <2>2
<1>2. First(call, 0) = {} /\ (n # 0 => <<call, 1>> \in First(call, n))
    BY DEF First
<1>3. \A k \in Nat : n <= k => First(call, n) \subseteq First(call, k)
    BY DEF First
<1>4. \A d, k : <<d, 1>> \in First(call, n) => d = call
    BY DEF First
<1> QED BY <1>1, <1>2, <1>3, <1>4

\* A handler that gets the whole request answers its call.
LEMMA CallOfRequest ==
    ASSUME TypeOK, NEW n \in Calls, length[n] # 0
    PROVE  CallOf(First(n, length[n])) = n
<1> DEFINE req == First(n, length[n])
           P(k) == length[k] # 0 /\ req = RequestOf(k)
<1>1. \A k \in Calls : RequestOf(k) = First(k, length[k]) /\ length[k] \in Nat
    BY DEF RequestOf, First, TypeOK
<1>2. P(n)
    BY <1>1
<1>3. \A k \in Calls : P(k) => k = n
    <2> SUFFICES ASSUME NEW k \in Calls, P(k) PROVE k = n
        OBVIOUS
    <2>1. <<k, 1>> \in First(k, length[k])
        BY <1>1, FirstFacts
    <2>2. <<k, 1>> \in First(n, length[n])
        BY <1>1, <2>1
    <2> QED BY <1>1, <2>2, FirstFacts
<1>4. (CHOOSE k \in Calls : P(k)) = n
    BY <1>2, <1>3
<1>5. CallOf(req) = CHOOSE k \in Calls : P(k)
    BY <1>2 DEF CallOf
<1> QED BY <1>4, <1>5

\* A thread that got its answer.
AnsweredBy(x, th, chunk) ==
    /\ x.at = "answered" /\ x.inbox = chunk /\ x.conn = th.conn /\ x.call = th.call
    /\ x.seq = th.seq /\ x.sent = th.sent /\ x.len = th.len /\ x.pos = th.pos
    /\ x.got = th.got

\* A service that replies goes on with its reply.
LEMMA ReplyGoesOn ==
    ASSUME TypeOK, NEW s \in SClientType, NEW th \in ThreadType, NEW x, Inside(s),
           Calling(s, th), th.at = "wait", th.len # 0, AnsweredBy(x, th, ReplyChunk(s))
    PROVE  s.replying /\ Calling(PortReply(s), x)
<1>1. th.pos \in Nat /\ th.len \in Nat /\ th.pos < th.len /\ th.pos + 1 <= th.len
    BY DEF ThreadType, Calling
<1>2. s.replying /\ s.len = th.len /\ s.pos = th.pos /\ s.call = th.call
    BY <1>1 DEF Calling, Replies
<1>3. Has(x, x.len, x.pos)
    BY DEF Calling, AnsweredBy, Has
<1>4. Replies(PortReply(s), x, x.len, x.pos + 1)
    BY <1>1, <1>2, ReplyFacts DEF AnsweredBy, Replies
<1>5. x.inbox.call = x.call /\ x.inbox.part = x.pos + 1 /\ x.inbox.len = x.len
    BY <1>1, <1>2, ReplyFacts DEF AnsweredBy
<1> QED BY <1>2, <1>3, <1>4, <1>5 DEF Calling, AnsweredBy

\* The buffer after the chunk that was sent last, before a handler is called.
Stored(st, th) ==
    /\ st \in SClientType /\ ~st.replying /\ st.len = length[th.call] /\ st.pos = th.sent
    /\ st.req = First(th.call, th.sent) /\ st.sequence = th.seq

\* PortRequest adds the chunk a client has just sent to those it sent before.
LEMMA ChunkIsStored ==
    ASSUME TypeOK, NEW s \in SClientType, NEW th \in ThreadType, Inside(s),
           Calling(s, th), th.at = "wait", th.len = 0,
           NEW m \in MessageType, m.call = th.call, m.part = th.sent,
           m.part = 1 => m.seq = th.seq, NEW r \in PortRequest(s, m)
    PROVE  ~s.replying /\ \E st : Stored(st, th) /\ r \in Handled(st)
<1>1. /\ th.call \in Calls /\ length[th.call] \in 1 .. MaxLen
      /\ th.sent \in 1 .. length[th.call] /\ th.sent \in Nat /\ MaxLen \in Nat
    BY DEF Calling, TypeOK, ThreadType
<1>2. Collects(s, th, th.sent - 1)
    BY DEF Calling
<1>3. CASE th.sent = 1
    <2>1. Quiet(s)
        BY <1>2, <1>3 DEF Collects
    <2> DEFINE h == Header(length[m.call], m.seq)
    <2>2. r \in Handled(Store(h, m))
        BY <1>3, <2>1 DEF PortRequest, FirstChunk, Quiet
    <2>3. /\ h \in SClientType /\ h.pos = 0 /\ h.len = length[m.call] /\ h.sequence = m.seq
          /\ h.req = {} /\ ~h.replying
        <3>1. length[m.call] \in 0 .. MaxLen /\ m.seq \in Seqs
            BY <1>1 DEF MessageType
        <3> QED BY <3>1, HeaderFacts
    <2> HIDE DEF h
    <2>4. First(th.call, 1) = {<<m.call, m.part>>}
        <3>1. First(th.call, 0) \cup {<<th.call, 0 + 1>>} = First(th.call, 0 + 1)
              /\ First(th.call, 0) = {}
            BY FirstFacts
        <3> QED BY <1>3, <3>1
    <2>5. Stored(Store(h, m), th)
        <3> DEFINE st == Store(h, m)
        <3>1. /\ st \in SClientType /\ st.len = h.len /\ st.sequence = h.sequence
              /\ ~st.replying /\ st.pos = 0 + 1 /\ st.req = {} \cup {<<m.call, m.part>>}
            BY <1>1, <1>3, <2>3, StoreFacts
        <3> HIDE DEF st
        <3>2. Stored(st, th)
            BY <1>1, <1>3, <2>3, <2>4, <3>1 DEF Stored
        <3> QED BY <3>2 DEF st
    <2> QED BY <2>1, <2>2, <2>5 DEF Quiet
<1>4. CASE th.sent # 1
    <2> DEFINE n == th.sent - 1
    <2>1. n \in Nat /\ n # 0 /\ n + 1 = th.sent /\ n <= length[th.call]
        BY <1>1, <1>4
    <2>2. /\ ~s.replying /\ s.len = length[th.call] /\ s.pos = n
          /\ s.req = First(th.call, n) /\ s.sequence = th.seq
        BY <1>2, <2>1 DEF Collects
    <2> HIDE DEF n
    <2>3. First(th.call, n) \cup {<<m.call, m.part>>} = First(th.call, th.sent)
        BY <2>1, FirstFacts
    <2>4. IsPrefix(s.req)
        <3>1. <<th.call, 1>> \in First(th.call, n)
            BY <2>1, FirstFacts
        <3>2. First(th.call, n) \subseteq RequestOf(th.call)
            BY <1>1, <2>1 DEF First, RequestOf
        <3> QED BY <1>1, <2>2, <3>1, <3>2 DEF IsPrefix
    <2>5. r \in Handled(Store(s, m))
        BY <1>1, <2>2, <2>4 DEF PortRequest, NextChunk
    <2>6. Stored(Store(s, m), th)
        <3> DEFINE st == Store(s, m)
        <3>1. s.pos < MaxLen /\ m.part # 0
            BY <1>1, <2>1, <2>2
        <3>2. /\ st \in SClientType /\ st.len = s.len /\ st.sequence = s.sequence
              /\ ~st.replying /\ st.pos = s.pos + 1
              /\ st.req = s.req \cup {<<m.call, m.part>>}
            BY <1>1, <2>2, <3>1, StoreFacts
        <3> HIDE DEF st
        <3>3. Stored(st, th)
            BY <2>1, <2>2, <2>3, <3>2 DEF Stored
        <3> QED BY <3>3 DEF st
    <2> QED BY <2>2, <2>5, <2>6
<1> QED BY <1>3, <1>4

\* A chunk that is not the last is acknowledged; after the last one the handler is
\* called, and the first chunk of its reply answers.
LEMMA ChunkIsAnswered ==
    ASSUME TypeOK, NEW s \in SClientType, NEW th \in ThreadType, Inside(s),
           Calling(s, th), th.at = "wait", th.len = 0,
           NEW st, Stored(st, th), NEW r \in Handled(st), NEW x,
           AnsweredBy(x, th, ReplyChunk(r))
    PROVE  Calling(PortReply(r), x)
<1>1. /\ th.call \in Calls /\ length[th.call] \in 1 .. MaxLen
      /\ th.sent \in 1 .. length[th.call] /\ th.sent \in Nat /\ MaxLen \in Nat
    BY DEF Calling, TypeOK, ThreadType
<1>2. /\ x.call = th.call /\ x.len = 0 /\ x.sent = th.sent /\ x.got = {} /\ x.pos = 0
      /\ x.at = "answered" /\ x.inbox = ReplyChunk(r) /\ x.seq = th.seq
    BY DEF AnsweredBy, Calling
<1>3. r \in SClientType /\ Inside(r) /\ r.sequence = th.seq
    BY HandledFacts DEF Stored
<1>4. CASE th.sent < length[th.call]
    <2>1. r = st
        BY <1>1, <1>4, HandledFacts DEF Stored
    <2>2. PortReply(r) = st /\ ReplyChunk(r) = Empty
        BY <1>3, <2>1, ReplyFacts DEF Stored
    <2>3. Collects(st, x, x.sent)
        BY <1>1, <1>2, <1>4 DEF Collects, Stored
    <2> QED BY <1>1, <1>2, <1>4, <2>2, <2>3 DEF Calling
<1>5. CASE th.sent = length[th.call]
    <2>1. r.replying /\ r.pos = 0 /\ r.call = th.call
        <3>1. CallOf(First(th.call, th.sent)) = th.call
            BY <1>1, <1>5, CallOfRequest
        <3> QED BY <1>1, <1>5, <3>1, HandledFacts DEF Stored
    <2>2. r.len \in Nat
        BY <1>3 DEF SClientType
    <2>3. CASE r.len = 0
        <3>1. Quiet(PortReply(r)) /\ x.inbox = Empty
            BY <1>2, <1>3, <2>1, <2>3, ReplyFacts
        <3>2. Empty.len = 0
            BY DEF Empty, Chunk
        <3> QED BY <1>1, <1>2, <1>5, <3>1, <3>2 DEF Calling
    <2>4. CASE r.len # 0
        <3>1. /\ x.inbox.call = x.call /\ x.inbox.part = 1 /\ x.inbox.len = r.len
              /\ x.inbox.seq = x.seq
            BY <1>2, <1>3, <2>1, <2>4, ReplyFacts
        <3>2. Replies(PortReply(r), x, r.len, 1)
            BY <1>2, <1>3, <2>1, <2>2, <2>4, ReplyFacts DEF Replies
        <3> QED BY <1>1, <1>2, <1>5, <2>4, <3>1, <3>2 DEF Calling
    <2> QED BY <2>3, <2>4
<1> QED BY <1>1, <1>4, <1>5

\* Serve: the answer to what a client sent last.
LEMMA ServedInStep ==
    ASSUME TypeOK, NEW s \in SClientType, NEW th \in ThreadType, Inside(s),
           Calling(s, th), th.at = "wait",
           NEW m \in MessageType, m.call = th.call, m.part = th.sent,
           m.part = 1 => m.seq = th.seq,
           NEW r \in IF s.replying THEN {s} ELSE PortRequest(s, m), NEW x,
           AnsweredBy(x, th, ReplyChunk(r))
    PROVE  Calling(PortReply(r), x)
<1>1. CASE th.len # 0
    <2>1. s.replying
        BY <1>1 DEF Calling, Replies, ThreadType
    <2>2. r = s
        BY <2>1
    <2> QED BY <1>1, <2>2, ReplyGoesOn
<1>2. CASE th.len = 0
    <2>1. ~s.replying
        BY <1>2 DEF Calling, Collects, Quiet
    <2>2. r \in PortRequest(s, m)
        BY <2>1
    <2>3. PICK st : Stored(st, th) /\ r \in Handled(st)
        BY <1>2, <2>2, ChunkIsStored
    <2> QED BY <1>2, <2>3, ChunkIsAnswered
<1> QED BY <1>1, <1>2

-----------------------------------------------------------------------------
(* The messages *)

\* A message that was sent stays what its client waits for, as long as that client
\* does nothing.
LEMMA SentKept ==
    ASSUME NEW m, Sent(m), conns \in Nat, conns' \in Nat, conns <= conns',
           \A d \in Clients : client'[d] = client[d] \/ client'[d].conn # m.conn
    PROVE  Sent(m)'
BY DEF Sent, Opens

\* A message of connection k is on its way.
Live(k) == \/ \E i \in 1 .. Len(port) : Opens(port[i]) /\ port[i].conn = k
           \/ \E w \in Workers : Busy(w) /\ worker[w].msg.conn = k

\* None is of a connection that is to come, or whose client does not wait.
LEMMA NotLive ==
    ASSUME PipeInv, NEW c \in Clients
    PROVE  /\ \A k \in Nat : k = 0 \/ k > conns => ~Live(k)
           /\ client[c].at \notin {"connect", "wait"} => ~Live(client[c].conn)
<1>1. ASSUME NEW m, Opens(m), Sent(m)
      PROVE  /\ m.conn \in 1 .. conns
             /\ client[c].at \notin {"connect", "wait"} => m.conn # client[c].conn
    BY <1>1 DEF Sent, Opens
<1>2. \A k : Live(k) => \E m : Opens(m) /\ Sent(m) /\ m.conn = k
    BY DEF Live, PipeInv, Messages, Busy
<1>3. conns \in Nat
    BY DEF PipeInv, TypeOK
<1> QED BY <1>1, <1>2, <1>3

\* A step of client c, which has no message on its way and may send one.
LEMMA ClientNet ==
    ASSUME PipeInv, NEW c \in Clients, worker' = worker, conns' \in Nat, conns <= conns',
           \A d \in Clients \ {c} : client'[d] = client[d],
           ~Live(client'[c].conn),
           \/ port' = port
           \/ \E m \in MessageType : /\ port' = Append(port, m)
                                     /\ Opens(m) => Sent(m)' /\ ~Live(m.conn)
    PROVE  Messages' /\ Unique'
<1>1. conns \in Nat /\ port \in Seq(MessageType)
    BY DEF PipeInv, TypeOK
<1>2. ASSUME NEW m, Sent(m), Opens(m) => Live(m.conn) PROVE Sent(m)'
    <2>1. CASE Opens(m)
        <3>1. client'[c].conn # m.conn
            BY <1>2, <2>1
        <3> QED BY <1>1, <1>2, <3>1, SentKept
    <2>2. CASE ~Opens(m)
        BY <2>2 DEF Sent, Opens
    <2> QED BY <2>1, <2>2
<1>3. \A w \in Workers : (Busy(w) <=> Busy(w)') /\ worker'[w] = worker[w]
    BY DEF Busy
<1>4. ASSUME NEW w \in Workers, Busy(w)' PROVE Sent(worker[w].msg)'
    <2>1. PICK m : m = worker[w].msg
        OBVIOUS
    <2>2. Sent(m) /\ Live(m.conn)
        BY <1>3, <1>4, <2>1 DEF PipeInv, Messages, Live
    <2>3. Sent(m)'
        BY <1>2, <2>2
    <2> QED BY <1>3, <2>1, <2>3 DEF Sent, Opens
<1>5. ASSUME NEW i \in 1 .. Len(port), NEW m, m = port[i] PROVE Sent(m)'
    <2>1. Sent(m) /\ (Opens(m) => Live(m.conn))
        BY <1>5 DEF PipeInv, Messages, Live
    <2> QED BY <1>2, <2>1
<1>6. \A w \in Workers : /\ worker'[w].at = "found" => worker'[w].msg.type = "REQUEST"
                         /\ worker'[w].at = "completed" => worker'[w].msg.conn \in Conns
    BY DEF PipeInv, Messages
<1>7. /\ \A v, w \in Workers : Busy(v)' /\ Busy(w)' /\ v # w
            => worker'[v].msg.conn # worker'[w].msg.conn
    BY <1>3 DEF PipeInv, Unique
<1>8. CASE port' = port
    <2>1. ASSUME NEW i \in 1 .. Len(port') PROVE Sent(port[i])'
        <3>1. PICK m : m = port[i]
            OBVIOUS
        <3>2. Sent(m)'
            BY <1>5, <1>8, <3>1
        <3> QED BY <1>8, <3>1, <3>2 DEF Sent, Opens
    <2>2. Messages'
        BY <1>4, <1>6, <2>1 DEF Messages
    <2>3. Unique'
        BY <1>3, <1>7, <1>8 DEF PipeInv, Unique, Opens
    <2> QED BY <2>2, <2>3
<1>9. ASSUME NEW n \in MessageType, port' = Append(port, n), Opens(n) => Sent(n)' /\ ~Live(n.conn)
      PROVE  Messages' /\ Unique'
    <2>1. /\ Len(port') = Len(port) + 1 /\ Len(port) \in Nat
          /\ \A i \in 1 .. Len(port) : port'[i] = port[i]
          /\ port'[Len(port) + 1] = n
        BY <1>1, <1>9
    <2>2. ASSUME NEW i \in 1 .. Len(port') PROVE Sent(port[i])'
        <3>1. PICK m : m = port'[i]
            OBVIOUS
        <3>2. Sent(m)'
            <4>1. CASE i \in 1 .. Len(port)
                BY <1>5, <2>1, <3>1, <4>1
            <4>2. CASE i = Len(port) + 1
                <5>1. CASE Opens(n)
                    BY <1>9, <2>1, <3>1, <4>2, <5>1
                <5>2. CASE ~Opens(n)
                    BY <2>1, <3>1, <4>2, <5>2 DEF Sent, Opens
                <5> QED BY <5>1, <5>2
            <4> QED BY <2>1, <4>1, <4>2
        <3> QED BY <3>1, <3>2 DEF Sent, Opens
    <2>3. Messages'
        BY <1>4, <1>6, <2>2 DEF Messages
    <2>4. \A i \in 1 .. Len(port) : Opens(n) /\ Opens(port[i]) => port[i].conn # n.conn
        BY <1>9 DEF Live
    <2>5. \A w \in Workers : Opens(n) /\ Busy(w) => worker[w].msg.conn # n.conn
        BY <1>9 DEF Live
    <2>6. \A i \in 1 .. Len(port') : i \in 1 .. Len(port) \/ i = Len(port) + 1
        BY <2>1
    <2>7. ASSUME NEW i \in 1 .. Len(port'), NEW j \in 1 .. Len(port'), i # j,
                 Opens(port'[i]), Opens(port'[j])
          PROVE  port'[i].conn # port'[j].conn
        <3>1. CASE i \in 1 .. Len(port) /\ j \in 1 .. Len(port)
            BY <2>1, <2>7, <3>1 DEF PipeInv, Unique
        <3> QED BY <2>1, <2>4, <2>6, <2>7, <3>1
    <2>8. ASSUME NEW i \in 1 .. Len(port'), NEW w \in Workers, Opens(port'[i]), Busy(w)
          PROVE  port'[i].conn # worker[w].msg.conn
        <3>1. CASE i \in 1 .. Len(port)
            BY <2>1, <2>8, <3>1 DEF PipeInv, Unique
        <3> QED BY <2>1, <2>5, <2>6, <2>8, <3>1
    <2>9. Unique'
        BY <1>3, <1>7, <2>7, <2>8 DEF Unique, Opens
    <2> QED BY <2>3, <2>9
<1> QED BY <1>8, <1>9

\* A step of worker w, which may complete or answer the message that it has: the
\* client of the connection then goes on.
LEMMA WorkerNet ==
    ASSUME PipeInv, NEW w \in Workers, NEW at, worker' = [worker EXCEPT ![w].at = at],
           port' = port, conns' = conns,
           at \in {"received", "found"} => worker[w].at \in {"received", "found"},
           at = "found" => worker[w].msg.type = "REQUEST",
           at = "completed" => worker[w].msg.conn \in Conns,
           \A d \in Clients : \/ client'[d] = client[d]
                              \/ /\ client'[d].conn = worker[w].msg.conn
                                 /\ Busy(w) /\ at \notin {"received", "found"}
    PROVE  Messages' /\ Unique'
<1>1. conns \in Nat /\ conns' = conns
    BY DEF PipeInv, TypeOK
<1>2. /\ worker'[w].at = at /\ worker'[w].msg = worker[w].msg
      /\ \A v \in Workers \ {w} : worker'[v] = worker[v]
    BY DEF PipeInv, TypeOK
<1>3. \A v \in Workers : /\ worker'[v].msg = worker[v].msg
                         /\ Busy(v)' => Busy(v)
                         /\ Busy(v)' /\ v = w => at \in {"received", "found"}
    BY <1>2 DEF Busy, Opens
<1>4. ASSUME NEW m, Sent(m), Opens(m) /\ Busy(w) => m.conn # worker[w].msg.conn \/ at \in {"received", "found"}
      PROVE  Sent(m)'
    <2>1. CASE Opens(m)
        BY <1>1, <1>4, <2>1, SentKept
    <2>2. CASE ~Opens(m)
        BY <2>2 DEF Sent, Opens
    <2> QED BY <2>1, <2>2
<1>5. ASSUME NEW v \in Workers, Busy(v)' PROVE Sent(worker[v].msg)'
    <2>1. PICK m : m = worker[v].msg
        OBVIOUS
    <2>2. Sent(m) /\ Busy(v)
        BY <1>3, <1>5, <2>1 DEF PipeInv, Messages
    <2>3. Sent(m)'
        <3>1. CASE v = w
            BY <1>3, <1>4, <1>5, <2>2, <3>1
        <3>2. CASE v # w
            <4>1. Busy(w) => m.conn # worker[w].msg.conn
                BY <2>1, <2>2, <3>2 DEF PipeInv, Unique
            <4> QED BY <1>4, <2>2, <4>1
        <3> QED BY <3>1, <3>2
    <2> QED BY <1>3, <2>1, <2>3 DEF Sent, Opens
<1>6. ASSUME NEW i \in 1 .. Len(port) PROVE Sent(port[i])'
    <2>1. PICK m : m = port[i]
        OBVIOUS
    <2>2. Sent(m) /\ (Opens(m) /\ Busy(w) => m.conn # worker[w].msg.conn)
        BY <2>1 DEF PipeInv, Messages, Unique
    <2>3. Sent(m)'
        BY <1>4, <2>2
    <2> QED BY <2>1, <2>3 DEF Sent, Opens
<1>7. \A v \in Workers : /\ worker'[v].at = "found" => worker'[v].msg.type = "REQUEST"
                         /\ worker'[v].at = "completed" => worker'[v].msg.conn \in Conns
    BY <1>2 DEF PipeInv, Messages
<1>8. Messages'
    BY <1>5, <1>6, <1>7 DEF Messages
<1>9. Unique'
    BY <1>3 DEF PipeInv, Unique, Opens
<1> QED BY <1>8, <1>9

\* A worker that takes the oldest message.
LEMMA ReceiveNet ==
    ASSUME PipeInv, NEW w \in Workers, Receive(w)
    PROVE  Messages' /\ Unique' /\ TypeOK'
<1>1. /\ port \in Seq(MessageType) /\ port # << >> /\ port' = Tail(port)
      /\ client' = client /\ conns' = conns
      /\ worker \in [Workers -> [at : {"receive", "received", "completed", "found"},
                                 msg : MessageType]]
    BY DEF PipeInv, TypeOK, Receive
<1>2. /\ Len(port) \in Nat /\ Len(port') \in Nat /\ Len(port) = Len(port') + 1
      /\ \A i \in 1 .. Len(port') : i + 1 \in 1 .. Len(port) /\ port'[i] = port[i + 1]
      /\ Head(port) = port[1] /\ 1 \in 1 .. Len(port) /\ port' \in Seq(MessageType)
      /\ Head(port) \in MessageType
    BY <1>1
<1>3. /\ worker'[w].at = "received" /\ worker'[w].msg = port[1] /\ worker[w].at = "receive"
      /\ \A v \in Workers \ {w} : worker'[v] = worker[v]
    BY <1>1, <1>2 DEF Receive
<1>4. /\ ~Busy(w) /\ (Busy(w)' <=> Opens(port[1]))
      /\ \A v \in Workers \ {w} : Busy(v)' <=> Busy(v)
    BY <1>3 DEF Busy, Opens
<1>5. ASSUME NEW m, Sent(m) PROVE Sent(m)'
    BY <1>1, <1>5 DEF Sent, Opens
<1>6. ASSUME NEW v \in Workers, Busy(v)' PROVE Sent(worker[v].msg)'
    <2>1. PICK m : m = worker'[v].msg
        OBVIOUS
    <2>2. Sent(m)
        BY <1>2, <1>3, <1>4, <1>6, <2>1 DEF PipeInv, Messages
    <2>3. Sent(m)'
        BY <1>5, <2>2
    <2> QED BY <2>1, <2>3 DEF Sent, Opens
<1>7. ASSUME NEW i \in 1 .. Len(port') PROVE Sent(port[i])'
    <2>1. PICK m : m = port[i + 1]
        OBVIOUS
    <2>2. Sent(m)'
        BY <1>2, <1>5, <2>1 DEF PipeInv, Messages
    <2> QED BY <1>2, <2>1, <2>2 DEF Sent, Opens
<1>8. \A v \in Workers : /\ worker'[v].at = "found" => worker'[v].msg.type = "REQUEST"
                         /\ worker'[v].at = "completed" => worker'[v].msg.conn \in Conns
    BY <1>3 DEF PipeInv, Messages
<1>9. Messages'
    BY <1>6, <1>7, <1>8 DEF Messages
<1>10. ASSUME NEW i \in 1 .. Len(port'), NEW j \in 1 .. Len(port'), i # j,
              Opens(port'[i]), Opens(port'[j])
       PROVE  port'[i].conn # port'[j].conn
    <2>1. i + 1 # j + 1
        BY <1>2, <1>10
    <2> QED BY <1>2, <1>10, <2>1 DEF PipeInv, Unique
<1>11. ASSUME NEW i \in 1 .. Len(port'), NEW v \in Workers, Opens(port'[i]), Busy(v)'
       PROVE  port'[i].conn # worker'[v].msg.conn
    <2>1. CASE v = w
        <3>1. i + 1 # 1
            BY <1>2
        <3> QED BY <1>2, <1>3, <1>4, <1>11, <2>1, <3>1 DEF PipeInv, Unique
    <2>2. CASE v # w
        BY <1>2, <1>3, <1>4, <1>11, <2>2 DEF PipeInv, Unique
    <2> QED BY <2>1, <2>2
<1>12. ASSUME NEW u \in Workers, NEW v \in Workers, u # v, Busy(u)', Busy(v)'
       PROVE  worker'[u].msg.conn # worker'[v].msg.conn
    BY <1>2, <1>3, <1>4, <1>12 DEF PipeInv, Unique
<1>13. Unique'
    BY <1>10, <1>11, <1>12 DEF Unique, Opens
<1>14. TypeOK'
    <2>1. worker' \in [Workers -> [at : {"receive", "received", "completed", "found"},
                                   msg : MessageType]]
        BY <1>1, <1>2 DEF Receive
    <2> QED BY <1>1, <1>2, <2>1 DEF PipeInv, TypeOK, Receive
<1> QED BY <1>9, <1>13, <1>14

-----------------------------------------------------------------------------
(* The two sides of a connection *)

\* Both sides stay in step when the length of the request does not change.
LEMMA InStepKept ==
    ASSUME NEW s, NEW th, InStep(s, th), th.call \in Calls => length'[th.call] = length[th.call]
    PROVE  InStep(s, th)'
<1>1. \A n : th.call \in Calls /\ Collects(s, th, n) => Collects(s, th, n)'
    BY DEF Collects, Quiet, First
<1>2. Calling(s, th) => Calling(s, th)'
    BY <1>1 DEF Calling, Quiet, Replies, Has, Parts
<1> QED BY <1>2 DEF InStep, Quiet, Has, Parts

\* The same, of the connection of client d.
LEMMA InStepOf ==
    ASSUME NEW d, NEW s, NEW th, InStep(s, th)', th = client'[d], s = sclient'[client'[d].conn]
    PROVE  InStep(sclient[client[d].conn], client[d])'
BY DEF InStep, Calling, Collects, Replies, Quiet, First, Has, Parts

\* A client that does nothing, and whose connection is left alone.
LEMMA OthersInStep ==
    ASSUME PipeInv, NEW d \in Clients, client'[d] = client[d],
           client[d].conn # 0 => sclient'[client[d].conn] = sclient[client[d].conn],
           failed \subseteq failed',
           \A n \in Calls : n <= calls => length'[n] = length[n],
           client'[d].conn \notin failed' \cup {0}
    PROVE  InStep(sclient[client[d].conn], client[d])'
<1>1. PICK th : th = client[d]
    OBVIOUS
<1>2. PICK s : s = sclient[client[d].conn]
    OBVIOUS
<1>3. InStep(s, th)
    BY <1>1, <1>2 DEF PipeInv, Steps
<1>4. th.call \in 0 .. calls
    BY <1>1 DEF PipeInv, Owned
<1>5. InStep(s, th)'
    BY <1>3, <1>4, InStepKept DEF Calls, PipeInv, TypeOK
<1>6. s = sclient'[client'[d].conn] /\ th = client'[d]
    BY <1>1, <1>2
<1> QED BY <1>5, <1>6, InStepOf

\* What a client may become.
MayBecome(c, x) ==
    /\ x.conn \in {0, client[c].conn} \/ x.conn > conns
    /\ x.conn = 0 => x.at = "idle"
    /\ x.at \in {"wait", "answered"} => x.call # 0

\* A step of client c, which becomes x.
LEMMA ClientStep ==
    ASSUME PipeInv, NEW c \in Clients, NEW x \in ThreadType,
           client' = [client EXCEPT ![c] = x], MayBecome(c, x), ~Live(x.conn),
           x.conn \in 0 .. conns', x.call \in 0 .. calls',
           UNCHANGED <<worker, m_Clients, sclient, failed>>,
           conns' \in conns .. MaxConns, calls' \in calls .. MaxCalls,
           length' \in [Calls -> 0 .. MaxLen], last_sequence' \in Seqs,
           \A n \in Calls : n <= calls => length'[n] = length[n],
           \/ port' = port
           \/ \E m \in MessageType : /\ port' = Append(port, m)
                                     /\ Opens(m) => Sent(m)' /\ ~Live(m.conn),
           \A s : x.conn \notin failed \cup {0} /\ s = sclient[x.conn] => InStep(s, x)'
    PROVE  PipeInv'
<1>1. /\ conns \in Nat /\ conns' \in Nat /\ conns <= conns' /\ calls \in Nat
      /\ client \in [Clients -> ThreadType] /\ port \in Seq(MessageType)
    BY DEF PipeInv, TypeOK
<1>2. client'[c] = x /\ \A d \in Clients \ {c} : client'[d] = client[d]
    BY <1>1
<1>3. TypeOK'
    <2>1. port' \in Seq(MessageType)
        <3>1. CASE port' = port
            BY <1>1, <3>1
        <3>2. ASSUME NEW m \in MessageType, port' = Append(port, m)
              PROVE  port' \in Seq(MessageType)
            BY <1>1, <3>2
        <3> QED BY <3>1, <3>2
    <2>2. client' \in [Clients -> ThreadType]
        BY <1>1
    <2> QED BY <1>1, <2>1, <2>2 DEF PipeInv, TypeOK
<1>4. Messages' /\ Unique'
    BY <1>1, <1>2, ClientNet
<1>5. Owned'
    <2>1. \A d \in Clients : client[d].conn \in 0 .. conns /\ client[d].call \in 0 .. calls
        BY DEF PipeInv, Owned
    <2>2. \A d \in Clients : /\ client'[d].conn \in 0 .. conns' /\ client'[d].call \in 0 .. calls'
                             /\ client'[d].conn = 0 => client'[d].at = "idle"
                             /\ client'[d].at \in {"wait", "answered"} => client'[d].call # 0
        BY <1>1, <1>2, <2>1 DEF PipeInv, Owned, MayBecome
    <2>3. \A d \in Clients \ {c} : client[d].conn = x.conn => x.conn = 0
        BY <1>1, <2>1 DEF PipeInv, Owned, MayBecome
    <2>4. \A d, e \in Clients : client'[d].conn = client'[e].conn /\ d # e => client'[d].conn = 0
        BY <1>2, <2>3 DEF PipeInv, Owned
    <2> QED BY <2>2, <2>4 DEF Owned
<1>6. Buffers'
    BY DEF PipeInv, Buffers, Inside
<1>7. Fresh'
    BY <1>1 DEF PipeInv, Fresh, Quiet, Conns
<1>8. Steps'
    <2> SUFFICES ASSUME NEW d \in Clients, client'[d].conn \notin failed' \cup {0}
                 PROVE  InStep(sclient[client[d].conn], client[d])'
        BY DEF Steps
    <2>1. CASE d # c
        BY <1>2, <2>1, OthersInStep
    <2>2. CASE d = c
        <3>1. PICK s : s = sclient[x.conn]
            OBVIOUS
        <3>2. InStep(s, x)'
            BY <1>2, <2>2, <3>1
        <3>3. s = sclient'[client'[d].conn] /\ x = client'[d]
            BY <1>2, <2>2, <3>1
        <3> QED BY <3>2, <3>3, InStepOf
    <2> QED BY <2>1, <2>2
<1> QED BY <1>3, <1>4, <1>5, <1>6, <1>7, <1>8 DEF PipeInv

\* A chunk that is sent.
Sends(x, th, part) ==
    /\ x \in ThreadType /\ x.at = "wait" /\ x.sent = part /\ x.conn = th.conn
    /\ x.call = th.call /\ x.seq = th.seq /\ x.len = th.len /\ x.pos = th.pos
    /\ x.got = th.got

\* The empty message by which the service asks for the next chunk has its type.
LEMMA EmptyTyped == Empty \in ChunkType /\ Empty.len = 0
<1>1. 0 \in Seqs /\ 0 \in 0 .. MaxCalls /\ 0 \in 0 .. MaxLen
    BY DEF Seqs
<1> QED BY <1>1 DEF Empty, Chunk, ChunkType

\* Send, for a thread that does not wait.
LEMMA SendStep ==
    ASSUME PipeInv, NEW c \in Clients, NEW th \in ThreadType, NEW part \in 0 .. MaxLen,
           Send(c, th, part), th.conn = client[c].conn, th.conn # 0,
           client[c].at \in {"idle", "connected", "answered"},
           th.call \in 1 .. calls', calls' \in calls .. MaxCalls,
           UNCHANGED <<worker, m_Clients, sclient, failed, conns>>,
           length' \in [Calls -> 0 .. MaxLen], last_sequence' \in Seqs,
           \A n \in Calls : n <= calls => length'[n] = length[n],
           \A s, x : th.conn \notin failed /\ s = sclient[th.conn] /\ Sends(x, th, part)
                        => Calling(s, x)'
    PROVE  PipeInv'
<1>1. /\ conns \in 0 .. MaxConns /\ calls \in Nat /\ client \in [Clients -> ThreadType]
      /\ th.conn \in 1 .. conns /\ th.conn \in 0 .. MaxConns /\ th.seq \in Seqs
      /\ th.call \in 0 .. MaxCalls
    BY DEF PipeInv, TypeOK, Owned, ThreadType
<1> DEFINE x == [th EXCEPT !.at = "wait", !.sent = part, !.inbox = Empty]
           m == Message("REQUEST", th.conn, th.call, part, IF part = 1 THEN th.seq ELSE 0)
<1>2. Sends(x, th, part)
    BY EmptyTyped DEF Sends, ThreadType
<1>3. /\ m \in MessageType /\ m.type = "REQUEST" /\ m.conn = th.conn /\ m.call = th.call
      /\ m.part = part /\ (part = 1 => m.seq = th.seq)
    <2>1. 0 \in Seqs
        BY DEF Seqs
    <2> QED BY <1>1, <2>1 DEF Message, MessageType
<1>4. client' = [client EXCEPT ![c] = x] /\ port' = Append(port, m)
    BY DEF Send
<1> HIDE DEF x, m
<1>5. ~Live(th.conn)
    BY NotLive
<1>6. client'[c] = x /\ \A d \in Clients \ {c} : client'[d] = client[d]
    BY <1>1, <1>4
<1>7. PICK n : n = m
    OBVIOUS
<1>8. Sent(n)'
    <2>1. \A d \in Clients \ {c} : client[d].conn # th.conn
        BY DEF PipeInv, Owned
    <2> QED BY <1>1, <1>2, <1>3, <1>6, <1>7, <2>1 DEF Sent, Opens, Sends, Calls
<1>9. PICK y : y = x
    OBVIOUS
<1>10. \A s : y.conn \notin failed \cup {0} /\ s = sclient[y.conn] => InStep(s, y)'
    BY <1>2, <1>9 DEF InStep, Sends
<1>11. MayBecome(c, y) /\ y.conn = th.conn /\ y.call = th.call /\ y \in ThreadType
    BY <1>2, <1>9 DEF MayBecome, Sends
<1>12. y.conn \in 0 .. conns' /\ y.call \in 0 .. calls' /\ conns' \in conns .. MaxConns
    BY <1>1, <1>11
<1> QED BY <1>3, <1>4, <1>5, <1>7, <1>8, <1>9, <1>10, <1>11, <1>12, ClientStep

\* ReturnReply, for a thread whose service has nothing left.
LEMMA ReturnStep ==
    ASSUME PipeInv, NEW c \in Clients, NEW got \in SUBSET ChunkType, ReturnReply(c, got),
           client[c].at = "answered",
           UNCHANGED <<length, last_sequence, port, worker, m_Clients, sclient, conns,
                       calls, failed>>,
           client[c].conn \notin failed =>
              /\ Quiet(sclient[client[c].conn])
              /\ got # {} => \E L \in 1 .. MaxLen :
                                Parts(got) = {<<client[c].call, i, L>> : i \in 1 .. L}
    PROVE  PipeInv'
<1>1. /\ conns \in 0 .. MaxConns /\ calls \in 0 .. MaxCalls
      /\ client \in [Clients -> ThreadType] /\ client[c] \in ThreadType
      /\ client[c].conn \in 0 .. conns /\ client[c].call \in 0 .. calls
      /\ length \in [Calls -> 0 .. MaxLen] /\ last_sequence \in Seqs
    BY DEF PipeInv, TypeOK, Owned
<1> DEFINE x == [client[c] EXCEPT !.at = "idle", !.inbox = Empty, !.got = got]
<1>2. /\ x \in ThreadType /\ x.at = "idle" /\ x.conn = client[c].conn
      /\ x.call = client[c].call /\ x.got = got
    BY <1>1, EmptyTyped DEF ThreadType
<1>3. client' = [client EXCEPT ![c] = x]
    BY <1>1 DEF ReturnReply
<1> HIDE DEF x
<1>4. PICK y : y = x
    OBVIOUS
<1>5. ASSUME NEW s, y.conn \notin failed \cup {0}, s = sclient[y.conn] PROVE InStep(s, y)'
    <2>1. Quiet(s)
        BY <1>2, <1>4, <1>5
    <2>2. y.got # {} => \E L \in 1 .. MaxLen : Has(y, L, L)
        BY <1>2, <1>4, <1>5 DEF Has
    <2>3. InStep(s, y)
        BY <1>2, <1>4, <2>1, <2>2 DEF InStep
    <2> QED BY <2>3, InStepKept
<1>6. MayBecome(c, y) /\ ~Live(y.conn)
    BY <1>2, <1>4, NotLive DEF MayBecome
<1>7. y.conn \in 0 .. conns' /\ y.call \in 0 .. calls' /\ conns' \in conns .. MaxConns
      /\ calls' \in calls .. MaxCalls
    BY <1>1, <1>2, <1>4
<1> QED BY <1>1, <1>2, <1>3, <1>4, <1>5, <1>6, <1>7, ClientStep

\* ConnectPort keeps the invariant: a connection is new to everybody.
LEMMA StepConnectPort ==
    ASSUME PipeInv, NEW c \in Clients, ConnectPort(c) PROVE PipeInv'
<1>1. /\ conns \in 0 .. MaxConns /\ calls \in 0 .. MaxCalls
      /\ client \in [Clients -> ThreadType] /\ client[c] \in ThreadType
      /\ client[c].call \in 0 .. calls
      /\ length \in [Calls -> 0 .. MaxLen] /\ last_sequence \in Seqs
    BY DEF PipeInv, TypeOK, Owned
<1>2. conns < MaxConns /\ conns + 1 \in Conns /\ conns + 1 \in 0 .. MaxConns
    BY <1>1 DEF ConnectPort, Conns
<1> DEFINE x == [client[c] EXCEPT !.at = "connect", !.conn = conns + 1]
           m == Message("CONNECT", conns + 1, 0, 0, 0)
<1>3. /\ x \in ThreadType /\ x.at = "connect" /\ x.conn = conns + 1
      /\ x.call = client[c].call
    BY <1>1, <1>2 DEF ThreadType
<1>4. m \in MessageType /\ m.type = "CONNECT" /\ m.conn = conns + 1
    <2>1. 0 \in Seqs /\ 0 \in 0 .. MaxCalls /\ 0 \in 0 .. MaxLen
        BY DEF Seqs
    <2> QED BY <1>2, <2>1 DEF Message, MessageType
<1>5. client' = [client EXCEPT ![c] = x] /\ port' = Append(port, m) /\ conns' = conns + 1
    BY <1>1 DEF ConnectPort
<1> HIDE DEF x, m
<1>6. ~Live(conns + 1)
    BY <1>1, NotLive
<1>7. client'[c] = x /\ \A d \in Clients \ {c} : client'[d] = client[d]
    BY <1>1, <1>5
<1>8. PICK n : n = m
    OBVIOUS
<1>9. Sent(n)'
    <2>1. \A d \in Clients \ {c} : client[d].conn # conns + 1
        BY <1>1 DEF PipeInv, Owned
    <2> QED BY <1>1, <1>3, <1>4, <1>5, <1>7, <1>8, <2>1 DEF Sent, Opens
<1>10. PICK y : y = x
    OBVIOUS
<1>11. ASSUME NEW s, s = sclient[y.conn] PROVE InStep(s, y)'
    <2>1. Quiet(s)
        BY <1>1, <1>2, <1>3, <1>10, <1>11 DEF PipeInv, Fresh
    <2>2. InStep(s, y)
        BY <1>3, <1>10, <2>1 DEF InStep
    <2>3. length' = length
        BY DEF ConnectPort
    <2> QED BY <2>2, <2>3, InStepKept
<1>12. MayBecome(c, y) /\ ~Live(y.conn)
    BY <1>1, <1>3, <1>6, <1>10 DEF MayBecome
<1>13. /\ y.conn \in 0 .. conns' /\ conns' \in conns .. MaxConns
       /\ y.call \in 0 .. calls' /\ calls' \in calls .. MaxCalls
    BY <1>1, <1>2, <1>3, <1>5, <1>10 DEF ConnectPort
<1>14. /\ UNCHANGED <<worker, m_Clients, sclient, failed>> /\ length' = length
       /\ last_sequence' = last_sequence
    BY DEF ConnectPort
<1> QED BY <1>1, <1>3, <1>4, <1>5, <1>6, <1>8, <1>9, <1>10, <1>11, <1>12, <1>13, <1>14,
           ClientStep

\* A thread that has no connection and makes no call.
LEMMA NewThreadFacts ==
    /\ NewThread \in ThreadType /\ NewThread.at = "idle" /\ NewThread.conn = 0
    /\ NewThread.call = 0 /\ NewThread.len = 0 /\ NewThread.pos = 0 /\ NewThread.got = {}
<1>1. 0 \in Seqs /\ 0 \in 0 .. MaxCalls /\ 0 \in 0 .. MaxLen /\ 0 \in 0 .. MaxConns
    BY DEF Seqs
<1> QED BY <1>1, EmptyTyped DEF NewThread, ThreadType

\* The end of a client keeps the invariant.
LEMMA StepExit ==
    ASSUME PipeInv, NEW c \in Clients, Exit(c) PROVE PipeInv'
<1>1. /\ conns \in 0 .. MaxConns /\ calls \in 0 .. MaxCalls /\ client[c] \in ThreadType
      /\ length \in [Calls -> 0 .. MaxLen] /\ last_sequence \in Seqs
    BY DEF PipeInv, TypeOK
<1> DEFINE m == Message("CLOSED", client[c].conn, 0, 0, 0)
<1>2. m \in MessageType /\ m.type = "CLOSED"
    <2>1. 0 \in Seqs /\ 0 \in 0 .. MaxCalls /\ 0 \in 0 .. MaxLen
          /\ client[c].conn \in 0 .. MaxConns
        BY <1>1 DEF Seqs, ThreadType
    <2> QED BY <2>1 DEF Message, MessageType
<1>3. client' = [client EXCEPT ![c] = NewThread] /\ port' = Append(port, m)
    BY DEF Exit
<1> HIDE DEF m
<1>4. ~Opens(m)
    BY <1>2 DEF Opens
<1>5. MayBecome(c, NewThread)
    BY NewThreadFacts DEF MayBecome
<1>6. ~Live(0)
    BY NotLive
<1>7. UNCHANGED <<length, last_sequence, worker, m_Clients, sclient, conns, calls, failed>>
    BY DEF Exit
<1>8. /\ NewThread.conn \in 0 .. conns' /\ NewThread.call \in 0 .. calls'
      /\ conns' \in conns .. MaxConns /\ calls' \in calls .. MaxCalls
    BY <1>1, <1>7, NewThreadFacts
<1>9. PICK y : y = NewThread
    OBVIOUS
<1>10. y.conn = 0
    BY <1>9, NewThreadFacts
<1>11. \A s : y.conn \notin failed \cup {0} /\ s = sclient[y.conn] => InStep(s, y)'
    BY <1>10
<1>12. /\ y \in ThreadType /\ MayBecome(c, y) /\ ~Live(y.conn)
       /\ y.conn \in 0 .. conns' /\ y.call \in 0 .. calls'
       /\ client' = [client EXCEPT ![c] = y]
    BY <1>3, <1>5, <1>6, <1>8, <1>9, NewThreadFacts
<1>13. \E n \in MessageType : port' = Append(port, n) /\ (Opens(n) => Sent(n)' /\ ~Live(n.conn))
    BY <1>2, <1>3, <1>4
<1>14. length' \in [Calls -> 0 .. MaxLen] /\ last_sequence' \in Seqs
       /\ \A n \in Calls : n <= calls => length'[n] = length[n]
    BY <1>1, <1>7
<1> QED BY <1>7, <1>8, <1>11, <1>12, <1>13, <1>14, ClientStep

\* The first chunk of a call keeps the invariant.
LEMMA StepCallServer ==
    ASSUME PipeInv, NEW c \in Clients, NEW n \in 1 .. MaxLen, CallServer(c, n) PROVE PipeInv'
<1>1. /\ conns \in 0 .. MaxConns /\ calls \in 0 .. MaxCalls /\ client[c] \in ThreadType
      /\ length \in [Calls -> 0 .. MaxLen] /\ last_sequence \in Seqs
      /\ client[c].conn \in 0 .. MaxConns
    BY DEF PipeInv, TypeOK, ThreadType
<1>2. /\ calls < MaxCalls /\ calls' = calls + 1 /\ calls + 1 \in Calls
      /\ calls' \in calls .. MaxCalls /\ calls + 1 \in 0 .. MaxCalls
      /\ client[c].at \in {"idle", "connected"} /\ client[c].conn # 0
    BY <1>1 DEF CallServer, Calls
<1>3. Sequence \in Seqs /\ last_sequence' \in Seqs
    BY <1>1 DEF Sequence, CallServer, Seqs
<1>4. /\ length' \in [Calls -> 0 .. MaxLen] /\ length'[calls + 1] = n
      /\ \A k \in Calls : k <= calls => length'[k] = length[k]
    BY <1>1, <1>2 DEF CallServer
<1>5. PICK q : q = Sequence
    OBVIOUS
<1> DEFINE th == [NewThread EXCEPT !.conn = client[c].conn, !.call = calls + 1, !.seq = q]
<1>6. /\ th \in ThreadType /\ th.conn = client[c].conn /\ th.call = calls + 1
      /\ th.len = 0 /\ th.pos = 0 /\ th.got = {}
    BY <1>1, <1>2, <1>3, <1>5, NewThreadFacts DEF ThreadType
<1>7. Send(c, th, 1)
    BY <1>5 DEF CallServer
<1> HIDE DEF th
<1>8. ASSUME NEW s, NEW x, th.conn \notin failed, s = sclient[th.conn], Sends(x, th, 1)
      PROVE  Calling(s, x)'
    <2>1. Quiet(s)
        BY <1>2, <1>6, <1>8 DEF PipeInv, Steps, InStep
    <2>2. x.at = "wait" /\ x.sent = 1 /\ x.call = calls + 1 /\ x.len = 0 /\ x.pos = 0 /\ x.got = {}
        BY <1>6, <1>8 DEF Sends
    <2>3. Collects(s, x, x.sent - 1)'
        BY <2>1, <2>2 DEF Collects, Quiet
    <2> QED BY <1>2, <1>4, <2>2, <2>3 DEF Calling
<1>9. UNCHANGED <<worker, m_Clients, sclient, failed, conns>>
    BY DEF CallServer
<1>10. th.call \in 1 .. calls' /\ th.conn # 0 /\ 1 \in 0 .. MaxLen
    BY <1>1, <1>2, <1>6
<1>11. PICK y : y = th
    OBVIOUS
<1>12. /\ y \in ThreadType /\ Send(c, y, 1) /\ y.conn = client[c].conn /\ y.conn # 0
       /\ y.call \in 1 .. calls'
    BY <1>6, <1>7, <1>10, <1>11
<1>13. \A s, x : y.conn \notin failed /\ s = sclient[y.conn] /\ Sends(x, y, 1) => Calling(s, x)'
    BY <1>8, <1>11
<1> QED BY <1>2, <1>3, <1>4, <1>9, <1>10, <1>12, <1>13, SendStep

\* What Owned says of a thread that makes a call.
LEMMA CallMade ==
    ASSUME PipeInv, NEW c \in Clients, client[c].at = "answered"
    PROVE  /\ client[c].conn # 0 /\ client[c].call \in 1 .. calls /\ client[c].call \in Calls
           /\ client[c] \in ThreadType /\ calls \in 0 .. MaxCalls
           /\ length \in [Calls -> 0 .. MaxLen] /\ last_sequence \in Seqs
           /\ client[c].conn \notin failed => Calling(sclient[client[c].conn], client[c])
<1>1. calls \in 0 .. MaxCalls /\ client[c] \in ThreadType /\ last_sequence \in Seqs
      /\ length \in [Calls -> 0 .. MaxLen]
    BY DEF PipeInv, TypeOK
<1>2. client[c].call \in 0 .. calls /\ client[c].conn # 0 /\ client[c].call # 0
    BY DEF PipeInv, Owned
<1>3. client[c].conn \notin failed => Calling(sclient[client[c].conn], client[c])
    BY <1>2 DEF PipeInv, Steps, InStep
<1> QED BY <1>1, <1>2, <1>3 DEF Calls

\* Each further chunk of a request keeps the invariant.
LEMMA StepSendNext ==
    ASSUME PipeInv, NEW c \in Clients, SendNext(c) PROVE PipeInv'
<1> DEFINE th == client[c]
<1>1. th.at = "answered" /\ th.len = 0 /\ th.sent < length[th.call]
    BY DEF SendNext
<1>2. /\ th.conn # 0 /\ th.call \in 1 .. calls /\ th.call \in Calls /\ th \in ThreadType
      /\ calls \in 0 .. MaxCalls /\ length \in [Calls -> 0 .. MaxLen] /\ last_sequence \in Seqs
      /\ th.conn \notin failed => Calling(sclient[th.conn], th)
    BY <1>1, CallMade
<1>3. UNCHANGED <<length, last_sequence, worker, m_Clients, sclient, conns, calls, failed>>
    BY DEF SendNext
<1>4. CASE th.inbox.len # 0
    <2>1. ReturnReply(c, {}) /\ port' = port
        BY <1>4 DEF SendNext, ReturnNull
    <2>2. th.conn \in failed
        BY <1>1, <1>2, <1>4, EmptyTyped DEF Calling
    <2> QED BY <1>1, <1>3, <2>1, <2>2, ReturnStep
<1>5. CASE th.inbox.len = 0
    <2>1. Send(c, th, th.sent + 1)
        BY <1>5 DEF SendNext
    <2>2. th.sent \in Nat /\ length[th.call] \in 0 .. MaxLen /\ th.sent + 1 \in 0 .. MaxLen
        BY <1>1, <1>2 DEF ThreadType
    <2>3. ASSUME NEW s, NEW x, th.conn \notin failed, s = sclient[th.conn],
                 Sends(x, th, th.sent + 1)
          PROVE  Calling(s, x)'
        <3>1. Calling(s, th)
            BY <1>2, <2>3
        <3>2. /\ x.at = "wait" /\ x.sent = th.sent + 1 /\ x.call = th.call /\ x.len = 0
              /\ x.pos = 0 /\ x.got = {} /\ x.seq = th.seq
            BY <1>1, <2>3, <3>1 DEF Sends, Calling
        <3>3. Collects(s, x, th.sent)
            BY <1>1, <3>1, <3>2 DEF Calling, Collects
        <3>4. x.sent - 1 = th.sent /\ x.sent \in 1 .. length[x.call]
            BY <1>1, <2>2, <3>2
        <3>5. Calling(s, x)
            BY <1>1, <1>2, <3>1, <3>2, <3>3, <3>4 DEF Calling
        <3>6. InStep(s, x)
            BY <3>2, <3>5 DEF InStep
        <3>7. InStep(s, x)'
            BY <1>3, <3>6, InStepKept
        <3> QED BY <3>2, <3>7 DEF InStep
    <2>4. PICK y : y = th
        OBVIOUS
    <2>5. PICK p : p = th.sent + 1
        OBVIOUS
    <2>6. /\ y \in ThreadType /\ Send(c, y, p) /\ y.conn = client[c].conn /\ y.conn # 0
          /\ y.call \in 1 .. calls' /\ p \in 0 .. MaxLen
          /\ calls' \in calls .. MaxCalls
        BY <1>2, <1>3, <2>1, <2>2, <2>4, <2>5
    <2>7. \A s, x : y.conn \notin failed /\ s = sclient[y.conn] /\ Sends(x, y, p) => Calling(s, x)'
        BY <2>3, <2>4, <2>5
    <2>8. length' \in [Calls -> 0 .. MaxLen] /\ last_sequence' \in Seqs
          /\ \A k \in Calls : k <= calls => length'[k] = length[k]
        BY <1>2, <1>3
    <2> QED BY <1>1, <1>3, <2>6, <2>7, <2>8, SendStep
<1> QED BY <1>4, <1>5

\* A chunk of the reply that is added to the others.
LEMMA PartsFacts ==
    ASSUME NEW got, NEW b, NEW call, NEW L, NEW n \in Nat,
           Parts(got) = {<<call, i, L>> : i \in 1 .. n},
           b.call = call, b.part = n + 1, b.len = L
    PROVE  Parts(got \cup {b}) = {<<call, i, L>> : i \in 1 .. n + 1}
<1>1. Parts(got \cup {b}) = Parts(got) \cup {<<call, n + 1, L>>}
    BY DEF Parts
<1>2. {<<call, i, L>> : i \in 1 .. n + 1} = {<<call, i, L>> : i \in 1 .. n} \cup {<<call, n + 1, L>>}
    <2>1. 1 .. n + 1 = (1 .. n) \cup {n + 1}
        OBVIOUS
    <2> QED BY <2>1
<1> QED BY <1>1, <1>2

\* The chunk that comes next in a reply of L chunks; the service has sent it.
Arrived(s, th, L) ==
    /\ th.inbox.len = L /\ th.inbox.call = th.call /\ th.inbox.part = th.pos + 1
    /\ Replies(s, th, L, th.pos + 1) /\ th.pos < L /\ Has(th, L, th.pos)
    /\ length[th.call] # 0

\* Accept: the reply is complete, or the next chunk is asked for.
LEMMA AcceptStep ==
    ASSUME PipeInv, NEW c \in Clients, client[c].at = "answered", NEW L \in 1 .. MaxLen,
           Accept(c, L),
           UNCHANGED <<length, last_sequence, worker, m_Clients, sclient, conns, calls, failed>>,
           client[c].conn \notin failed => Arrived(sclient[client[c].conn], client[c], L)
    PROVE  PipeInv'
<1> DEFINE th == client[c]
           new == IF th.inbox.len = 0 THEN {} ELSE {th.inbox}
           pos == IF th.inbox.len = 0 THEN th.pos ELSE th.pos + 1
<1>1. /\ th.conn # 0 /\ th.call \in 1 .. calls /\ th.call \in Calls /\ th \in ThreadType
      /\ calls \in 0 .. MaxCalls /\ length \in [Calls -> 0 .. MaxLen] /\ last_sequence \in Seqs
    BY CallMade
<1>2. /\ th.pos \in Nat /\ pos \in Nat /\ th.inbox \in ChunkType /\ th.got \subseteq ChunkType
      /\ th.got \cup new \in SUBSET ChunkType /\ L \in Nat
    BY <1>1 DEF ThreadType
<1>3. ASSUME th.conn \notin failed
      PROVE  /\ pos = th.pos + 1 /\ pos <= L /\ new = {th.inbox}
             /\ Replies(sclient[th.conn], th, L, pos)
             /\ Parts(th.got \cup new) = {<<th.call, i, L>> : i \in 1 .. pos}
    <2>1. th.inbox.len # 0
        BY <1>3 DEF Arrived
    <2>2. pos = th.pos + 1 /\ pos <= L /\ new = {th.inbox}
        BY <1>2, <1>3, <2>1 DEF Arrived
    <2>3. Parts(th.got) = {<<th.call, i, L>> : i \in 1 .. th.pos}
        BY <1>3 DEF Arrived, Has
    <2>4. th.inbox.call = th.call /\ th.inbox.part = th.pos + 1 /\ th.inbox.len = L
        BY <1>3 DEF Arrived
    <2>5. Parts(th.got \cup {th.inbox}) = {<<th.call, i, L>> : i \in 1 .. th.pos + 1}
        BY <1>2, <2>3, <2>4, PartsFacts
    <2>6. Replies(sclient[th.conn], th, L, th.pos + 1)
        BY <1>3 DEF Arrived
    <2> QED BY <2>2, <2>5, <2>6
<1>4. CASE pos >= L
    <2>1. ReturnReply(c, th.got \cup new) /\ port' = port
        BY <1>4 DEF Accept
    <2>2. ASSUME th.conn \notin failed
          PROVE  /\ Quiet(sclient[th.conn])
                 /\ \E k \in 1 .. MaxLen :
                       Parts(th.got \cup new) = {<<th.call, i, k>> : i \in 1 .. k}
        <3>1. pos = L
            BY <1>2, <1>3, <1>4, <2>2
        <3>2. Quiet(sclient[th.conn])
            BY <1>2, <1>3, <1>4, <2>2 DEF Replies
        <3>3. Parts(th.got \cup new) = {<<th.call, i, L>> : i \in 1 .. L}
            BY <1>3, <2>2, <3>1
        <3> QED BY <3>2, <3>3
    <2> QED BY <1>2, <2>1, <2>2, ReturnStep
<1>5. CASE ~(pos >= L)
    <2> DEFINE z == [th EXCEPT !.len = L, !.pos = pos, !.got = th.got \cup new]
    <2>1. Send(c, z, 0)
        BY <1>5 DEF Accept
    <2>2. pos < L /\ pos \in 0 .. MaxLen /\ L \in 0 .. MaxLen
        BY <1>2, <1>5
    <2> HIDE DEF pos, new
    <2>3. /\ z \in ThreadType /\ z.len = L /\ z.pos = pos /\ z.got = th.got \cup new
          /\ z.conn = th.conn /\ z.call = th.call
        BY <1>1, <1>2, <2>2 DEF ThreadType
    <2> HIDE DEF z
    <2>4. ASSUME NEW s, NEW x, z.conn \notin failed, s = sclient[z.conn], Sends(x, z, 0)
          PROVE  Calling(s, x)'
        <3>1. /\ x.at = "wait" /\ x.sent = 0 /\ x.call = th.call /\ x.len = L
              /\ x.pos = pos /\ x.got = th.got \cup new
            BY <2>3, <2>4 DEF Sends
        <3>2. /\ pos = th.pos + 1 /\ Replies(s, th, L, pos)
              /\ Parts(x.got) = {<<x.call, i, L>> : i \in 1 .. pos}
            BY <1>3, <2>3, <2>4, <3>1
        <3>3. Replies(s, x, L, pos) /\ Has(x, L, pos)
            BY <3>1, <3>2 DEF Replies, Has
        <3>4. pos \in 1 .. L - 1 /\ L # 0 /\ length[x.call] # 0
            BY <1>2, <2>2, <2>3, <2>4, <3>1, <3>2 DEF Arrived
        <3>5. Calling(s, x)
            BY <1>1, <3>1, <3>3, <3>4 DEF Calling
        <3>6. InStep(s, x)
            BY <3>1, <3>5 DEF InStep
        <3>7. InStep(s, x)'
            BY <3>6, InStepKept
        <3> QED BY <3>1, <3>7 DEF InStep
    <2>5. PICK y : y = z
        OBVIOUS
    <2>6. /\ y \in ThreadType /\ Send(c, y, 0) /\ y.conn = client[c].conn /\ y.conn # 0
          /\ y.call \in 1 .. calls' /\ 0 \in 0 .. MaxLen
          /\ calls' \in calls .. MaxCalls
        BY <1>1, <2>1, <2>3, <2>5
    <2>7. \A s, x : y.conn \notin failed /\ s = sclient[y.conn] /\ Sends(x, y, 0) => Calling(s, x)'
        BY <2>4, <2>5
    <2>8. length' \in [Calls -> 0 .. MaxLen] /\ last_sequence' \in Seqs
          /\ \A k \in Calls : k <= calls => length'[k] = length[k]
        BY <1>1
    <2> QED BY <2>6, <2>7, <2>8, SendStep
<1> QED BY <1>4, <1>5

\* The first chunk of a reply keeps the invariant, or ends the call.
LEMMA StepFirstReply ==
    ASSUME PipeInv, NEW c \in Clients, FirstReply(c) PROVE PipeInv'
<1> DEFINE th == client[c]
<1>1. th.at = "answered" /\ th.len = 0 /\ th.sent = length[th.call]
    BY DEF FirstReply
<1>2. th \in ThreadType /\ (th.conn \notin failed => Calling(sclient[th.conn], th))
    BY <1>1, CallMade
<1>3. UNCHANGED <<length, last_sequence, worker, m_Clients, sclient, conns, calls, failed>>
    BY DEF FirstReply
<1>4. CASE th.inbox.len = 0 \/ ~SequenceMatches(th)
    <2>1. ReturnReply(c, {}) /\ port' = port
        BY <1>4 DEF FirstReply, ReturnNull
    <2>2. th.conn \notin failed => Quiet(sclient[th.conn])
        BY <1>1, <1>2, <1>4 DEF Calling, SequenceMatches
    <2> QED BY <1>1, <1>3, <2>1, <2>2, ReturnStep
<1>5. CASE ~(th.inbox.len = 0 \/ ~SequenceMatches(th))
    <2> DEFINE L == th.inbox.len
    <2>1. Accept(c, L)
        BY <1>5 DEF FirstReply
    <2>2. L \in 1 .. MaxLen
        BY <1>2, <1>5 DEF ThreadType, ChunkType
    <2>3. ASSUME th.conn \notin failed PROVE Arrived(sclient[th.conn], th, L)
        <3>1. /\ th.pos = 0 /\ th.got = {} /\ th.inbox.call = th.call /\ th.inbox.part = 1
              /\ Replies(sclient[th.conn], th, L, 1) /\ length[th.call] # 0
            BY <1>1, <1>2, <1>5, <2>3 DEF Calling
        <3>2. Has(th, L, 0)
            BY <3>1 DEF Has, Parts
        <3> QED BY <2>2, <3>1, <3>2 DEF Arrived
    <2> HIDE DEF L
    <2> QED BY <1>1, <1>3, <2>1, <2>2, <2>3, AcceptStep
<1> QED BY <1>4, <1>5

\* Each further chunk of a reply keeps the invariant, or ends the call.
LEMMA StepNextReply ==
    ASSUME PipeInv, NEW c \in Clients, NextReply(c) PROVE PipeInv'
<1> DEFINE th == client[c]
           L == th.len
<1>1. th.at = "answered" /\ L # 0 /\ Accept(c, L)
    BY DEF NextReply
<1>2. th \in ThreadType /\ (th.conn \notin failed => Calling(sclient[th.conn], th))
    BY <1>1, CallMade
<1>3. UNCHANGED <<length, last_sequence, worker, m_Clients, sclient, conns, calls, failed>>
    BY DEF NextReply
<1>4. L \in 1 .. MaxLen
    BY <1>1, <1>2 DEF ThreadType
<1>5. th.conn \notin failed => Arrived(sclient[th.conn], th, L)
    BY <1>1, <1>2, <1>4 DEF Calling, Arrived
<1> HIDE DEF L
<1> QED BY <1>1, <1>3, <1>4, <1>5, AcceptStep

\* A step of worker w, of which the clients and their buffers see nothing.
LEMMA WorkerMoves ==
    ASSUME PipeInv, NEW w \in Workers, NEW at \in {"receive", "found"}, Goto(w, at),
           at = "found" => worker[w].at = "received" /\ worker[w].msg.type = "REQUEST",
           m_Clients' \subseteq Conns,
           UNCHANGED <<client, length, last_sequence, port, sclient, conns, calls, failed>>
    PROVE  PipeInv'
<1>1. worker' = [worker EXCEPT ![w].at = at]
    BY DEF Goto
<1>2. TypeOK'
    BY <1>1 DEF PipeInv, TypeOK
<1>3. Messages' /\ Unique'
    BY <1>1, WorkerNet
<1>4. Owned' /\ Buffers' /\ Fresh'
    BY DEF PipeInv, Owned, Buffers, Inside, Fresh, Quiet
<1>5. Steps'
    <2> SUFFICES ASSUME NEW d \in Clients, client'[d].conn \notin failed' \cup {0}
                 PROVE  InStep(sclient[client[d].conn], client[d])'
        BY DEF Steps
    <2> QED BY OthersInStep
<1> QED BY <1>2, <1>3, <1>4, <1>5 DEF PipeInv

\* A worker takes a message from the port.
LEMMA StepReceive ==
    ASSUME PipeInv, NEW w \in Workers, Receive(w) PROVE PipeInv'
<1>1. UNCHANGED <<client, length, last_sequence, m_Clients, sclient, conns, calls, failed>>
    BY DEF Receive
<1>2. Owned' /\ Buffers' /\ Fresh'
    BY <1>1 DEF PipeInv, Owned, Buffers, Inside, Fresh, Quiet
<1>3. Steps'
    <2> SUFFICES ASSUME NEW d \in Clients, client'[d].conn \notin failed' \cup {0}
                 PROVE  InStep(sclient[client[d].conn], client[d])'
        BY DEF Steps
    <2> QED BY <1>1, OthersInStep
<1> QED BY <1>2, <1>3, ReceiveNet DEF PipeInv

\* The second half of PortConnect keeps the invariant.
LEMMA StepStoreClient ==
    ASSUME PipeInv, NEW w \in Workers, StoreClient(w) PROVE PipeInv'
<1>1. Goto(w, "receive")
      /\ UNCHANGED <<client, length, last_sequence, port, sclient, conns, calls, failed>>
    BY DEF StoreClient
<1>2. m_Clients' \subseteq Conns
    BY DEF StoreClient, PipeInv, TypeOK, Messages
<1> QED BY <1>1, <1>2, WorkerMoves

\* PortDisconnect keeps the invariant.
LEMMA StepPortDisconnect ==
    ASSUME PipeInv, NEW w \in Workers, PortDisconnect(w) PROVE PipeInv'
<1>1. Goto(w, "receive")
      /\ UNCHANGED <<client, length, last_sequence, port, sclient, conns, calls, failed>>
    BY DEF PortDisconnect
<1>2. m_Clients' \subseteq Conns
    BY DEF PortDisconnect, PipeInv, TypeOK
<1> QED BY <1>1, <1>2, WorkerMoves

\* PortFindClient keeps the invariant, whether it finds the connection or drops
\* the message.
LEMMA StepPortFindClient ==
    ASSUME PipeInv, NEW w \in Workers, PortFindClient(w) PROVE PipeInv'
<1>1. /\ worker[w].at = "received" /\ worker[w].msg.type = "REQUEST"
      /\ UNCHANGED <<client, length, last_sequence, port, sclient, conns, calls, failed>>
      /\ m_Clients' \subseteq Conns
    BY DEF PortFindClient, Got, PipeInv, TypeOK
<1>2. Goto(w, "found") \/ Goto(w, "receive")
    BY DEF PortFindClient
<1> QED BY <1>1, <1>2, WorkerMoves

\* What the message of a busy worker says of its connection.
LEMMA BusyFacts ==
    ASSUME PipeInv, NEW w \in Workers, Busy(w)
    PROVE  /\ worker[w].msg.conn \in 1 .. conns /\ worker[w].msg.conn \in Conns
           /\ worker[w].msg \in MessageType /\ Sent(worker[w].msg)
           /\ \A k \in Conns : k > conns => k # worker[w].msg.conn
<1>1. Sent(worker[w].msg) /\ Opens(worker[w].msg)
    BY DEF PipeInv, Messages, Busy
<1>2. conns \in 0 .. MaxConns /\ worker[w].msg \in MessageType
    BY DEF PipeInv, TypeOK
<1>3. worker[w].msg.conn \in 1 .. conns
    BY <1>1 DEF Sent
<1> QED BY <1>1, <1>2, <1>3 DEF Conns

\* Only a client of connection k is answered, and it stays with its call.
GoesOn(d, k) ==
    /\ client[d].conn # k => client'[d] = client[d]
    /\ client'[d].conn = client[d].conn /\ client'[d].call = client[d].call
    /\ client'[d].at \in {"wait", "answered"} => client[d].at \in {"wait", "answered"}
    /\ client'[d].at = "idle" <=> client[d].at = "idle"

\* A worker that completes a connection or answers a chunk: s is what the service
\* then has of connection k, x what a client of k becomes.
LEMMA AnswerStep ==
    ASSUME PipeInv, NEW w \in Workers, Busy(w), NEW k, k = worker[w].msg.conn,
           NEW at \in {"receive", "completed"}, Goto(w, at),
           NEW s \in SClientType, Inside(s), sclient' = [sclient EXCEPT ![k] = s],
           client' \in [Clients -> ThreadType],
           \A d \in Clients : GoesOn(d, k),
           failed \subseteq failed', failed' \subseteq failed \cup {k},
           k \notin failed' =>
              \A d \in Clients : \A x : client[d].conn = k /\ x = client'[d] => InStep(s, x),
           UNCHANGED <<length, last_sequence, port, m_Clients, conns, calls>>
    PROVE  PipeInv'
<1>1. k \in 1 .. conns /\ k \in Conns /\ \A j \in Conns : j > conns => j # k
    BY BusyFacts
<1>2. /\ sclient'[k] = s /\ sclient' \in [Conns -> SClientType]
      /\ \A j \in Conns \ {k} : sclient'[j] = sclient[j]
    BY <1>1 DEF PipeInv, TypeOK
<1>3. worker' = [worker EXCEPT ![w].at = at]
    BY DEF Goto
<1>4. TypeOK'
    <2>1. worker' \in [Workers -> [at : {"receive", "received", "completed", "found"},
                                   msg : MessageType]]
        BY <1>3 DEF PipeInv, TypeOK
    <2>2. failed' \subseteq Conns
        BY <1>1 DEF PipeInv, TypeOK
    <2> QED BY <1>2, <2>1, <2>2 DEF PipeInv, TypeOK
<1>5. Messages' /\ Unique'
    <2>1. \A d \in Clients : client'[d] = client[d] \/ client'[d].conn = k
        BY DEF GoesOn
    <2> QED BY <1>1, <1>3, <2>1, WorkerNet
<1>6. Owned'
    BY DEF PipeInv, Owned, GoesOn
<1>7. Buffers'
    BY <1>2 DEF PipeInv, Buffers, Inside
<1>8. Fresh'
    BY <1>1, <1>2 DEF PipeInv, Fresh, Quiet
<1>9. Steps'
    <2> SUFFICES ASSUME NEW d \in Clients, client'[d].conn \notin failed' \cup {0}
                 PROVE  InStep(sclient[client[d].conn], client[d])'
        BY DEF Steps
    <2>1. client[d].conn \in 0 .. conns /\ client[d].conn # 0 /\ conns \in 0 .. MaxConns
        BY DEF PipeInv, Owned, TypeOK, GoesOn
    <2>2. client[d].conn \in Conns
        BY <2>1 DEF Conns
    <2>3. CASE client[d].conn # k
        BY <1>2, <2>2, <2>3, OthersInStep DEF GoesOn
    <2>4. CASE client[d].conn = k
        <3>1. PICK x : x = client'[d]
            OBVIOUS
        <3>2. InStep(s, x)
            BY <2>4, <3>1 DEF GoesOn
        <3>3. InStep(s, x)'
            BY <3>2, InStepKept
        <3>4. s = sclient'[client'[d].conn]
            BY <1>2, <2>4 DEF GoesOn
        <3> QED BY <3>1, <3>3, <3>4, InStepOf
    <2> QED BY <2>3, <2>4
<1> QED BY <1>4, <1>5, <1>6, <1>7, <1>8, <1>9 DEF PipeInv

\* The first half of PortConnect keeps the invariant.
LEMMA StepPortConnect ==
    ASSUME PipeInv, NEW w \in Workers, PortConnect(w) PROVE PipeInv'
<1>1. PICK k : k = worker[w].msg.conn
    OBVIOUS
<1>2. Busy(w) /\ worker[w].msg.type = "CONNECT"
    BY DEF PortConnect, Got, Busy, Opens
<1>3. \A d \in Clients : client[d].conn = k => client[d].at = "connect"
    BY <1>1, <1>2, BusyFacts DEF Sent, Opens
<1>4. NewClient \in SClientType /\ Inside(NewClient) /\ Quiet(NewClient)
    <2>1. 0 \in Seqs /\ 0 \in 0 .. MaxLen /\ 0 \in 0 .. MaxCalls
        BY DEF Seqs
    <2> QED BY <2>1 DEF NewClient, SClient, SClientType, Inside, Quiet
<1>5. client \in [Clients -> ThreadType]
    BY DEF PipeInv, TypeOK
<1>6. \A d \in Clients : client'[d] = IF client[d].conn = k /\ client[d].at = "connect"
                                      THEN [client[d] EXCEPT !.at = "connected"] ELSE client[d]
    BY <1>1 DEF PortConnect
<1>7. ASSUME NEW th \in ThreadType
      PROVE  LET x == [th EXCEPT !.at = "connected"]
             IN  x \in ThreadType /\ x.at = "connected" /\ x.conn = th.conn /\ x.call = th.call
    BY DEF ThreadType
<1>8. ASSUME NEW d \in Clients
      PROVE  /\ client'[d] \in ThreadType
             /\ client[d].conn # k => client'[d] = client[d]
             /\ client[d].conn = k => client'[d].at = "connected"
             /\ client'[d].conn = client[d].conn /\ client'[d].call = client[d].call
    <2>1. client[d] \in ThreadType
        BY <1>5
    <2>2. CASE client[d].conn = k
        <3>1. client'[d] = [client[d] EXCEPT !.at = "connected"]
            BY <1>3, <1>6, <2>2
        <3> QED BY <1>7, <2>1, <2>2, <3>1
    <2>3. CASE client[d].conn # k
        BY <1>6, <2>1, <2>3
    <2> QED BY <2>2, <2>3
<1>9. ASSUME NEW d \in Clients PROVE GoesOn(d, k)
    <2>1. CASE client[d].conn = k
        BY <1>3, <1>8, <2>1 DEF GoesOn
    <2>2. CASE client[d].conn # k
        BY <1>8, <2>2 DEF GoesOn
    <2> QED BY <2>1, <2>2
<1>10. client' \in [Clients -> ThreadType]
    BY <1>5, <1>8 DEF PortConnect
<1>11. \A d \in Clients : \A x : client[d].conn = k /\ x = client'[d] => InStep(NewClient, x)
    BY <1>4, <1>8 DEF InStep
<1>12. /\ sclient' = [sclient EXCEPT ![k] = NewClient] /\ Goto(w, "completed")
       /\ UNCHANGED <<length, last_sequence, port, m_Clients, conns, calls, failed>>
    BY <1>1 DEF PortConnect
<1>13. PICK s : s = NewClient
    OBVIOUS
<1>14. /\ s \in SClientType /\ Inside(s) /\ sclient' = [sclient EXCEPT ![k] = s]
       /\ \A d \in Clients : \A x : client[d].conn = k /\ x = client'[d] => InStep(s, x)
    BY <1>4, <1>11, <1>12, <1>13
<1>15. /\ failed \subseteq failed' /\ failed' \subseteq failed \cup {k}
       /\ UNCHANGED <<length, last_sequence, port, m_Clients, conns, calls>>
    BY <1>12
<1> QED BY <1>1, <1>2, <1>9, <1>10, <1>12, <1>14, <1>15, AnswerStep

\* A worker with a request: its client waits for the answer to this chunk.
LEMMA FoundFacts ==
    ASSUME PipeInv, NEW w \in Workers, worker[w].at = "found", NEW k, k = worker[w].msg.conn
    PROVE  /\ Busy(w) /\ k \in Conns /\ worker[w].msg \in MessageType /\ worker[w].msg.call \in Calls
           /\ sclient[k] \in SClientType /\ Inside(sclient[k])
           /\ \A c \in Clients : client[c].conn = k =>
                 /\ client[c].at = "wait" /\ worker[w].msg.call = client[c].call
                 /\ worker[w].msg.part = client[c].sent
                 /\ worker[w].msg.part = 1 => worker[w].msg.seq = client[c].seq
<1>1. worker[w].msg.type = "REQUEST"
    BY DEF PipeInv, Messages
<1>2. Busy(w)
    BY <1>1 DEF Busy, Opens
<1>3. Sent(worker[w].msg) /\ k \in Conns /\ worker[w].msg \in MessageType
    BY <1>2, BusyFacts
<1>4. sclient[k] \in SClientType /\ Inside(sclient[k])
    BY <1>3 DEF PipeInv, TypeOK, Buffers
<1> QED BY <1>1, <1>2, <1>3, <1>4 DEF Sent, Opens

\* A thread whose chunk is answered.
LEMMA AnsweredFacts ==
    ASSUME NEW th \in ThreadType, NEW chunk \in ChunkType,
           NEW x, x = [th EXCEPT !.at = "answered", !.inbox = chunk]
    PROVE  x \in ThreadType /\ AnsweredBy(x, th, chunk)
BY DEF ThreadType, AnsweredBy

\* Reply: the chunk goes to the client, if there still is one.
LEMMA ReplyStep ==
    ASSUME PipeInv, NEW w \in Workers, worker[w].at = "found", NEW k, k = worker[w].msg.conn,
           NEW r \in SClientType, Inside(r), Reply(w, r),
           failed \subseteq failed', failed' \subseteq failed \cup {k},
           k \notin failed' =>
              \A c \in Clients : \A x : client[c].conn = k /\ AnsweredBy(x, client[c], ReplyChunk(r))
                                       => Calling(PortReply(r), x)
    PROVE  PipeInv'
<1>1. Busy(w) /\ k \in Conns /\ \A c \in Clients : client[c].conn = k => client[c].at = "wait"
    BY FoundFacts
<1>2. PortReply(r) \in SClientType /\ Inside(PortReply(r)) /\ ReplyChunk(r) \in ChunkType
    BY ReplyFacts
<1>3. PICK chunk : chunk = ReplyChunk(r)
    OBVIOUS
<1>4. client \in [Clients -> ThreadType]
    BY DEF PipeInv, TypeOK
<1>5. client' = [c \in Clients |-> IF client[c].conn = k /\ client[c].at = "wait"
                                   THEN [client[c] EXCEPT !.at = "answered", !.inbox = chunk]
                                   ELSE client[c]]
    BY <1>3 DEF Reply, Answer
<1>6. ASSUME NEW d \in Clients
      PROVE  /\ client'[d] \in ThreadType
             /\ client[d].conn # k => client'[d] = client[d]
             /\ client[d].conn = k => AnsweredBy(client'[d], client[d], chunk)
    <2>1. CASE client[d].conn = k
        <3>1. client'[d] = [client[d] EXCEPT !.at = "answered", !.inbox = chunk]
            BY <1>1, <1>5, <2>1
        <3>2. PICK x : x = client'[d]
            OBVIOUS
        <3>3. x \in ThreadType /\ AnsweredBy(x, client[d], chunk)
            BY <1>2, <1>3, <1>4, <3>1, <3>2, AnsweredFacts
        <3> QED BY <2>1, <3>2, <3>3
    <2>2. CASE client[d].conn # k
        <3>1. client'[d] = client[d]
            BY <1>5, <2>2
        <3> QED BY <1>4, <2>2, <3>1
    <2> QED BY <2>1, <2>2
<1>7. client' \in [Clients -> ThreadType]
    BY <1>5, <1>6
<1>8. ASSUME NEW d \in Clients PROVE GoesOn(d, k)
    <2>1. CASE client[d].conn = k
        BY <1>1, <1>6, <2>1 DEF GoesOn, AnsweredBy
    <2>2. CASE client[d].conn # k
        BY <1>6, <2>2 DEF GoesOn
    <2> QED BY <2>1, <2>2
<1>9. PICK s : s = PortReply(r)
    OBVIOUS
<1>10. ASSUME NEW d \in Clients, NEW x, k \notin failed', client[d].conn = k, x = client'[d]
       PROVE  InStep(s, x)
    <2>1. AnsweredBy(x, client[d], ReplyChunk(r))
        BY <1>3, <1>6, <1>10
    <2>2. Calling(s, x)
        BY <1>9, <1>10, <2>1
    <2> QED BY <2>1, <2>2 DEF InStep, AnsweredBy
<1>11. /\ sclient' = [sclient EXCEPT ![k] = s] /\ Goto(w, "receive")
       /\ UNCHANGED <<length, last_sequence, port, m_Clients, conns, calls>>
    BY <1>9 DEF Reply
<1>12. s \in SClientType /\ Inside(s)
    BY <1>2, <1>9
<1> QED BY <1>1, <1>7, <1>8, <1>10, <1>11, <1>12, AnswerStep

\* PortRequest and PortReply, with memory for the buffer, keep the invariant.
LEMMA StepServe ==
    ASSUME PipeInv, NEW w \in Workers, Serve(w) PROVE PipeInv'
<1>1. worker[w].at = "found" /\ failed' = failed
    BY DEF Serve
<1>2. PICK k : k = worker[w].msg.conn
    OBVIOUS
<1>3. PICK m : m = worker[w].msg
    OBVIOUS
<1>4. PICK s : s = sclient[k]
    OBVIOUS
<1>5. /\ Busy(w) /\ k \in Conns /\ m \in MessageType /\ m.call \in Calls
      /\ s \in SClientType /\ Inside(s)
      /\ \A c \in Clients : client[c].conn = k =>
            /\ client[c].at = "wait" /\ m.call = client[c].call /\ m.part = client[c].sent
            /\ m.part = 1 => m.seq = client[c].seq
    BY <1>1, <1>2, <1>3, <1>4, FoundFacts
<1>6. PICK r \in IF s.replying THEN {s} ELSE PortRequest(s, m) : Reply(w, r)
    BY <1>2, <1>3, <1>4 DEF Serve
<1>7. r \in SClientType /\ Inside(r)
    <2>1. CASE s.replying
        BY <1>5, <1>6, <2>1
    <2>2. CASE ~s.replying
        <3>1. r \in PortRequest(s, m)
            BY <1>6, <2>2
        <3>2. TypeOK
            BY DEF PipeInv
        <3> QED BY <1>5, <3>1, <3>2, RequestTyped
    <2> QED BY <2>1, <2>2
<1>8. ASSUME NEW c \in Clients, NEW x, k \notin failed', client[c].conn = k,
             AnsweredBy(x, client[c], ReplyChunk(r))
      PROVE  Calling(PortReply(r), x)
    <2>1. PICK th : th = client[c]
        OBVIOUS
    <2>2. th \in ThreadType /\ th.at = "wait" /\ TypeOK
        BY <1>5, <1>8, <2>1 DEF PipeInv, TypeOK
    <2>3. Calling(s, th)
        <3>1. k # 0
            BY <1>5 DEF Conns
        <3> QED BY <1>1, <1>4, <1>8, <2>1, <2>2, <3>1 DEF PipeInv, Steps, InStep
    <2>4. m.call = th.call /\ m.part = th.sent /\ (m.part = 1 => m.seq = th.seq)
        BY <1>5, <1>8, <2>1
    <2>5. AnsweredBy(x, th, ReplyChunk(r))
        BY <1>8, <2>1
    <2> QED BY <1>5, <1>6, <2>2, <2>3, <2>4, <2>5, ServedInStep
<1>9. failed \subseteq failed' /\ failed' \subseteq failed \cup {k}
    BY <1>1
<1> QED BY <1>1, <1>2, <1>6, <1>7, <1>8, <1>9, ReplyStep

\* A failed allocation keeps the invariant: the connection counts as failed.
LEMMA StepServeNoMemory ==
    ASSUME PipeInv, NEW w \in Workers, ServeNoMemory(w) PROVE PipeInv'
<1>1. PICK k : k = worker[w].msg.conn
    OBVIOUS
<1>2. PICK r : r = Finish(0)
    OBVIOUS
<1>3. worker[w].at = "found" /\ Reply(w, r) /\ failed' = failed \cup {k}
    BY <1>1, <1>2 DEF ServeNoMemory
<1>4. r \in SClientType /\ Inside(r)
    <2>1. 0 \in Seqs
        BY DEF Seqs
    <2> QED BY <1>2, <2>1, FinishFacts DEF Inside
<1>5. failed \subseteq failed' /\ failed' \subseteq failed \cup {k} /\ k \in failed'
    BY <1>3
<1> QED BY <1>1, <1>3, <1>4, <1>5, ReplyStep

-----------------------------------------------------------------------------
(* The theorems *)

\* The invariant holds at first.
LEMMA PipeInit == ASSUME Init PROVE PipeInv
<1>1. 0 \in Seqs /\ 0 \in 0 .. MaxLen /\ 0 \in 0 .. MaxCalls /\ 0 \in 0 .. MaxConns
    BY DEF Seqs
<1>2. NewClient \in SClientType /\ Inside(NewClient) /\ Quiet(NewClient)
    BY <1>1 DEF NewClient, SClient, SClientType, Inside, Quiet
<1>3. NoMessage \in MessageType
    BY <1>1 DEF NoMessage, Message, MessageType
<1>4. TypeOK
    BY <1>1, <1>2, <1>3, NewThreadFacts DEF Init, TypeOK
<1>5. Messages /\ Unique
    <2>1. Len(port) = 0 /\ \A w \in Workers : worker[w].at = "receive" /\ ~Busy(w)
        BY DEF Init, Busy
    <2> QED BY <2>1 DEF Messages, Unique
<1>6. Owned /\ Steps
    BY NewThreadFacts DEF Init, Owned, Steps
<1>7. Buffers /\ Fresh
    BY <1>2 DEF Init, Buffers, Fresh
<1> QED BY <1>4, <1>5, <1>6, <1>7 DEF PipeInv

\* The invariant is about the variables only.
LEMMA PipeUnchanged == ASSUME PipeInv, UNCHANGED vars PROVE PipeInv'
<1>1. /\ client' = client /\ length' = length /\ port' = port /\ worker' = worker
      /\ m_Clients' = m_Clients /\ sclient' = sclient /\ conns' = conns /\ calls' = calls
      /\ failed' = failed /\ last_sequence' = last_sequence
    BY DEF vars
<1>2. TypeOK' /\ Owned' /\ Buffers' /\ Fresh'
    BY <1>1 DEF PipeInv, TypeOK, Owned, Buffers, Inside, Fresh, Quiet
<1>3. Messages' /\ Unique'
    BY <1>1 DEF PipeInv, Messages, Unique, Sent, Opens, Busy
<1>4. Steps'
    <2> SUFFICES ASSUME NEW d \in Clients, client'[d].conn \notin failed' \cup {0}
                 PROVE  InStep(sclient[client[d].conn], client[d])'
        BY DEF Steps
    <2> QED BY <1>1, OthersInStep
<1> QED BY <1>2, <1>3, <1>4 DEF PipeInv

\* PipeInv is an invariant: every step of a client or a worker keeps it.
THEOREM PipeInvariant == Spec => []PipeInv
<1>1. Init => PipeInv
    BY PipeInit
<1>2. PipeInv /\ [Next]_vars => PipeInv'
    <2> SUFFICES ASSUME PipeInv, [Next]_vars PROVE PipeInv'
        OBVIOUS
    <2>1. CASE UNCHANGED vars
        BY <2>1, PipeUnchanged
    <2>2. ASSUME NEW c \in Clients, Call(c) PROVE PipeInv'
        BY <2>2, StepConnectPort, StepCallServer DEF Call
    <2>3. ASSUME NEW c \in Clients, Continue(c) PROVE PipeInv'
        BY <2>3, StepSendNext, StepFirstReply, StepNextReply DEF Continue
    <2>4. ASSUME NEW c \in Clients, Exit(c) PROVE PipeInv'
        BY <2>4, StepExit
    <2>5. ASSUME NEW w \in Workers, Work(w) PROVE PipeInv'
        BY <2>5, StepReceive, StepPortConnect, StepStoreClient, StepPortDisconnect,
           StepPortFindClient, StepServe, StepServeNoMemory DEF Work
    <2> QED BY <2>1, <2>2, <2>3, <2>4, <2>5 DEF Next
<1> QED BY <1>1, <1>2, PTL DEF Spec

\* PortRequest and PortReply need no lock: no two workers have a request of the
\* same connection, however many workers and clients there are.
THEOREM NoSharedSClient == Spec => []SClientNotShared
<1>1. PipeInv => SClientNotShared
    BY DEF PipeInv, SClientNotShared, Messages, Unique, Busy, Opens
<1> QED BY <1>1, PipeInvariant, PTL

\* The service has of a request what its client sent of it, and answers the call
\* that the client makes.
THEOREM RequestIsWhole == Spec => []HandlerGetsRequest
<1>1. PipeInv => HandlerGetsRequest
    <2> SUFFICES ASSUME PipeInv, NEW c \in Clients, NEW th, NEW s, th = client[c],
                        s = sclient[th.conn], Sound(c), th.at \in {"wait", "answered"}
                 PROVE  /\ s.replying => s.call = th.call
                        /\ ~s.replying /\ s.len # 0 =>
                              /\ s.len = length[th.call]
                              /\ s.req = {<<th.call, i>> : i \in 1 .. s.pos}
                              /\ s.pos = IF th.at = "wait" THEN th.sent - 1 ELSE th.sent
        BY DEF HandlerGetsRequest
    <2>1. th \in ThreadType /\ th.conn \notin failed \cup {0}
        BY DEF Sound, PipeInv, TypeOK, Conns
    <2>2. Calling(s, th) /\ th.sent \in Nat /\ th.len \in Nat /\ th.pos \in Nat
        BY <2>1 DEF PipeInv, Steps, InStep, ThreadType
    <2>3. CASE th.at = "wait"
        BY <2>2, <2>3 DEF Calling, Collects, Replies, Quiet, First
    <2>4. CASE th.at = "answered"
        <3>1. length[th.call] \in Nat
            BY <2>2 DEF Calling, PipeInv, TypeOK
        <3>2. CASE th.len # 0 \/ th.sent = length[th.call]
            BY <2>2, <2>4, <3>2 DEF Calling, Replies, Quiet
        <3>3. CASE th.len = 0 /\ th.sent < length[th.call]
            BY <2>2, <2>4, <3>3 DEF Calling, Collects, Quiet, First
        <3> QED BY <2>2, <3>1, <3>2, <3>3 DEF Calling
    <2> QED BY <2>3, <2>4
<1> QED BY <1>1, PipeInvariant, PTL

\* A call that returns has NULL or every chunk of the reply to its own request.
THEOREM ReplyIsWhole == Spec => []ReplyAnswersCall
<1>1. PipeInv => ReplyAnswersCall
    <2> SUFFICES ASSUME PipeInv, NEW c \in Clients, Sound(c), client[c].at = "idle",
                        client[c].got # {}
                 PROVE  \E len \in 1 .. MaxLen :
                           {<<x.call, x.part, x.len>> : x \in client[c].got}
                              = {<<client[c].call, i, len>> : i \in 1 .. len}
        BY DEF ReplyAnswersCall
    <2>1. client[c].conn \notin failed \cup {0}
        BY DEF Sound, PipeInv, TypeOK, Conns
    <2>2. InStep(sclient[client[c].conn], client[c])
        BY <2>1 DEF PipeInv, Steps
    <2> QED BY <2>2 DEF InStep, Has, Parts
<1> QED BY <1>1, PipeInvariant, PTL

\* Whatever the handlers return, the service has nothing of a connection between
\* two of its calls.
THEOREM StepsAgree == Spec => []InStepBetweenCalls
<1>1. PipeInv => InStepBetweenCalls
    <2> SUFFICES ASSUME PipeInv, NEW c \in Clients, Sound(c), client[c].at = "idle"
                 PROVE  Quiet(sclient[client[c].conn])
        BY DEF InStepBetweenCalls, Quiet
    <2>1. client[c].conn \notin failed \cup {0}
        BY DEF Sound, PipeInv, TypeOK, Conns
    <2> QED BY <2>1 DEF PipeInv, Steps, InStep
<1> QED BY <1>1, PipeInvariant, PTL
=============================================================================
