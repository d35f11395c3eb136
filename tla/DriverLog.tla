------------------------------ MODULE DriverLog ------------------------------
(***************************************************************************)
(* The driver's message log and its readers.                               *)
(*                                                                         *)
(* Api_AddMessage (drv/api.c) puts messages into the ring; Log_Popup_MsgEx *)
(* (drv/log.c) also wakes the service to collect them.  Two kinds of       *)
(* readers poll Api_GetMessage, each with the number of the last message   *)
(* it got: the service (svc/DriverAssistLog.cpp), which reads every        *)
(* session and grows its text buffer when a message does not fit, and the  *)
(* user interface of a session (QSbieAPI/SbieAPI.cpp), which must lead     *)
(* that session and has a buffer of fixed length.  Every driver call runs  *)
(* under Api_LockResource, so one call is one step.                        *)
(***************************************************************************)
EXTENDS LogBuffer

CONSTANTS Sessions,     \* session ids
          UiSessions,   \* the sessions in which a user interface runs
          TextLens,     \* lengths of message texts, in cells
          MaxMessages,  \* bound: messages that are logged in a behaviour
          TextBuffer,   \* cells of a reader's text buffer, and by how many
                        \* the service's grows
          MaxRestarts   \* bound: how often user interfaces come and go

ASSUME SessionsAssumption == /\ Sessions \subseteq Nat \ {0}
                             /\ UiSessions \subseteq Sessions
ASSUME TextLensAssumption == TextLens \subseteq Nat \ {0} /\ TextBuffer \in Nat
\* A number is not given out twice: there are 2^32 of them.
ASSUME MaxMessagesAssumption == MaxMessages \in Nat /\ MaxMessages < SeqMod

AllSessions == -1
Service == AllSessions
Readers == UiSessions \cup {Service}

VARIABLES
    Api_LogBuffer,
    last,      \* m_last_message_number, m->lastMessageNum: per reader
    maxlen,    \* per reader, the length of the text buffer it passes
    got,       \* what the latest call of Api_GetMessage returned, and to whom
    leads,     \* the sessions that have a user interface as leader
    woken,     \* a SVC_LOG_MESSAGE is on its way that no thread acted on yet
    collecting,\* the service is in the loop of DriverAssist::LogMessage
    restarts

vars == <<Api_LogBuffer, last, maxlen, got, leads, woken, collecting, restarts>>

\* [session_id][process_id][error_code][strings]; the log number of a message
\* stands for its process id, error code and text.
Body(session, n, len) ==
    Field(session) \o Field(n) \o Field(n) \o [k \in 1 .. len |-> <<n, k>>]
BodyHeader == 3 * FieldLen

\* Api_AddMessage
AddMessage(lb, session, len) ==
    LET pushed == push_entry(lb, BodyHeader + len, TRUE)
    IN  IF pushed.ptr = NULL THEN pushed.lb
        ELSE push_bytes(pushed.lb, pushed.ptr,
                        Body(session, pushed.lb.seq_counter, len))

Memcpy_Restart(lb, p, n) ==   \* mutant: a text that wraps is read from the start
    [i \in 1 .. n |-> IF p + n <= BufferSize THEN lb.buffer_data[p + i - 1]
                                             ELSE lb.buffer_data[i - 1]]

\* memcpy in Api_GetMessage: n consecutive cells from p, wherever the ring
\* ends; what lies behind the ring is not known.
Memcpy(lb, p, n) ==
    [i \in 1 .. n |-> IF p + i - 1 < BufferSize THEN lb.buffer_data[p + i - 1]
                                                ELSE Uninit]

NoText == << >>

\* Api_GetMessage: the loop takes entry after entry until one is of the wanted
\* session.  msg_num is the caller's variable after the call.
GetMessage(lb, session, num, max) ==
    LET Visit(seq) ==
            LET p    == get_next(lb, seq)
                size == get_field(lb, p)
                dp   == After(p, 2 * FieldLen)
                text == After(dp, BodyHeader)
                len  == size - BodyHeader
            IN  IF p = NULL THEN [found |-> FALSE, skip |-> FALSE]
                ELSE [found |-> TRUE,
                      seq   |-> get_field(lb, After(p, FieldLen)),
                      skip  |-> /\ session # AllSessions
                                /\ get_field(lb, dp) # session,
                      code  |-> get_field(lb, dp + 2 * FieldLen),
                      fits  |-> len <= max,
                      text  |-> IF len <= max THEN Memcpy(lb, text, len)
                                              ELSE NoText]
        scan[seq \in 0 .. SeqMod - 1] ==
            LET v == Visit(seq) IN IF v.skip THEN scan[v.seq] ELSE v
        v == scan[num]
    IN  IF ~v.found
        THEN [status |-> "NO_MORE_ENTRIES", msg_num |-> num,
              code |-> 0, text |-> NoText]
        ELSE [status |-> IF v.fits THEN "SUCCESS" ELSE "BUFFER_TOO_SMALL",
              msg_num |-> v.seq, code |-> v.code, text |-> v.text]

Denied(num) == [status |-> "ACCESS_DENIED", msg_num |-> num,
                code |-> 0, text |-> NoText]
NoCall == [caller |-> Service, res |-> Denied(0)]

-----------------------------------------------------------------------------
Init ==
    /\ Api_LogBuffer = log_buffer_init
    /\ last = [r \in Readers |-> 0]
    /\ maxlen = [r \in Readers |-> TextBuffer]
    /\ got = NoCall
    /\ leads = {}
    /\ woken = FALSE
    /\ collecting = FALSE
    /\ restarts = 0

\* Log_Popup_MsgEx: add the message, then have the service collect it.
Log_Popup_MsgEx(session, len) ==
    /\ Api_LogBuffer.seq_counter < MaxMessages
    /\ Api_LogBuffer' = AddMessage(Api_LogBuffer, session, len)
    /\ woken' = TRUE
    /\ UNCHANGED <<last, maxlen, got, leads, collecting, restarts>>

\* The process-start notification (MSG_1399) is only added: the user
\* interface polls for it.
LogProcessStart(session, len) ==
    /\ Api_LogBuffer.seq_counter < MaxMessages
    /\ Api_LogBuffer' = AddMessage(Api_LogBuffer, session, len)
    /\ UNCHANGED <<last, maxlen, got, leads, woken, collecting, restarts>>

\* A thread of the service takes a SVC_LOG_MESSAGE and enters LogMessage,
\* under m_LogMessage_CritSec.
ServiceWakes ==
    /\ woken /\ ~collecting
    /\ woken' = FALSE
    /\ collecting' = TRUE
    /\ maxlen' = [maxlen EXCEPT ![Service] = TextBuffer]
    /\ UNCHANGED <<Api_LogBuffer, last, got, leads, restarts>>

\* One turn of the loop in DriverAssist::LogMessage.
ServiceCollects_GivesUp ==          \* mutant: a long message ends the loop
    /\ collecting
    /\ \E res \in {GetMessage(Api_LogBuffer, AllSessions, last[Service],
                              maxlen[Service])} :
           /\ got' = [caller |-> Service, res |-> res]
           /\ \/ /\ res.status = "BUFFER_TOO_SMALL"
                 /\ collecting' = FALSE
                 /\ UNCHANGED <<last, maxlen>>
              \/ /\ res.status = "NO_MORE_ENTRIES"
                 /\ collecting' = FALSE
                 /\ UNCHANGED <<last, maxlen>>
              \/ /\ res.status = "SUCCESS"
                 /\ last' = [last EXCEPT ![Service] = res.msg_num]
                 /\ UNCHANGED <<maxlen, collecting>>
    /\ UNCHANGED <<Api_LogBuffer, leads, woken, restarts>>
ServiceCollects ==
    /\ collecting
    /\ \E res \in {GetMessage(Api_LogBuffer, AllSessions, last[Service],
                              maxlen[Service])} :
           /\ got' = [caller |-> Service, res |-> res]
           /\ \/ /\ res.status = "BUFFER_TOO_SMALL"
                 /\ maxlen' = [maxlen EXCEPT ![Service] = @ + TextBuffer]
                 /\ UNCHANGED <<last, collecting>>
              \/ /\ res.status = "NO_MORE_ENTRIES"
                 /\ collecting' = FALSE
                 /\ UNCHANGED <<last, maxlen>>
              \/ /\ res.status = "SUCCESS"
                 /\ last' = [last EXCEPT ![Service] = res.msg_num]
                 /\ UNCHANGED <<maxlen, collecting>>
    /\ UNCHANGED <<Api_LogBuffer, leads, woken, restarts>>

\* CSbieAPI::GetLog, called from the polling thread of the user interface.
\* Only the leader of the session may ask for its messages.
GetLog(s) ==
    /\ \E res \in {IF s \in leads
                  THEN GetMessage(Api_LogBuffer, s, last[s], maxlen[s])
                  ELSE Denied(last[s])} :
           /\ got' = [caller |-> s, res |-> res]
           /\ last' = [last EXCEPT ![s] = IF res.status = "SUCCESS"
                                          THEN res.msg_num ELSE @]
    /\ UNCHANGED <<Api_LogBuffer, maxlen, leads, woken, collecting, restarts>>

\* CSbieAPI::Connect starts over from number 0 and takes the session over
\* (Session_Api_Leader); Session_Cancel ends this when the process is gone.
Connect(s) ==
    /\ restarts < MaxRestarts
    /\ restarts' = restarts + 1
    /\ leads' = leads \cup {s}
    /\ last' = [last EXCEPT ![s] = 0]
    /\ UNCHANGED <<Api_LogBuffer, maxlen, got, woken, collecting>>

LeaderExits(s) ==
    /\ s \in leads
    /\ leads' = leads \ {s}
    /\ UNCHANGED <<Api_LogBuffer, last, maxlen, got, woken, collecting, restarts>>

Next ==
    \/ \E s \in Sessions, len \in TextLens :
          Log_Popup_MsgEx(s, len) \/ LogProcessStart(s, len)
    \/ ServiceWakes \/ ServiceCollects
    \/ \E s \in UiSessions : GetLog(s) \/ Connect(s) \/ LeaderExits(s)

\* The thread that entered LogMessage keeps running.  A turn of its loop is
\* possible whenever collecting, so the second conjunct is weak fairness of
\* ServiceCollects with its enabling condition written out.
Fairness == /\ WF_vars(ServiceWakes)
            /\ []<>~collecting \/ []<><<ServiceCollects>>_vars
Spec == Init /\ [][Next]_vars /\ Fairness

-----------------------------------------------------------------------------
Retained == Entries(Api_LogBuffer)

\* The retained messages that reader r has not seen yet, by their place.
IsFor(e, r) == r = Service \/ Value(SubSeq(e.data, 1, FieldLen)) = r
Pending(r) == {i \in DOMAIN Retained : /\ Retained[i].seq > last[r]
                                      /\ IsFor(Retained[i], r)}

\* The ring's bookkeeping has its type: the fields lie inside the buffer and a
\* reader's number is one that was given out.
TypeOK ==
    /\ Api_LogBuffer.seq_counter \in 0 .. SeqMod - 1
    /\ Api_LogBuffer.buffer_used \in 0 .. BufferSize
    /\ Api_LogBuffer.buffer_start \in 0 .. BufferSize - 1
    /\ \A r \in Readers : last[r] \in 0 .. Api_LogBuffer.seq_counter
    /\ leads \subseteq UiSessions
    /\ woken \in BOOLEAN /\ collecting \in BOOLEAN

\* Whatever wraps where, the ring of log_buff.c is a first-in first-out queue
\* that drops its oldest entries, and no more of them than a new one needs.
BL == INSTANCE BoundedLog WITH Capacity <- BufferSize, Header <- TotalSize(0),
                               Modulus <- SeqMod, CanPop <- TRUE,
                               entries <- Retained,
                               counter <- Api_LogBuffer.seq_counter
RingIsBoundedLog == BL!Spec

\* Api_GetMessage hands a reader the oldest message of its session that the
\* ring still holds and the reader has not seen, even when the messages it
\* saw last have been pushed out or lie among those of other sessions; it
\* says that there are no more only when there are none.
ReaderGetsOldestPending ==
    [][got' # got =>
          LET unseen == Pending(got'.caller)
              res    == got'.res
          IN  /\ res.status \in {"SUCCESS", "BUFFER_TOO_SMALL"} =>
                    /\ unseen # {}
                    /\ res.msg_num = Retained[Min(unseen)].seq
                    /\ res.code = res.msg_num
              /\ res.status = "NO_MORE_ENTRIES" => unseen = {}]_vars

\* The service eventually gets past every message that was logged when it was
\* woken, whatever the length of the messages before it: it collected the
\* message, or the message had been pushed out.
ServiceCollectsAll ==
    \A n \in 1 .. MaxMessages :
        (woken /\ Api_LogBuffer.seq_counter >= n) ~> (last[Service] >= n)

\* "we return all strings in one" (drv/api.c): the text a reader receives is
\* that of the message whose code it receives, in its order, through wraps and
\* messages that push others out.  Where the text wraps, what lies behind the
\* ring takes the place of its rest.  The variables have their types.
NoForeignText ==
    /\ TypeOK
    /\ got.res.status = "SUCCESS" =>
          \A k \in DOMAIN got.res.text :
              got.res.text[k] \in {<<got.res.code, k>>, Uninit}
=============================================================================
