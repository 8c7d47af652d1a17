--------------------------- MODULE XpcConnection ---------------------------
(***************************************************************************)
(* One connection of shims/xpc_shim.c shared by the threads of a process:  *)
(* send_message, receive_message, send_message_with_reply_sync, the reader *)
(* thread that resume starts, cancel and release.                          *)
(*                                                                         *)
(* c->lock is held across the blocking write of a frame, read_lock across  *)
(* the blocking read of one; both are variables.  Any other section under  *)
(* c->lock is one step, taken when the lock is free; a call that finds it  *)
(* taken waits at "enter".  The socket delivers parts                      *)
(* of frames: a header and, if the message has entries, a payload, so that *)
(* a deadline or a second reader can strike in the middle of a frame.      *)
(* The peer process is external: it answers what it was sent, in any       *)
(* order, sends messages of its own, may stop reading, and may hang up.    *)
(***************************************************************************)
EXTENDS Naturals, Sequences, FiniteSets

CONSTANTS
  Threads,         \* threads of the process
  Consumers,       \* those that receive or wait for replies
  Reader,          \* the thread resume() creates
  None,            \* nobody, no message
  MaxSends,        \* bound on the messages sent
  MaxEvents,       \* bound on the messages the peer sends by itself
  Large,           \* messages that have entries, and so a payload
  HandlerCancels,  \* the event handler may cancel the connection
  MemoryFails      \* malloc() may fail

ASSUME ConnectionAssumption ==
  /\ Consumers \subseteq Threads
  /\ Reader \notin Threads /\ None \notin Threads \cup {Reader}
  /\ MaxSends \in Nat /\ MaxEvents \in Nat
  /\ HandlerCancels \in BOOLEAN /\ MemoryFails \in BOOLEAN

VARIABLES
  conn,        \* flags and descriptor of struct catbsd_xpc_connection
  queue,       \* q_head .. q_tail
  lock,        \* the thread that holds c->lock while it writes
  read_lock,   \* the thread that holds c->read_lock
  th,          \* where each thread is
  stream,      \* what the kernel holds for recv()
  peer,        \* the other process
  due,         \* history: messages read off the wire and owed to the process
  handed       \* history: the last message given to a caller or the handler

vars == <<conn, queue, lock, read_lock, th, stream, peer, due, handed>>

All == Threads \cup {Reader}

(* Both sides count their messages from 1: ids alone do not tell a reply    *)
(* from a message the peer sent by itself.                                  *)
Msgs == [is_reply : {TRUE}, msg_id : 1..MaxSends]
          \cup [is_reply : {FALSE}, msg_id : 1..MaxEvents]
NoMsg == [is_reply |-> FALSE, msg_id |-> 0]

(* A message that came out of somebody else's socket.                       *)
Foreign == [is_reply |-> FALSE, msg_id |-> MaxEvents + 1]
Objects == Msgs \cup {Foreign}

(* A part of a frame: the first, the last, or both.                         *)
Parts == [msg : Msgs, first : BOOLEAN, last : BOOLEAN]

Conns == [fd : {"open", "shut", "closed"}, cancelled : BOOLEAN,
          resumed : BOOLEAN, handler : BOOLEAN, freed : BOOLEAN,
          next_id : 1..(MaxSends + 1)]

(* fd: the descriptor frame_read was given, the socket or -1; polled:       *)
(* poll() has promised it something to read.                                *)
ThreadStates ==
  [at : {"idle", "enter", "write", "err", "take", "lock", "pop", "header",
         "payload", "push", "got", "shutdown", "join", "close", "free",
         "handler", "done"},
   call : {"none", "send", "sync", "receive", "cancel", "release"},
   id : 0..MaxSends, forever : BOOLEAN, fd : {"socket", "none"},
   polled : BOOLEAN, msg : Objects \cup {NoMsg}]

Peers == [up : BOOLEAN, owes : SUBSET (1..MaxSends), events : 0..MaxEvents,
          rest : Seq(Parts)]

Idle == [at |-> "idle", call |-> "none", id |-> 0, forever |-> TRUE,
         fd |-> "socket", polled |-> FALSE, msg |-> NoMsg]

(* The peer once it has hung up, or has been hung up on.                    *)
Gone == [peer EXCEPT !.up = FALSE, !.owes = {}, !.rest = <<>>]

TypeOK ==
  /\ conn \in Conns
  /\ queue \in Seq(Objects)
  /\ lock \in All \cup {None} /\ read_lock \in Threads \cup {None}
  /\ th \in [All -> ThreadStates]
  /\ stream \in Seq(Parts)
  /\ peer \in Peers
  /\ due \subseteq Objects /\ handed \in Objects \cup {NoMsg}

(* conn_alloc, for a connection that was made or accepted.                  *)
Init ==
  /\ conn = [fd |-> "open", cancelled |-> FALSE, resumed |-> FALSE,
             handler |-> FALSE, freed |-> FALSE, next_id |-> 1]
  /\ queue = <<>>
  /\ lock = None /\ read_lock = None
  /\ th = [t \in All |-> Idle]
  /\ stream = <<>>
  /\ peer = [up |-> TRUE, owes |-> {}, events |-> 0, rest |-> <<>>]
  /\ due = {} /\ handed = NoMsg

CanCall(t) == t \in Threads /\ th[t].at = "idle" /\ ~conn.freed

(* A thread may send from outside and from the event handler.               *)
CanSend(t) == CanCall(t) \/ (t = Reader /\ th[t].at = "handler")

Goto(t, l) == th' = [th EXCEPT ![t].at = l]

Returns(t) == th' = [th EXCEPT ![t] = Idle]

(* m is given to a caller or to the event handler.                          *)
Hands(m) == handed' = m /\ due' = due \ {m}

(* A call that starts by locking c->lock: t has the lock, having found it   *)
(* free or having waited for it; or t has to wait.                          *)
Enters(t, call, forever) ==
  /\ lock = None
  /\ \/ CanCall(t)
     \/ th[t].at = "enter" /\ th[t].call = call /\ th[t].forever = forever

Waits(t, call, forever) ==
  /\ lock # None
  /\ th' = [th EXCEPT ![t].at = "enter", ![t].call = call, ![t].forever = forever]
  /\ UNCHANGED <<conn, queue, lock, read_lock, stream, peer, due, handed>>

-----------------------------------------------------------------------------
(* Sending.                                                                 *)

(* What follows a send: the synchronous call waits for its reply or reports *)
(* the error, which takes the lock once more; send_message returns, to the  *)
(* event handler if that called it.                                         *)
AfterSend(t, call, ok) ==
  CASE call = "sync" -> IF ok THEN "take" ELSE "err"
    [] call # "sync" /\ t = Reader -> "handler"
    [] OTHER -> "idle"

(* The id is taken first, then send_locked builds the frame and writes it,  *)
(* all of it under c->lock.  The id is spent also if there is no memory for *)
(* the frame.                                                               *)
send_locked(t, call, forever) ==
  /\ conn.next_id <= MaxSends
  /\ conn' = [conn EXCEPT !.next_id = @ + 1]
  /\ \/ /\ lock' = t
        /\ th' = [th EXCEPT ![t].at = "write", ![t].call = call,
                            ![t].forever = forever, ![t].id = conn.next_id]
     \/ /\ MemoryFails
        /\ th' = [th EXCEPT ![t].at = AfterSend(t, call, FALSE),
                            ![t].call = IF call = "sync" THEN call ELSE "none",
                            ![t].forever = forever]
        /\ UNCHANGED lock

(* io_write_full returns when all is written or the peer is gone.  Until    *)
(* then it waits in send(), without a deadline, and keeps c->lock; the peer *)
(* alone decides for how long.                                              *)
io_write_full(t) ==
  /\ th[t].at = "write"
  /\ lock' = None
  /\ peer' = [peer EXCEPT !.owes = IF peer.up THEN @ \cup {th[t].id} ELSE @]
  /\ LET sync == th[t].call = "sync"
     IN th' = [th EXCEPT ![t].at = AfterSend(t, th[t].call, peer.up),
                         ![t].call = IF sync THEN @ ELSE "none",
                         ![t].id = IF sync THEN @ ELSE 0]
  /\ UNCHANGED <<conn, queue, read_lock, stream, due, handed>>

(* set_err locks c->lock once more before the call returns.                 *)
Failed(t) == IF lock = None THEN Idle ELSE [th[t] EXCEPT !.at = "err", !.msg = NoMsg]

set_err(t) ==
  /\ th[t].at = "err" /\ lock = None
  /\ Returns(t)
  /\ UNCHANGED <<conn, queue, lock, read_lock, stream, peer, due, handed>>

catbsd_xpc_connection_send_message(t) ==
  /\ CanSend(t) /\ lock = None /\ ~conn.cancelled
  /\ send_locked(t, "send", TRUE)
  /\ UNCHANGED <<queue, read_lock, stream, peer, due, handed>>

(* The first half of the synchronous call: check and send.  The clock       *)
(* starts after that.                                                       *)
SendSync(t, forever) ==
  /\ Enters(t, "sync", forever)
  /\ IF conn.cancelled \/ conn.resumed
       THEN Returns(t) /\ UNCHANGED <<conn, lock>>
       ELSE send_locked(t, "sync", forever)
  /\ UNCHANGED <<queue, read_lock, stream, peer, due, handed>>

-----------------------------------------------------------------------------
(* Reading one frame.                                                       *)

Descriptor == IF conn.fd = "closed" THEN "none" ELSE "socket"

EnterRead(t) == th' = [th EXCEPT ![t].at = "header", ![t].fd = Descriptor,
                                 ![t].polled = FALSE, ![t].msg = NoMsg]

(* Mutant: read_lock is not given back.                                     *)
MutantUnlock(t) == UNCHANGED read_lock

Unlock(t) == read_lock' = IF read_lock = t THEN None ELSE read_lock

(* frame_read fails: the caller returns through set_err, for which it may   *)
(* have to wait; the reader thread goes on without a message.               *)
ReadFails(t) ==
  /\ Unlock(t)
  /\ th' = IF t = Reader
             THEN [th EXCEPT ![t].at = "got", ![t].msg = NoMsg]
             ELSE [th EXCEPT ![t] = Failed(t)]
  /\ UNCHANGED <<conn, queue, lock, peer, due, handed>>

(* Mutant: any message with the id passes for the reply.                    *)
MutantIsReplyTo(m, id) == m.msg_id = id

IsReplyTo(m, id) == m.is_reply /\ m.msg_id = id

(* frame_read succeeds with m: the synchronous caller looks whether it is   *)
(* its reply, receive_message returns it, the reader thread has it.         *)
ReadSucceeds(t, m) ==
  /\ Unlock(t)
  /\ IF t = Reader \/ (th[t].call = "sync" /\ ~IsReplyTo(m, th[t].id))
       THEN /\ th' = [th EXCEPT ![t].at = IF t = Reader THEN "got" ELSE "push",
                               ![t].msg = m]
            /\ due' = due \cup {m} /\ UNCHANGED handed
       ELSE Returns(t) /\ Hands(m)
  /\ UNCHANGED <<conn, queue, lock, peer>>

Reading(t) == th[t].at \in {"header", "payload"}

(* Mutant: once the header is there, the payload is waited for without end. *)
MutantReadTimeout(t) ==
  /\ th[t].at = "header" /\ ~th[t].forever /\ ~th[t].polled
  /\ ReadFails(t)
  /\ UNCHANGED stream

(* The deadline is looked at before the socket, so it may also strike when  *)
(* there is something to read.  Nothing wakes a read of descriptor -1       *)
(* before that.                                                             *)
ReadTimeout(t) ==
  /\ Reading(t) /\ ~th[t].forever /\ ~th[t].polled
  /\ ReadFails(t)
  /\ UNCHANGED stream

(* End of the stream after cancel or the peer's hang-up.                    *)
ReadClosed(t) ==
  /\ Reading(t) /\ th[t].fd = "socket"
  /\ conn.fd = "shut" \/ (conn.fd = "open" /\ ~peer.up /\ stream = <<>>)
  /\ ReadFails(t)
  /\ UNCHANGED stream

(* cancel has closed the descriptor under a call that is reading.           *)
Overtaken(t) == Reading(t) /\ th[t].fd = "socket" /\ conn.fd = "closed"

(* Its number may belong to something else by now: the read fails, or gives *)
(* a message of another connection, or waits for one.                       *)
ReadRecycled(t) ==
  /\ Overtaken(t) /\ t # Reader
  /\ \/ ReadFails(t)
     \/ /\ Unlock(t)
        /\ \/ Returns(t)
           \/ /\ th[t].call = "sync"
              /\ th' = [th EXCEPT ![t].at = "push", ![t].msg = Foreign]
        /\ UNCHANGED <<conn, queue, lock, peer, due, handed>>
  /\ UNCHANGED stream

CanRecv(t) == th[t].fd = "socket" /\ conn.fd # "closed" /\ stream # <<>>

(* poll() finds something to read.  If another thread reads the same socket *)
(* recv() may find it gone, and waits without a deadline; for a reader by   *)
(* itself poll() and recv() are one step.                                   *)
Poll(t) ==
  /\ Reading(t) /\ ~th[t].forever /\ ~th[t].polled /\ CanRecv(t)
  /\ \E u \in All \ {t} : Reading(u) /\ th[u].fd = "socket"
  /\ th' = [th EXCEPT ![t].polled = TRUE]
  /\ UNCHANGED <<conn, queue, lock, read_lock, stream, peer, due, handed>>

(* A header is read where a payload was left behind.  A long payload leaves *)
(* more of itself, a short one costs the next frame its beginning.          *)
AfterGarbage ==
  {stream, Tail(stream)} \cup
    {[Tail(stream) EXCEPT ![i].first = FALSE] : i \in {1} \cap DOMAIN Tail(stream)}

ReadHeader(t) ==
  /\ th[t].at = "header" /\ CanRecv(t)
  /\ LET p == Head(stream) IN
     \/ /\ p.first /\ p.last
        /\ stream' = Tail(stream)
        /\ ReadSucceeds(t, p.msg)
     \/ /\ p.first /\ ~p.last
        /\ stream' = Tail(stream)
        /\ th' = [th EXCEPT ![t].at = "payload", ![t].fd = Descriptor,
                            ![t].polled = FALSE, ![t].msg = p.msg]
        /\ UNCHANGED <<conn, queue, lock, read_lock, peer, due, handed>>
     \/ /\ p.first /\ MemoryFails               \* no buffer for the payload
        /\ stream' = Tail(stream)
        /\ ReadFails(t)
     \/ /\ ~p.first                             \* no magic: EPROTO
        /\ stream' \in AfterGarbage
        /\ ReadFails(t)

(* What another reader has taken is missing: EPROTO.                        *)
ReadPayload(t) ==
  /\ th[t].at = "payload" /\ CanRecv(t)
  /\ LET whole == Head(stream) = [msg |-> th[t].msg, first |-> FALSE, last |-> TRUE]
     IN \/ whole /\ stream' = Tail(stream) /\ ReadSucceeds(t, th[t].msg)
        \/ whole /\ MemoryFails /\ stream' = Tail(stream) /\ ReadFails(t)
        \/ ~whole /\ stream' \in AfterGarbage /\ ReadFails(t)

frame_read(t) ==
  ReadTimeout(t) \/ ReadClosed(t) \/ Poll(t) \/ ReadHeader(t) \/ ReadPayload(t)

-----------------------------------------------------------------------------
(* The second half of send_message_with_reply_sync, from the top of its     *)
(* loop.                                                                    *)

WithoutAt(s, i) == SubSeq(s, 1, i - 1) \o SubSeq(s, i + 1, Len(s))

(* queue_take_reply_locked: the first queued reply with the id.             *)
TakeReply(t) ==
  /\ th[t].at = "take" /\ lock = None
  /\ LET mine == {i \in 1..Len(queue) : IsReplyTo(queue[i], th[t].id)} IN
     \/ /\ mine = {}
        /\ Goto(t, "lock")
        /\ UNCHANGED <<queue, due, handed>>
     \/ \E i \in mine :
          /\ \A k \in mine : i <= k
          /\ queue' = WithoutAt(queue, i)
          /\ Hands(queue[i])
          /\ Returns(t)
  /\ UNCHANGED <<conn, lock, read_lock, stream, peer>>

(* Mutant: traffic that is not the reply is dropped.                        *)
MutantPush(t) ==
  /\ th[t].at = "push" /\ lock = None
  /\ th' = [th EXCEPT ![t].at = "take", ![t].msg = NoMsg]
  /\ UNCHANGED <<queue, conn, lock, read_lock, stream, peer, due, handed>>

(* queue_push_locked; without memory the message is dropped.                *)
queue_push(t) ==
  /\ th[t].at = "push" /\ lock = None
  /\ \/ queue' = Append(queue, th[t].msg) /\ UNCHANGED due
     \/ /\ MemoryFails
        /\ due' = due \ {th[t].msg}
        /\ UNCHANGED queue
  /\ th' = [th EXCEPT ![t].at = "take", ![t].msg = NoMsg]
  /\ UNCHANGED <<conn, lock, read_lock, stream, peer, handed>>

(* pthread_mutex_lock(&c->read_lock).  The synchronous caller goes straight *)
(* to the socket, receive_message looks at the queue once more.             *)
LockRead(t) ==
  /\ th[t].at = "lock" /\ read_lock = None
  /\ read_lock' = t
  /\ IF th[t].call = "sync" THEN EnterRead(t) ELSE Goto(t, "pop")
  /\ UNCHANGED <<conn, queue, lock, stream, peer, due, handed>>

-----------------------------------------------------------------------------
(* receive_message                                                          *)

(* queue_pop_locked hands t the oldest message.                             *)
Pop(t) ==
  /\ queue # <<>>
  /\ queue' = Tail(queue)
  /\ Hands(Head(queue))
  /\ Returns(t)

catbsd_xpc_connection_receive_message(t, forever) ==
  /\ Enters(t, "receive", forever)
  /\ \/ conn.resumed /\ Returns(t) /\ UNCHANGED <<queue, due, handed>>
     \/ ~conn.resumed /\ Pop(t)
     \/ /\ ~conn.resumed /\ queue = <<>>
        /\ th' = [th EXCEPT ![t].at = "lock", ![t].call = "receive",
                            ![t].forever = forever]
        /\ UNCHANGED <<queue, due, handed>>
  /\ UNCHANGED <<conn, lock, read_lock, stream, peer>>

PopAgain(t) ==
  /\ th[t].at = "pop" /\ lock = None
  /\ \/ Pop(t) /\ Unlock(t)
     \/ queue = <<>> /\ EnterRead(t) /\ UNCHANGED <<queue, due, handed, read_lock>>
  /\ UNCHANGED <<conn, lock, stream, peer>>

-----------------------------------------------------------------------------
(* Asynchronous delivery.                                                   *)

catbsd_xpc_connection_set_event_handler(t) ==
  /\ CanCall(t) /\ lock = None /\ ~conn.resumed
  /\ conn' = [conn EXCEPT !.handler = TRUE]
  /\ UNCHANGED <<queue, lock, read_lock, th, stream, peer, due, handed>>

catbsd_xpc_connection_resume(t) ==
  /\ CanCall(t) /\ lock = None /\ ~conn.resumed /\ ~conn.cancelled
  /\ conn' = [conn EXCEPT !.resumed = TRUE]
  /\ EnterRead(Reader)
  /\ UNCHANGED <<queue, lock, read_lock, stream, peer, due, handed>>

(* The reader thread looks at cancelled under c->lock.  It calls the        *)
(* handler with the message or, without a handler, drops it; it tells the   *)
(* handler of the end, with no message, unless the connection was           *)
(* cancelled.                                                               *)
ReaderGot ==
  /\ th[Reader].at = "got" /\ lock = None
  /\ LET m == th[Reader].msg IN
     \/ /\ m # NoMsg
        /\ Hands(m)
        /\ IF conn.handler THEN Goto(Reader, "handler") ELSE EnterRead(Reader)
     \/ /\ m = NoMsg
        /\ Goto(Reader, IF ~conn.cancelled /\ conn.handler THEN "handler" ELSE "done")
        /\ UNCHANGED <<due, handed>>
  /\ UNCHANGED <<conn, queue, lock, read_lock, stream, peer>>

(* The handler returns; after it was told of the end the thread ends.       *)
HandlerReturns ==
  /\ th[Reader].at = "handler"
  /\ IF th[Reader].msg = NoMsg THEN Goto(Reader, "done") ELSE EnterRead(Reader)
  /\ UNCHANGED <<conn, queue, lock, read_lock, stream, peer, due, handed>>

-----------------------------------------------------------------------------
(* cancel and release.                                                      *)

(* What cancel returns to: the caller, the event handler, or release.       *)
CancelReturns(t, call) ==
  CASE call = "release" -> th' = [th EXCEPT ![t].at = "free", ![t].call = call]
    [] call # "release" /\ t = Reader ->
         th' = [th EXCEPT ![t].at = "handler", ![t].call = "none"]
    [] OTHER -> Returns(t)

CanCancel(t) == CanCall(t) \/ (HandlerCancels /\ t = Reader /\ th[t].at = "handler")

(* Sets the flag; a second call returns at once.                            *)
catbsd_xpc_connection_cancel(t, call) ==
  /\ lock = None
  /\ CanCancel(t) \/ (th[t].at = "enter" /\ th[t].call = call)
  /\ IF conn.cancelled
       THEN CancelReturns(t, call) /\ UNCHANGED conn
       ELSE /\ conn' = [conn EXCEPT !.cancelled = TRUE, !.resumed = FALSE]
            /\ th' = [th EXCEPT ![t].at = "shutdown", ![t].call = call]
  /\ UNCHANGED <<queue, lock, read_lock, stream, peer, due, handed>>

(* Mutant: the socket is not shut down before the reader is waited for.     *)
MutantShutdown(t) ==
  /\ th[t].at = "shutdown"
  /\ Goto(t, IF th[Reader].at = "idle" THEN "close" ELSE "join")
  /\ UNCHANGED <<conn, queue, lock, read_lock, stream, peer, due, handed>>

(* Neither side can send any more.  There is a thread to join if the        *)
(* connection was resumed.                                                  *)
Shutdown(t) ==
  /\ th[t].at = "shutdown"
  /\ conn' = [conn EXCEPT !.fd = "shut"]
  /\ peer' = Gone
  /\ Goto(t, IF th[Reader].at = "idle" THEN "close" ELSE "join")
  /\ UNCHANGED <<queue, lock, read_lock, stream, due, handed>>

(* pthread_join; a thread that joins itself gets EDEADLK and goes on.       *)
Join(t) ==
  /\ th[t].at = "join"
  /\ th[Reader].at = "done" \/ t = Reader
  /\ Goto(t, "close")
  /\ UNCHANGED <<conn, queue, lock, read_lock, stream, peer, due, handed>>

Close(t) ==
  /\ th[t].at = "close"
  /\ conn' = [conn EXCEPT !.fd = "closed"]
  /\ stream' = <<>>
  /\ CancelReturns(t, th[t].call)
  /\ UNCHANGED <<queue, lock, read_lock, peer, due, handed>>

(* The rest of release: what is queued goes with the connection.            *)
Free(t) ==
  /\ th[t].at = "free" /\ lock = None
  /\ conn' = [conn EXCEPT !.freed = TRUE]
  /\ queue' = <<>>
  /\ Returns(t)
  /\ UNCHANGED <<lock, read_lock, stream, peer, due, handed>>

-----------------------------------------------------------------------------
(* The peer.                                                                *)

(* A message without entries is a header; otherwise the payload follows,    *)
(* perhaps much later.                                                      *)
Frame(m) ==
  IF m \in Large THEN <<[msg |-> m, first |-> TRUE, last |-> FALSE],
                       [msg |-> m, first |-> FALSE, last |-> TRUE]>>
                 ELSE <<[msg |-> m, first |-> TRUE, last |-> TRUE]>>

Arrives(part) == stream' = Append(stream, part)

(* The peer writes m; rest is what it is still holding back.                *)
Writes(m) ==
  /\ peer.up /\ peer.rest = <<>>
  /\ Arrives(Head(Frame(m)))
  /\ peer' = [peer EXCEPT !.rest = Tail(Frame(m)),
                          !.owes = IF m.is_reply THEN @ \ {m.msg_id} ELSE @,
                          !.events = IF m.is_reply THEN @ ELSE @ + 1]
  /\ UNCHANGED <<conn, queue, lock, read_lock, th, due, handed>>

PeerReplies == \E id \in peer.owes : Writes([is_reply |-> TRUE, msg_id |-> id])

PeerSends ==
  /\ peer.events < MaxEvents
  /\ Writes([is_reply |-> FALSE, msg_id |-> peer.events + 1])

PeerGoesOn ==
  /\ peer.rest # <<>>
  /\ Arrives(Head(peer.rest))
  /\ peer' = [peer EXCEPT !.rest = Tail(@)]
  /\ UNCHANGED <<conn, queue, lock, read_lock, th, due, handed>>

PeerHangsUp ==
  /\ peer.up
  /\ peer' = Gone
  /\ UNCHANGED <<conn, queue, lock, read_lock, th, stream, due, handed>>

-----------------------------------------------------------------------------
(* A call that has waited for c->lock goes on.                              *)
EnterStep(t) ==
  /\ th[t].at = "enter"
  /\ LET forever == th[t].forever
     IN CASE th[t].call = "sync"    -> SendSync(t, forever)
          [] th[t].call = "receive" -> catbsd_xpc_connection_receive_message(t, forever)
          [] OTHER                  -> catbsd_xpc_connection_cancel(t, th[t].call)

(* A thread inside a call, and the reader thread, go on.                    *)
Step(t) ==
  \/ EnterStep(t) \/ set_err(t)
  \/ frame_read(t) \/ TakeReply(t) \/ queue_push(t) \/ LockRead(t)
  \/ PopAgain(t) \/ Shutdown(t) \/ Join(t) \/ Close(t) \/ Free(t)
  \/ t = Reader /\ (ReaderGot \/ HandlerReturns)

(* The bound on sends; it keeps a number for each call that waits to send.  *)
SendsLeft ==
  conn.next_id + Cardinality({t \in Threads : th[t].at = "enter" /\ th[t].call = "sync"})
    <= MaxSends

(* What the process does with the connection.  It releases one that no      *)
(* thread uses.                                                             *)
Call(t) ==
  \/ SendsLeft /\ catbsd_xpc_connection_send_message(t)
  \/ /\ CanCall(t) /\ t \in Consumers
     /\ \E forever \in BOOLEAN :
          \/ SendsLeft /\ (SendSync(t, forever) \/ Waits(t, "sync", forever))
          \/ catbsd_xpc_connection_receive_message(t, forever)
          \/ Waits(t, "receive", forever)
  \/ catbsd_xpc_connection_set_event_handler(t)
  \/ catbsd_xpc_connection_resume(t)
  \/ /\ CanCancel(t)
     /\ catbsd_xpc_connection_cancel(t, "cancel") \/ Waits(t, "cancel", TRUE)
  \/ /\ CanCall(t) /\ \A u \in Threads : th[u].at = "idle"
     /\ conn.cancelled => th[Reader].at \in {"idle", "done"}
     /\ catbsd_xpc_connection_cancel(t, "release") \/ Waits(t, "release", TRUE)

Peer == PeerReplies \/ PeerSends \/ PeerGoesOn \/ PeerHangsUp

Next == Peer \/ \E t \in All : Step(t) \/ Call(t) \/ io_write_full(t) \/ ReadRecycled(t)

Spec == Init /\ [][Next]_vars

(* Threads run, mutexes are granted, deadlines pass and event handlers      *)
(* return.  Nothing is assumed of the peer, who may leave a write waiting   *)
(* for ever, of what the process calls, or of a read from a descriptor that *)
(* now belongs to something else.                                           *)
LiveSpec == Spec /\ \A t \in All : WF_vars(Step(t))

-----------------------------------------------------------------------------
(* Properties.                                                              *)

(* xpc_shim.h, receive_message: "Receive the next message not claimed by a  *)
(* pending reply wait."  While u waits for the reply to its message, that   *)
(* reply goes to u and to nobody else, unless a resume that overtook the    *)
(* call has started a reader thread, and no other message that is handed    *)
(* out ends the wait: neither a late reply to an earlier call nor a message *)
(* of the peer's own with the same number.                                  *)
ReplyMatches ==
  handed' # handed => \A u \in Threads :
    th[u].call = "sync" =>
      LET reply == [is_reply |-> TRUE, msg_id |-> th[u].id]
      IN /\ th'[u].call = "none" => handed' = reply
         /\ handed' = reply => th'[u].call = "none" \/ th[Reader].at # "idle"

RepliesMatch == [][ReplyMatches]_vars

Holds(m) ==
  Cardinality({i \in 1..Len(queue) : queue[i] = m})
    + Cardinality({t \in All : th[t].at \in {"push", "got"} /\ th[t].msg = m})

(* xpc_shim.h, send_message_with_reply_sync: "Messages that arrive in the   *)
(* meantime are queued ... rather than dropped, so an unrelated             *)
(* notification racing the reply doesn't lose either one."  Every message   *)
(* that was read and not yet given to anybody is held, once, and no other   *)
(* is, unless malloc() failed for it or the connection was released.        *)
NothingLost ==
  conn.freed \/
  \A m \in Msgs : Holds(m) = IF m \in due THEN 1 ELSE 0

(* The peer reads what it is sent, or hangs up, so that no write waits for  *)
(* ever.  io_write_full has no deadline and keeps c->lock: if the peer      *)
(* stops reading, one blocked send stops every call on the connection for   *)
(* good, timed calls and cancel included.                                   *)
PeerKeepsReading == []<>(lock = None)

(* xpc_shim.c, deadlines: "a stream of partial reads or EINTRs can't extend *)
(* the caller's timeout indefinitely".  A call with a timeout returns if    *)
(* the peer keeps reading, from wherever it is: waiting for c->lock,        *)
(* writing, waiting for the reply.  Two cases are left out: a reader thread *)
(* that was started under the call, which may take from it what poll() had  *)
(* promised, and a descriptor that was closed under it.                     *)
TimeoutHonoured ==
  PeerKeepsReading =>
    \A t \in Threads :
      (th[t].call \in {"sync", "receive"} /\ ~th[t].forever)
        ~> (th[t].call = "none" \/ conn.resumed \/ Overtaken(t))

(* The synchronous call returns once its reply is in the socket, also after *)
(* an earlier call gave up in the middle of a frame, if the peer keeps      *)
(* reading what other threads send and nobody resumes or cancels the        *)
(* connection.                                                              *)
ReplyReachesCaller ==
  PeerKeepsReading =>
    \A t \in Threads :
      (/\ th[t].call = "sync"
       /\ \E i \in 1..Len(stream) :
            /\ stream[i].msg = [is_reply |-> TRUE, msg_id |-> th[t].id]
            /\ stream[i].last)
        ~> (th[t].call = "none" \/ conn.cancelled \/ conn.resumed)

(* xpc_shim.c, cancel: shutdown() "wakes the reader thread's poll()         *)
(* immediately ..., so the thread can unwind".  If the peer keeps reading,  *)
(* cancel and release return, from the moment they are called, and the      *)
(* reader thread is gone then, whatever it was doing.                       *)
Cancelling == \E t \in All : th[t].call \in {"cancel", "release"}

CancelEndsReader ==
  PeerKeepsReading =>
    ((conn.cancelled \/ Cancelling)
       ~> (conn.cancelled /\ ~Cancelling /\ th[Reader].at \in {"idle", "done"}))
=============================================================================
