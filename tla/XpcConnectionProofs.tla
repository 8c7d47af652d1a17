------------------------ MODULE XpcConnectionProofs ------------------------
(***************************************************************************)
(* Proofs about XpcConnection, for every set of threads and any number of  *)
(* messages: every message that was read is held once until it is given    *)
(* out, and a reply goes to the caller that waits for it.  They cover a    *)
(* resume that overtakes a call, calls that wait for a writer, and reads   *)
(* of a descriptor that cancel has closed.                                 *)
(***************************************************************************)
EXTENDS XpcConnection, SequenceTheorems, FiniteSetTheorems, TLAPS

(* Where a thread of the process may be: the steps of a call belong to that *)
(* call, and whoever looks at the queue again or reads holds read_lock.     *)
Placed(t) ==
  /\ th[t].at \in {"take", "push"} => th[t].call = "sync"
  /\ th[t].at \in {"lock", "pop", "header", "payload"} =>
       th[t].call \in {"sync", "receive"}
  /\ th[t].call = "sync" =>
       th[t].at \in {"enter", "write", "err", "take", "push", "lock", "header", "payload"}
  /\ th[t].at = "enter" => th[t].call \in {"sync", "receive", "cancel", "release"}
  /\ th[t].at = "push" => th[t].msg \in Objects
  /\ th[t].call \in {"sync", "receive"} => t \in Consumers
  /\ th[t].at \in {"pop", "header", "payload"} => read_lock = t

(* Where the reader thread may be.                                          *)
ReaderAts == {"idle", "header", "payload", "got", "handler", "done", "write",
              "enter", "shutdown", "join", "close"}
ReaderPlaced ==
  /\ th[Reader].at \in ReaderAts
  /\ th[Reader].call \in {"none", "send", "cancel"}
  /\ th[Reader].at = "enter" => th[Reader].call = "cancel"

ThreadInv ==
  /\ \A t \in Threads : Placed(t)
  /\ ReaderPlaced
  /\ th[Reader].at # "idle" /\ ~conn.cancelled => conn.resumed

(* Whoever writes holds c->lock, and the peer does not yet have what it     *)
(* writes.                                                                  *)
WriteInv ==
  \A t \in All : th[t].at = "write" =>
    /\ lock = t
    /\ th[t].id \in 1..MaxSends /\ th[t].id < conn.next_id
    /\ th[t].id \notin peer.owes

(* A message the peer has not written, and one whose last part is on its    *)
(* way: only the last part of a frame completes a message.                  *)
Writing(id) == \E t \in All : th[t].at = "write" /\ th[t].id = id
Unsent(m) == IF m.is_reply
               THEN \/ m.msg_id \in peer.owes \/ m.msg_id >= conn.next_id
                    \/ Writing(m.msg_id)
               ELSE m.msg_id > peer.events
LastIn(s, m) == \E i \in 1..Len(s) : s[i].last /\ s[i].msg = m
OnWire(m) == LastIn(stream, m) \/ LastIn(peer.rest, m)

(* No message has two last parts.                                           *)
WireInv ==
  /\ \A id \in peer.owes : id < conn.next_id
  /\ \A i, j \in 1..Len(stream) :
       stream[i].last /\ stream[j].last /\ stream[i].msg = stream[j].msg => i = j
  /\ Len(peer.rest) <= 1
  /\ \A m \in Msgs : ~(LastIn(stream, m) /\ LastIn(peer.rest, m))
  /\ \A m \in Msgs : Unsent(m) => ~OnWire(m)

(* Where a message that was read is: the places of the queue it has, and    *)
(* the threads that hold it, to queue it or to give it to the handler.      *)
QueuedAt(m) == {i \in 1..Len(queue) : queue[i] = m}
Holding(t, m) == th[t].at \in {"push", "got"} /\ th[t].msg = m
Holders(m) == {t \in All : Holding(t, m)}

Nowhere(m) == QueuedAt(m) = {} /\ Holders(m) = {}
HeldOnce(m) ==
  \/ Holders(m) = {} /\ \E i \in QueuedAt(m) : QueuedAt(m) = {i}
  \/ QueuedAt(m) = {} /\ \E t \in Holders(m) : Holders(m) = {t}

HeldInv ==
  conn.freed \/
  \A m \in Msgs :
    /\ Unsent(m) \/ OnWire(m) => m \notin due
    /\ m \notin due => Nowhere(m)
    /\ m \in due => HeldOnce(m)

ConnInv == TypeOK /\ ThreadInv /\ WriteInv /\ WireInv /\ HeldInv

-----------------------------------------------------------------------------
(* How threads move.                                                        *)

Ats == {"idle", "enter", "write", "err", "take", "lock", "pop", "header",
        "payload", "push", "got", "shutdown", "join", "close", "free",
        "handler", "done"}

(* Neither nothing nor what came from another socket is a message.          *)
LEMMA NotMsgs ==
  /\ NoMsg \notin Msgs /\ Foreign \notin Msgs
  /\ \A m \in Msgs : m \in Objects /\ m # NoMsg /\ m # Foreign
<1>1. MaxSends \in Nat /\ MaxEvents \in Nat
  BY ConnectionAssumption
<1>2. NoMsg \notin Msgs
  BY <1>1 DEF NoMsg, Msgs
<1>3. Foreign \notin Msgs
  BY <1>1 DEF Foreign, Msgs
<1> QED BY <1>2, <1>3 DEF Objects

(* A thread outside any call.                                               *)
LEMMA IdleType == Idle \in ThreadStates
BY ConnectionAssumption DEF Idle, ThreadStates

(* Thread t goes on and the others stay where they are.                     *)
OnlyMoves(t) ==
  /\ th' \in [All -> ThreadStates]
  /\ \A u \in All : u # t => th'[u] = th[u]

(* Thread t is in a new state.                                              *)
LEMMA Becomes ==
  ASSUME TypeOK, NEW t \in All, NEW s \in ThreadStates, th' = [th EXCEPT ![t] = s]
  PROVE  OnlyMoves(t) /\ th'[t] = s
BY DEF TypeOK, OnlyMoves

(* Going on to another step of the same call.                               *)
LEMMA GotoEffect ==
  ASSUME TypeOK, NEW t \in All, NEW a \in Ats, Goto(t, a)
  PROVE  /\ OnlyMoves(t)
         /\ th'[t].at = a /\ th'[t].call = th[t].call /\ th'[t].id = th[t].id
         /\ th'[t].msg = th[t].msg
<1>1. th \in [All -> ThreadStates] /\ th[t] \in ThreadStates
  BY DEF TypeOK
<1>2. [th[t] EXCEPT !.at = a] \in ThreadStates
  BY <1>1 DEF ThreadStates, Ats
<1>3. th'[t] = [th[t] EXCEPT !.at = a]
  BY <1>1 DEF Goto
<1>4. OnlyMoves(t)
  BY <1>1, <1>2 DEF Goto, OnlyMoves
<1> QED BY <1>1, <1>3, <1>4 DEF ThreadStates

(* A call returns.                                                          *)
LEMMA ReturnsEffect ==
  ASSUME TypeOK, NEW t \in All, Returns(t)
  PROVE  /\ OnlyMoves(t)
         /\ th'[t].at = "idle" /\ th'[t].call = "none"
<1>1. OnlyMoves(t) /\ th'[t] = Idle
  BY IdleType, Becomes DEF Returns
<1> QED BY <1>1 DEF Idle

(* frame_read is entered.                                                   *)
LEMMA EnterReadEffect ==
  ASSUME TypeOK, NEW t \in All, EnterRead(t)
  PROVE  /\ OnlyMoves(t)
         /\ th'[t].at = "header" /\ th'[t].call = th[t].call /\ th'[t].id = th[t].id
<1> DEFINE s == [th[t] EXCEPT !.at = "header", !.fd = Descriptor, !.polled = FALSE,
                              !.msg = NoMsg]
<1>1. th \in [All -> ThreadStates] /\ th[t] \in ThreadStates
  BY DEF TypeOK
<1>2. s \in ThreadStates
  BY <1>1 DEF ThreadStates, Descriptor
<1>3. th' = [th EXCEPT ![t] = s]
  BY <1>1 DEF EnterRead
<1>4. s.at = "header" /\ s.call = th[t].call /\ s.id = th[t].id
  BY <1>1 DEF ThreadStates
<1> HIDE DEF s
<1> QED BY <1>2, <1>3, <1>4, Becomes

(* The thread changes the step it is at and the call it is in.              *)
LEMMA EntersEffect ==
  ASSUME TypeOK, NEW t \in All, NEW a \in Ats, NEW forever \in BOOLEAN,
         NEW c \in {"none", "send", "sync", "receive", "cancel", "release"},
         \/ th' = [th EXCEPT ![t].at = a, ![t].call = c, ![t].forever = forever]
         \/ th' = [th EXCEPT ![t].at = a, ![t].call = c]
  PROVE  /\ OnlyMoves(t)
         /\ th'[t].at = a /\ th'[t].call = c /\ th'[t].msg = th[t].msg
<1>1. th \in [All -> ThreadStates] /\ th[t] \in ThreadStates
  BY DEF TypeOK
<1>2. PICK f \in BOOLEAN : th' = [th EXCEPT ![t] =
                 [th[t] EXCEPT !.at = a, !.call = c, !.forever = f]]
  <2>1. CASE th' = [th EXCEPT ![t].at = a, ![t].call = c, ![t].forever = forever]
    BY <1>1, <2>1
  <2>2. CASE th' = [th EXCEPT ![t].at = a, ![t].call = c]
    <3>1. /\ th[t].forever \in BOOLEAN
          /\ [th[t] EXCEPT !.at = a, !.call = c] =
               [th[t] EXCEPT !.at = a, !.call = c, !.forever = th[t].forever]
      BY <1>1 DEF ThreadStates
    <3>2. th' = [th EXCEPT ![t] = [th[t] EXCEPT !.at = a, !.call = c]]
      BY <1>1, <2>2
    <3> QED BY <3>1, <3>2
  <2> QED BY <2>1, <2>2
<1> DEFINE s == [th[t] EXCEPT !.at = a, !.call = c, !.forever = f]
<1>3. s \in ThreadStates /\ s.at = a /\ s.call = c /\ s.msg = th[t].msg
  <2>1. s \in ThreadStates
    BY <1>1, f \in BOOLEAN DEF ThreadStates, Ats
  <2>2. s.at = a /\ s.call = c /\ s.msg = th[t].msg
    BY <1>1 DEF ThreadStates
  <2> QED BY <2>1, <2>2
<1>4. th' = [th EXCEPT ![t] = s]
  BY <1>2
<1> HIDE DEF s
<1> QED BY <1>3, <1>4, Becomes

(* A step of one thread that neither resumes nor cancels keeps the          *)
(* discipline of the threads, if the thread itself does.                    *)
LEMMA Move ==
  ASSUME ThreadInv, NEW t \in All, OnlyMoves(t),
         conn'.resumed = conn.resumed, conn'.cancelled = conn.cancelled,
         \A u \in Threads : u # t /\ read_lock = u => read_lock' = u,
         t \in Threads => Placed(t)',
         t = Reader => th[t].at # "idle" /\ ReaderPlaced'
  PROVE  ThreadInv'
<1>1. Reader \notin Threads /\ Reader \in All /\ Threads \subseteq All
  BY ConnectionAssumption DEF All
<1>2. ASSUME NEW u \in Threads, u # t PROVE Placed(u)'
  <2>1. th'[u] = th[u] /\ Placed(u)
    BY <1>1, <1>2 DEF OnlyMoves, ThreadInv
  <2> QED BY <1>2, <2>1 DEF Placed
<1>3. CASE t \in Threads
  <2>1. th'[Reader] = th[Reader]
    BY <1>1, <1>3 DEF OnlyMoves
  <2>2. ReaderPlaced'
    BY <2>1 DEF ThreadInv, ReaderPlaced
  <2> QED BY <1>2, <1>3, <2>1, <2>2 DEF ThreadInv
<1>4. CASE t = Reader
  BY <1>1, <1>2, <1>4 DEF ThreadInv
<1> QED BY <1>3, <1>4 DEF All

(* What every step of one thread leaves well-typed.                         *)
LEMMA UnlockType ==
  ASSUME TypeOK, NEW t, Unlock(t)
  PROVE  /\ read_lock' \in Threads \cup {None}
         /\ \A u \in Threads : u # t /\ read_lock = u => read_lock' = u
BY DEF TypeOK, Unlock

(* frame_read fails: the caller is out, or still has to report the error;   *)
(* the reader thread goes on without a message.                             *)
LEMMA ReadFailsEffect ==
  ASSUME TypeOK, ThreadInv, NEW t \in All, Reading(t), ReadFails(t)
  PROVE  /\ OnlyMoves(t) /\ ThreadInv' /\ th'[t].at \in {"idle", "err", "got"}
         /\ \A m \in Msgs : ~Holding(t, m)'
         /\ read_lock' \in Threads \cup {None}
         /\ UNCHANGED <<conn, queue, lock, peer, due, handed>>
<1>1. /\ UNCHANGED <<conn, queue, lock, peer, due, handed>> /\ Unlock(t)
      /\ th \in [All -> ThreadStates] /\ th[t] \in ThreadStates
      /\ Reader \notin Threads /\ (t # Reader => t \in Threads)
  BY ConnectionAssumption DEF ReadFails, TypeOK, All
<1>2. CASE t = Reader
  <2> DEFINE s == [th[t] EXCEPT !.at = "got", !.msg = NoMsg]
  <2>1. th' = [th EXCEPT ![t] = s]
    BY <1>1, <1>2 DEF ReadFails
  <2>2. s \in ThreadStates /\ s.at = "got" /\ s.msg = NoMsg /\ s.call = th[t].call
    BY <1>1 DEF ThreadStates
  <2> HIDE DEF s
  <2>3. /\ OnlyMoves(t) /\ th'[t].at = "got" /\ th'[t].msg = NoMsg
        /\ th'[t].call = th[t].call
    BY <2>1, <2>2, Becomes
  <2>4. ReaderPlaced' /\ th[t].at # "idle"
    BY <1>2, <2>3 DEF ThreadInv, ReaderPlaced, ReaderAts, Reading
  <2>5. ThreadInv'
    BY <1>1, <1>2, <2>3, <2>4, UnlockType, Move
  <2>6. \A m \in Msgs : ~Holding(t, m)'
    BY <2>3, NotMsgs DEF Holding
  <2> QED BY <1>1, <2>3, <2>5, <2>6, UnlockType
<1>3. CASE t # Reader
  <2>1. /\ OnlyMoves(t) /\ th'[t].at \in {"idle", "err"}
        /\ th'[t].at = "idle" => th'[t].call = "none"
        /\ th'[t].at = "err" => th'[t].call = th[t].call
    <3>1. th' = [th EXCEPT ![t] = Failed(t)]
      BY <1>3 DEF ReadFails
    <3>2. CASE Failed(t) = Idle
      <4>1. OnlyMoves(t) /\ th'[t] = Idle
        BY <3>1, <3>2, IdleType, Becomes
      <4> QED BY <4>1 DEF Idle
    <3>3. CASE Failed(t) = [th[t] EXCEPT !.at = "err", !.msg = NoMsg]
      <4> DEFINE s == [th[t] EXCEPT !.at = "err", !.msg = NoMsg]
      <4>1. s \in ThreadStates /\ s.at = "err" /\ s.call = th[t].call
        BY <1>1 DEF ThreadStates
      <4>2. th' = [th EXCEPT ![t] = s]
        BY <3>1, <3>3
      <4> HIDE DEF s
      <4> QED BY <4>1, <4>2, Becomes
    <3> QED BY <3>2, <3>3 DEF Failed
  <2>2. Placed(t) /\ t \in Threads
    BY <1>1, <1>3 DEF ThreadInv
  <2>3. Placed(t)'
    BY <2>1, <2>2 DEF Placed
  <2>4. ThreadInv'
    BY <1>1, <1>3, <2>1, <2>3, UnlockType, Move
  <2> QED BY <1>1, <2>1, <2>4, UnlockType DEF Holding
<1> QED BY <1>2, <1>3

(* frame_read succeeds with m: the reader thread and the synchronous caller *)
(* it is not for hold it, everybody else has it.                            *)
LEMMA ReadSucceedsEffect ==
  ASSUME TypeOK, ThreadInv, NEW t \in All, Reading(t), NEW m \in Msgs,
         ReadSucceeds(t, m)
  PROVE  /\ OnlyMoves(t) /\ ThreadInv' /\ th'[t].at # "write"
         /\ read_lock' \in Threads \cup {None}
         /\ UNCHANGED <<conn, queue, lock, peer>>
         /\ \/ /\ Holding(t, m)' /\ due' = due \cup {m} /\ handed' = handed
            \/ /\ t \in Threads /\ th'[t].at = "idle" /\ th'[t].call = "none"
               /\ Hands(m) /\ (th[t].call = "sync" => IsReplyTo(m, th[t].id))
<1>1. /\ UNCHANGED <<conn, queue, lock, peer>> /\ Unlock(t)
      /\ th \in [All -> ThreadStates] /\ th[t] \in ThreadStates
      /\ Reader \notin Threads /\ (t # Reader => t \in Threads)
  BY ConnectionAssumption DEF ReadSucceeds, TypeOK, All
<1>2. CASE t = Reader \/ (th[t].call = "sync" /\ ~IsReplyTo(m, th[t].id))
  <2> DEFINE a == IF t = Reader THEN "got" ELSE "push"
             s == [th[t] EXCEPT !.at = a, !.msg = m]
  <2>1. /\ th' = [th EXCEPT ![t] = s]
        /\ due' = due \cup {m} /\ handed' = handed
    BY <1>1, <1>2 DEF ReadSucceeds
  <2>2. s \in ThreadStates /\ s.at = a /\ s.msg = m /\ s.call = th[t].call
    BY <1>1, NotMsgs DEF ThreadStates
  <2> HIDE DEF s
  <2>3. /\ OnlyMoves(t) /\ th'[t].at = a /\ th'[t].msg = m
        /\ th'[t].call = th[t].call
    BY <2>1, <2>2, Becomes
  <2>4. t \in Threads => Placed(t)'
    <3>1. t \in Threads => Placed(t) /\ a = "push" /\ th[t].call = "sync"
      BY <1>1, <1>2 DEF ThreadInv
    <3> QED BY <2>3, <3>1, NotMsgs DEF Placed
  <2>5. t = Reader => th[t].at # "idle" /\ ReaderPlaced'
    BY <2>3 DEF ThreadInv, ReaderPlaced, ReaderAts, Reading
  <2>6. ThreadInv'
    BY <1>1, <2>3, <2>4, <2>5, UnlockType, Move
  <2>7. Holding(t, m)'
    BY <2>3 DEF Holding
  <2> QED BY <1>1, <2>1, <2>3, <2>6, <2>7, UnlockType
<1>3. CASE ~(t = Reader \/ (th[t].call = "sync" /\ ~IsReplyTo(m, th[t].id)))
  <2>1. Returns(t) /\ Hands(m) /\ t \in Threads
    BY <1>1, <1>3 DEF ReadSucceeds
  <2>2. OnlyMoves(t) /\ th'[t].at = "idle" /\ th'[t].call = "none"
    BY <2>1, ReturnsEffect
  <2>3. Placed(t)'
    BY <2>2 DEF Placed
  <2>4. ThreadInv'
    BY <1>1, <2>1, <2>2, <2>3, UnlockType, Move
  <2> QED BY <1>1, <1>3, <2>1, <2>2, <2>4, UnlockType
<1> QED BY <1>2, <1>3

-----------------------------------------------------------------------------
(* The wire and the messages that were read.                                *)

(* A thread that holds no message, before or after.                         *)
LEMMA HoldersSame ==
  ASSUME NEW t \in All, OnlyMoves(t), NEW m, ~Holding(t, m), ~Holding(t, m)'
  PROVE  Holders(m)' = Holders(m)
<1> SUFFICES ASSUME NEW u \in All
             PROVE  Holding(u, m)' <=> Holding(u, m)
  BY DEF Holders
<1>1. CASE u = t
  BY <1>1
<1>2. CASE u # t
  BY <1>2 DEF Holding, OnlyMoves
<1> QED BY <1>1, <1>2

(* A thread that is not writing, before or after.                           *)
LEMMA WritersSame ==
  ASSUME NEW t \in All, OnlyMoves(t), th[t].at # "write", th'[t].at # "write"
  PROVE  \A id : Writing(id)' <=> Writing(id)
<1> SUFFICES ASSUME NEW u \in All
             PROVE  /\ th'[u].at = "write" => th'[u] = th[u]
                    /\ th[u].at = "write" => th'[u] = th[u]
  BY DEF Writing
<1>1. u # t => th'[u] = th[u]
  BY DEF OnlyMoves
<1> QED BY <1>1

(* Nor do the others begin to write, and the peer is not given a new one.   *)
LEMMA WriteAlone ==
  ASSUME WriteInv, lock' = lock, conn'.next_id = conn.next_id,
         peer'.owes \subseteq peer.owes,
         \A u \in All : th'[u].at = "write" => th'[u] = th[u]
  PROVE  WriteInv'
<1> SUFFICES ASSUME NEW u \in All, th'[u].at = "write"
             PROVE  /\ lock = u /\ th[u].id \in 1..MaxSends
                    /\ th[u].id < conn.next_id /\ th[u].id \notin peer.owes
                    /\ th'[u] = th[u]
  BY DEF WriteInv
<1>1. th'[u] = th[u]
  OBVIOUS
<1> QED BY <1>1 DEF WriteInv

(* Nothing is read, queued or given out, and the wire holds nothing new.    *)
LEMMA HeldAlone ==
  ASSUME HeldInv, UNCHANGED <<queue, due>>,
         conn.freed => conn'.freed, \A m \in Msgs : Holders(m)' = Holders(m),
         \A m \in Msgs : (Unsent(m) \/ OnWire(m))' => Unsent(m) \/ OnWire(m)
  PROVE  HeldInv'
<1>1. \A m \in Msgs : QueuedAt(m)' = QueuedAt(m)
  BY DEF QueuedAt
<1>2. \A m \in Msgs : (Nowhere(m)' <=> Nowhere(m)) /\ (HeldOnce(m)' <=> HeldOnce(m))
  BY <1>1 DEF Nowhere, HeldOnce
<1> QED BY <1>2 DEF HeldInv

(* Neither side writes and nobody reads; the peer may have gone.            *)
LEMMA WireAlone ==
  ASSUME TypeOK, WireInv, UNCHANGED stream, conn'.next_id = conn.next_id,
         peer' = peer \/ peer' = Gone, \A id : Writing(id)' => Writing(id)
  PROVE  /\ WireInv' /\ peer' \in Peers /\ peer'.owes \subseteq peer.owes
         /\ \A m \in Msgs : (Unsent(m) \/ OnWire(m))' => Unsent(m) \/ OnWire(m)
<1>1. peer \in Peers
  BY DEF TypeOK
<1>2. /\ peer' \in Peers /\ peer'.owes \subseteq peer.owes
      /\ peer'.events = peer.events /\ (peer'.rest = peer.rest \/ peer'.rest = <<>>)
  <2>1. CASE peer' = peer
    BY <1>1, <2>1
  <2>2. CASE peer' = Gone
    <3>1. <<>> \in Seq(Parts)
      OBVIOUS
    <3> QED BY <1>1, <2>2, <3>1 DEF Gone, Peers
  <2> QED BY <2>1, <2>2
<1>3. /\ Len(peer'.rest) <= 1
      /\ \A m \in Msgs : LastIn(peer'.rest, m) => LastIn(peer.rest, m)
  <2>1. CASE peer'.rest = peer.rest
    BY <2>1 DEF WireInv
  <2>2. CASE peer'.rest = <<>>
    <3>1. 1..Len(peer'.rest) = {} /\ Len(peer'.rest) <= 1
      BY <2>2
    <3> QED BY <3>1 DEF LastIn
  <2> QED BY <1>2, <2>1, <2>2
<1>4. \A m \in Msgs : (Unsent(m)' => Unsent(m)) /\ (OnWire(m)' => OnWire(m))
  BY <1>2, <1>3 DEF Unsent, OnWire
<1>5. WireInv'
  BY <1>2, <1>3, <1>4 DEF WireInv
<1> QED BY <1>2, <1>4, <1>5

(* The first part leaves the socket; what is left of the next may have lost *)
(* its beginning.  If it was the last part of a message, there is no other. *)
LEMMA WireShift ==
  ASSUME TypeOK, WireInv, UNCHANGED peer, conn'.next_id = conn.next_id,
         \A id : Writing(id)' <=> Writing(id),
         stream # <<>>, stream' \in Seq(Parts), Len(stream') = Len(stream) - 1,
         \A i \in 1..(Len(stream) - 1) : /\ stream'[i].last = stream[i + 1].last
                                         /\ stream'[i].msg = stream[i + 1].msg
  PROVE  /\ WireInv'
         /\ \A m \in Msgs : (Unsent(m) \/ OnWire(m))' => Unsent(m) \/ OnWire(m)
         /\ \A m \in Msgs : Head(stream).last /\ Head(stream).msg = m =>
              OnWire(m) /\ ~Unsent(m) /\ ~(Unsent(m) \/ OnWire(m))'
<1>1. Len(stream) \in Nat /\ Len(stream) >= 1 /\ Head(stream) = stream[1]
  BY DEF TypeOK
<1>2. \A m \in Msgs : Unsent(m)' <=> Unsent(m)
  BY DEF Unsent
<1>3. \A m \in Msgs : LastIn(stream', m) => LastIn(stream, m)
  <2> SUFFICES ASSUME NEW m \in Msgs, NEW i \in 1..Len(stream'),
                      stream'[i].last, stream'[i].msg = m
               PROVE  LastIn(stream, m)
    BY DEF LastIn
  <2>1. i + 1 \in 1..Len(stream) /\ i \in 1..(Len(stream) - 1)
    BY <1>1
  <2> QED BY <2>1 DEF LastIn
<1>4. \A m \in Msgs : OnWire(m)' => OnWire(m)
  BY <1>3 DEF OnWire
<1>5. ASSUME NEW i \in 1..Len(stream'), NEW j \in 1..Len(stream'),
             stream'[i].last, stream'[j].last, stream'[i].msg = stream'[j].msg
      PROVE  i = j
  <2>1. /\ i + 1 \in 1..Len(stream) /\ i \in 1..(Len(stream) - 1)
        /\ j + 1 \in 1..Len(stream) /\ j \in 1..(Len(stream) - 1)
    BY <1>1
  <2>2. i + 1 = j + 1
    BY <1>5, <2>1 DEF WireInv
  <2> QED BY <2>1, <2>2
<1>6. WireInv'
  <2>1. \A m \in Msgs : ~(LastIn(stream', m) /\ LastIn(peer'.rest, m))
    BY <1>3 DEF WireInv
  <2>2. \A m \in Msgs : Unsent(m)' => ~OnWire(m)'
    BY <1>2, <1>4 DEF WireInv
  <2> QED BY <1>5, <2>1, <2>2 DEF WireInv
<1>7. ASSUME NEW m \in Msgs, Head(stream).last, Head(stream).msg = m
      PROVE  OnWire(m) /\ ~Unsent(m) /\ ~OnWire(m)'
  <2>1. LastIn(stream, m) /\ OnWire(m) /\ ~Unsent(m) /\ ~LastIn(peer.rest, m)
    BY <1>1, <1>7 DEF LastIn, OnWire, WireInv
  <2>2. ASSUME NEW i \in 1..Len(stream'), stream'[i].last, stream'[i].msg = m
        PROVE  FALSE
    <3>1. i + 1 \in 1..Len(stream) /\ i \in 1..(Len(stream) - 1) /\ 1 \in 1..Len(stream)
          /\ i + 1 # 1
      BY <1>1
    <3> QED BY <1>1, <1>7, <2>2, <3>1 DEF WireInv
  <2> QED BY <2>1, <2>2 DEF OnWire, LastIn
<1> QED BY <1>2, <1>4, <1>6, <1>7

(* m is read: nobody had it before, and afterwards one caller has or holds  *)
(* it.                                                                      *)
LEMMA Arrival ==
  ASSUME ConnInv, NEW t \in All, NEW m \in Msgs, OnlyMoves(t),
         \A x \in Msgs : ~Holding(t, x), UNCHANGED <<conn, queue>>,
         OnWire(m), ~(Unsent(m) \/ OnWire(m))',
         \A x \in Msgs : (Unsent(x) \/ OnWire(x))' => Unsent(x) \/ OnWire(x),
         \/ Holding(t, m)' /\ due' = due \cup {m}
         \/ th'[t].at = "idle" /\ due' = due \ {m}
  PROVE  HeldInv'
<1> SUFFICES ASSUME ~conn.freed PROVE HeldInv'
  BY DEF HeldInv
<1>1. m \notin due /\ Nowhere(m)
  BY DEF ConnInv, HeldInv
<1>2. \A x \in Msgs : QueuedAt(x)' = QueuedAt(x)
  BY DEF QueuedAt
<1>3. ASSUME NEW x \in Msgs, x # m PROVE Holders(x)' = Holders(x)
  <2>1. ~Holding(t, x)'
    BY <1>3 DEF Holding
  <2> QED BY <2>1, HoldersSame
<1>4. ASSUME NEW x \in Msgs, x # m
      PROVE  (Nowhere(x)' <=> Nowhere(x)) /\ (HeldOnce(x)' <=> HeldOnce(x))
  BY <1>2, <1>3, <1>4 DEF Nowhere, HeldOnce
<1>5. CASE Holding(t, m)' /\ due' = due \cup {m}
  <2>1. ASSUME NEW u \in Holders(m)' PROVE u = t
    <3>1. u \in All /\ Holding(u, m)'
      BY DEF Holders
    <3>2. u # t => Holding(u, m)
      BY <3>1 DEF Holding, OnlyMoves
    <3> QED BY <1>1, <3>1, <3>2 DEF Nowhere, Holders
  <2>2. t \in Holders(m)'
    BY <1>5 DEF Holders
  <2>3. HeldOnce(m)'
    BY <1>1, <1>2, <2>1, <2>2 DEF HeldOnce, Nowhere
  <2> QED BY <1>1, <1>4, <1>5, <2>3 DEF ConnInv, HeldInv
<1>6. CASE th'[t].at = "idle" /\ due' = due \ {m}
  <2>1. Holders(m)' = Holders(m)
    BY <1>6, HoldersSame DEF Holding
  <2>2. Nowhere(m)'
    BY <1>1, <1>2, <2>1 DEF Nowhere
  <2> QED BY <1>1, <1>4, <1>6, <2>2 DEF ConnInv, HeldInv
<1> QED BY <1>5, <1>6

-----------------------------------------------------------------------------
(* The steps of a thread.                                                   *)

(* At most one thread receives or waits for replies.                        *)
OneConsumer == \A c, d \in Consumers : c = d

(* What each step keeps, and what it may hand out.                          *)
Kept == ConnInv' /\ (OneConsumer => ReplyMatches)

(* The only consumer, or a reader thread, hands out m.                      *)
LEMMA HandsOver ==
  ASSUME ConnInv, OneConsumer, NEW t \in All, OnlyMoves(t), NEW m \in Objects, Hands(m),
         t \in Threads =>
           /\ t \in Consumers
           /\ th[t].call = "sync" => IsReplyTo(m, th[t].id) /\ th'[t].call = "none",
         t = Reader => th[t].at # "idle"
  PROVE  ReplyMatches
<1> SUFFICES ASSUME NEW u \in Threads, th[u].call = "sync"
             PROVE  LET reply == [is_reply |-> TRUE, msg_id |-> th[u].id]
                    IN /\ th'[u].call = "none" => m = reply
                       /\ m = reply => th'[u].call = "none" \/ th[Reader].at # "idle"
  BY DEF ReplyMatches, Hands
<1>1. u \in Consumers /\ u \in All
  BY DEF ConnInv, ThreadInv, Placed, All
<1>2. CASE t = Reader
  <2>1. th'[u] = th[u]
    BY <1>1, <1>2, ConnectionAssumption DEF OnlyMoves
  <2> QED BY <1>2, <2>1
<1>3. CASE t \in Threads
  <2>1. u = t
    BY <1>1, <1>3 DEF OneConsumer
  <2>2. IsReplyTo(m, th[u].id) /\ th'[u].call = "none"
    BY <1>3, <2>1
  <2>3. m \in Msgs
    BY <2>2 DEF IsReplyTo, Objects, Foreign
  <2>4. m = [is_reply |-> TRUE, msg_id |-> th[u].id]
    BY <2>2, <2>3 DEF IsReplyTo, Msgs
  <2> QED BY <2>2, <2>4
<1> QED BY <1>2, <1>3 DEF All

(* A step that hands out nothing.                                           *)
LEMMA HandsNothing ==
  ASSUME handed' = handed
  PROVE  ReplyMatches
BY DEF ReplyMatches

(* A step of one thread that reads, queues, writes and hands out nothing.   *)
LEMMA Still ==
  ASSUME ConnInv, NEW t \in All, OnlyMoves(t), th[t].at # "write", th'[t].at # "write",
         \A m \in Msgs : ~Holding(t, m) /\ ~Holding(t, m)',
         ThreadInv', conn' \in Conns, conn'.next_id = conn.next_id,
         conn.freed => conn'.freed, read_lock' \in Threads \cup {None},
         peer' = peer \/ peer' = Gone,
         UNCHANGED <<queue, lock, stream, due, handed>>
  PROVE  Kept
<1>1. TypeOK /\ WireInv /\ HeldInv /\ WriteInv
  BY DEF ConnInv
<1>2. \A id : Writing(id)' <=> Writing(id)
  BY WritersSame
<1>3. /\ WireInv' /\ peer' \in Peers /\ peer'.owes \subseteq peer.owes
      /\ \A m \in Msgs : (Unsent(m) \/ OnWire(m))' => Unsent(m) \/ OnWire(m)
  BY <1>1, <1>2, WireAlone
<1>4. \A m \in Msgs : Holders(m)' = Holders(m)
  BY HoldersSame
<1>5. HeldInv'
  BY <1>1, <1>3, <1>4, HeldAlone
<1>6. WriteInv'
  <2>1. \A u \in All : th'[u].at = "write" => th'[u] = th[u]
    BY DEF OnlyMoves
  <2> QED BY <1>1, <1>3, <2>1, WriteAlone
<1>7. TypeOK'
  BY <1>1, <1>3 DEF TypeOK, OnlyMoves
<1> QED BY <1>3, <1>5, <1>6, <1>7, HandsNothing DEF ConnInv, Kept

(* frame_read fails; what it took off the wire is lost.                     *)
LEMMA FailsStep ==
  ASSUME ConnInv, NEW t \in All, Reading(t), ReadFails(t), stream' \in Seq(Parts), WireInv',
         \A m \in Msgs : (Unsent(m) \/ OnWire(m))' => Unsent(m) \/ OnWire(m)
  PROVE  Kept
<1>1. TypeOK /\ ThreadInv /\ WireInv /\ HeldInv /\ WriteInv
  BY DEF ConnInv
<1>2. /\ OnlyMoves(t) /\ ThreadInv' /\ th'[t].at \in {"idle", "err", "got"}
      /\ \A m \in Msgs : ~Holding(t, m)'
      /\ read_lock' \in Threads \cup {None}
      /\ UNCHANGED <<conn, queue, lock, peer, due, handed>>
  BY <1>1, ReadFailsEffect
<1>3. TypeOK'
  BY <1>1, <1>2 DEF TypeOK, OnlyMoves
<1>4. \A m \in Msgs : Holders(m)' = Holders(m)
  BY <1>2, HoldersSame DEF Holding, Reading
<1>5. HeldInv'
  BY <1>1, <1>2, <1>4, HeldAlone
<1>6. WriteInv'
  <2>1. \A u \in All : th'[u].at = "write" => th'[u] = th[u]
    BY <1>2 DEF OnlyMoves
  <2> QED BY <1>1, <1>2, <2>1, WriteAlone
<1> QED BY <1>2, <1>3, <1>5, <1>6, HandsNothing DEF ConnInv, Kept

(* frame_read succeeds with m, whose last part it took off the wire.        *)
LEMMA SucceedsStep ==
  ASSUME ConnInv, NEW t \in All, Reading(t), NEW m \in Msgs, ReadSucceeds(t, m),
         stream' \in Seq(Parts), WireInv',
         \A x \in Msgs : (Unsent(x) \/ OnWire(x))' => Unsent(x) \/ OnWire(x),
         OnWire(m), ~(Unsent(m) \/ OnWire(m))'
  PROVE  Kept
<1>1. TypeOK /\ ThreadInv /\ WireInv /\ HeldInv /\ WriteInv
  BY DEF ConnInv
<1>2. /\ OnlyMoves(t) /\ ThreadInv' /\ th'[t].at # "write"
      /\ read_lock' \in Threads \cup {None}
      /\ UNCHANGED <<conn, queue, lock, peer>>
      /\ \/ /\ Holding(t, m)' /\ due' = due \cup {m} /\ handed' = handed
         \/ /\ t \in Threads /\ th'[t].at = "idle" /\ th'[t].call = "none"
            /\ Hands(m) /\ (th[t].call = "sync" => IsReplyTo(m, th[t].id))
  BY <1>1, ReadSucceedsEffect
<1>3. m \in Objects /\ due' \subseteq Objects /\ handed' \in Objects \cup {NoMsg}
  BY <1>1, <1>2, NotMsgs DEF TypeOK, Hands
<1>4. TypeOK'
  BY <1>1, <1>2, <1>3 DEF TypeOK, OnlyMoves
<1>5. HeldInv'
  <2>1. \A x \in Msgs : ~Holding(t, x)
    BY DEF Holding, Reading
  <2> QED BY <1>2, <2>1, Arrival DEF Hands
<1>6. WriteInv'
  <2>1. \A u \in All : th'[u].at = "write" => th'[u] = th[u]
    BY <1>2 DEF OnlyMoves
  <2> QED BY <1>1, <1>2, <2>1, WriteAlone
<1>7. OneConsumer => ReplyMatches
  <2>1. t \in Threads => t \in Consumers
    BY <1>1 DEF ThreadInv, Placed, Reading
  <2>2. t \in Threads => t # Reader
    BY ConnectionAssumption
  <2> QED BY <1>2, <1>3, <2>1, <2>2, HandsOver, HandsNothing
<1> QED BY <1>2, <1>4, <1>5, <1>6, <1>7 DEF ConnInv, Kept

(* A part is taken off the wire, or what is there is taken for garbage.     *)
LEMMA TakesPart ==
  ASSUME ConnInv, stream # <<>>, stream' = Tail(stream) \/ stream' \in AfterGarbage,
         UNCHANGED <<peer, conn>>, \A id : Writing(id)' <=> Writing(id)
  PROVE  /\ stream' \in Seq(Parts) /\ WireInv'
         /\ \A m \in Msgs : (Unsent(m) \/ OnWire(m))' => Unsent(m) \/ OnWire(m)
         /\ stream' = Tail(stream) =>
              \A m \in Msgs : Head(stream).last /\ Head(stream).msg = m =>
                OnWire(m) /\ ~(Unsent(m) \/ OnWire(m))'
<1>1. TypeOK /\ WireInv /\ stream \in Seq(Parts)
  BY DEF ConnInv, TypeOK
<1>2. /\ Tail(stream) \in Seq(Parts) /\ Len(Tail(stream)) = Len(stream) - 1
      /\ \A i \in 1..(Len(stream) - 1) : Tail(stream)[i] = stream[i + 1]
  BY <1>1
<1>3. CASE stream' = Tail(stream)
  <2>1. /\ stream' \in Seq(Parts) /\ Len(stream') = Len(stream) - 1
        /\ \A i \in 1..(Len(stream) - 1) : /\ stream'[i].last = stream[i + 1].last
                                           /\ stream'[i].msg = stream[i + 1].msg
    BY <1>2, <1>3
  <2> QED BY <1>1, <2>1, WireShift
<1>4. CASE /\ stream' # Tail(stream) /\ 1 \in DOMAIN Tail(stream)
           /\ stream' = [Tail(stream) EXCEPT ![1].first = FALSE]
  <2> DEFINE s == Tail(stream)
  <2>1. s \in Seq(Parts) /\ 1 \in 1..Len(s) /\ s[1] \in Parts
    BY <1>2, <1>4
  <2>2. [s[1] EXCEPT !.first = FALSE] \in Parts
    BY <2>1 DEF Parts
  <2>3. stream' = [s EXCEPT ![1] = [s[1] EXCEPT !.first = FALSE]]
    BY <1>4
  <2> HIDE DEF s
  <2>4. stream' \in Seq(Parts) /\ Len(stream') = Len(s)
    BY <2>1, <2>2, <2>3
  <2>5. \A i \in 1..Len(s) : stream'[i] = IF i = 1
            THEN [s[1] EXCEPT !.first = FALSE] ELSE s[i]
    BY <2>1, <2>3
  <2>6. \A i \in 1..Len(s) : stream'[i].last = s[i].last /\ stream'[i].msg = s[i].msg
    BY <2>1, <2>5 DEF Parts
  <2>7. /\ stream' \in Seq(Parts) /\ Len(stream') = Len(stream) - 1
        /\ \A i \in 1..(Len(stream) - 1) : /\ stream'[i].last = stream[i + 1].last
                                           /\ stream'[i].msg = stream[i + 1].msg
    BY <1>2, <2>4, <2>6 DEF s
  <2> QED BY <1>1, <1>4, <2>7, WireShift
<1>5. CASE stream' # Tail(stream) /\ stream' = stream
  BY <1>1, <1>5, WireAlone
<1> QED BY <1>3, <1>4, <1>5 DEF AfterGarbage

(* A thread goes on reading.                                                *)
LEMMA ReadsOn ==
  ASSUME ConnInv, NEW t \in All, Reading(t), OnlyMoves(t),
         th'[t].at \in {"header", "payload"}, th'[t].call = th[t].call,
         UNCHANGED <<conn, queue, lock, read_lock, peer, due, handed>>,
         stream' \in Seq(Parts), WireInv',
         \A m \in Msgs : (Unsent(m) \/ OnWire(m))' => Unsent(m) \/ OnWire(m)
  PROVE  Kept
<1>1. TypeOK /\ ThreadInv /\ WireInv /\ HeldInv /\ WriteInv /\ Reader \notin Threads
  BY ConnectionAssumption DEF ConnInv
<1>2. ThreadInv'
  <2>1. t \in Threads => Placed(t) /\ th[t].call \in {"sync", "receive"} /\ read_lock = t
    BY <1>1 DEF ThreadInv, Placed, Reading
  <2>2. t \in Threads => Placed(t)'
    BY <2>1 DEF Placed
  <2>3. t = Reader => th[t].at # "idle" /\ ReaderPlaced'
    BY <1>1 DEF ThreadInv, ReaderPlaced, ReaderAts, Reading
  <2> QED BY <1>1, <2>2, <2>3, Move
<1>3. \A m \in Msgs : Holders(m)' = Holders(m)
  BY HoldersSame DEF Holding, Reading
<1>4. HeldInv'
  BY <1>1, <1>3, HeldAlone
<1>5. WriteInv'
  <2>1. \A u \in All : th'[u].at = "write" => th'[u] = th[u]
    BY DEF OnlyMoves
  <2> QED BY <1>1, <2>1, WriteAlone
<1>6. TypeOK'
  BY <1>1 DEF TypeOK, OnlyMoves
<1> QED BY <1>2, <1>4, <1>5, <1>6, HandsNothing DEF ConnInv, Kept

(* frame_read, as far as one step goes.                                     *)
LEMMA ReadStep ==
  ASSUME ConnInv, NEW t \in All, frame_read(t)
  PROVE  Kept
<1>1. TypeOK /\ ThreadInv /\ WireInv
  BY DEF ConnInv
<1>2. Reading(t) /\ th[t].at # "write"
  BY DEF frame_read, ReadTimeout, ReadClosed, Poll, ReadHeader, ReadPayload, Reading
<1>3. ASSUME OnlyMoves(t), th'[t].at # "write" PROVE \A id : Writing(id)' <=> Writing(id)
  BY <1>2, <1>3, WritersSame
<1>4. ASSUME ReadFails(t), UNCHANGED stream PROVE Kept
  <2>1. /\ OnlyMoves(t) /\ th'[t].at \in {"idle", "err", "got"}
        /\ UNCHANGED <<peer, conn>>
    BY <1>1, <1>2, <1>4, ReadFailsEffect
  <2>2. \A id : Writing(id)' => Writing(id)
    BY <1>3, <2>1
  <2>3. /\ WireInv'
        /\ \A m \in Msgs : (Unsent(m) \/ OnWire(m))' => Unsent(m) \/ OnWire(m)
    BY <1>1, <1>4, <2>1, <2>2, WireAlone
  <2>4. stream' \in Seq(Parts)
    BY <1>1, <1>4 DEF TypeOK
  <2> QED BY <1>2, <1>4, <2>3, <2>4, FailsStep
<1>5. ASSUME ReadFails(t), stream # <<>>,
             stream' = Tail(stream) \/ stream' \in AfterGarbage
      PROVE  Kept
  <2>1. /\ OnlyMoves(t) /\ th'[t].at \in {"idle", "err", "got"}
        /\ UNCHANGED <<peer, conn>>
    BY <1>1, <1>2, <1>5, ReadFailsEffect
  <2>2. \A id : Writing(id)' <=> Writing(id)
    BY <1>3, <2>1
  <2>3. /\ stream' \in Seq(Parts) /\ WireInv'
        /\ \A m \in Msgs : (Unsent(m) \/ OnWire(m))' => Unsent(m) \/ OnWire(m)
    BY <1>5, <2>1, <2>2, TakesPart
  <2> QED BY <1>2, <1>5, <2>3, FailsStep
<1>6. ASSUME NEW m \in Msgs, ReadSucceeds(t, m), stream # <<>>, stream' = Tail(stream),
             Head(stream).last, Head(stream).msg = m
      PROVE  Kept
  <2>1. /\ OnlyMoves(t) /\ th'[t].at # "write"
        /\ UNCHANGED <<peer, conn>>
    BY <1>1, <1>2, <1>6, ReadSucceedsEffect
  <2>2. \A id : Writing(id)' <=> Writing(id)
    BY <1>3, <2>1
  <2>3. /\ stream' \in Seq(Parts) /\ WireInv'
        /\ \A x \in Msgs : (Unsent(x) \/ OnWire(x))' => Unsent(x) \/ OnWire(x)
        /\ OnWire(m) /\ ~(Unsent(m) \/ OnWire(m))'
    BY <1>6, <2>1, <2>2, TakesPart
  <2> QED BY <1>2, <1>6, <2>3, SucceedsStep
<1>7. CASE ReadTimeout(t) \/ ReadClosed(t)
  BY <1>4, <1>7 DEF ReadTimeout, ReadClosed
<1>8. CASE Poll(t)
  <2> DEFINE s == [th[t] EXCEPT !.polled = TRUE]
  <2>1. /\ UNCHANGED <<conn, queue, lock, read_lock, stream, peer, due, handed>>
        /\ th[t] \in ThreadStates /\ th' = [th EXCEPT ![t] = s]
    BY <1>1, <1>8 DEF Poll, TypeOK
  <2>2. s \in ThreadStates /\ s.at = th[t].at /\ s.call = th[t].call
    BY <2>1 DEF ThreadStates
  <2> HIDE DEF s
  <2>3. OnlyMoves(t) /\ th'[t].at = th[t].at /\ th'[t].call = th[t].call
    BY <1>1, <2>1, <2>2, Becomes
  <2>4. \A id : Writing(id)' => Writing(id)
    BY <1>2, <1>3, <2>3
  <2>5. /\ WireInv' /\ stream' \in Seq(Parts)
        /\ \A m \in Msgs : (Unsent(m) \/ OnWire(m))' => Unsent(m) \/ OnWire(m)
    BY <1>1, <2>1, <2>4, WireAlone DEF TypeOK
  <2>6. th'[t].at \in {"header", "payload"}
    BY <1>2, <2>3 DEF Reading
  <2> QED BY <1>2, <2>1, <2>3, <2>5, <2>6, ReadsOn
<1>9. CASE ReadHeader(t)
  <2> DEFINE p == Head(stream)
  <2>1. stream # <<>> /\ p \in Parts /\ p.msg \in Msgs
    <3>1. stream # <<>> /\ stream \in Seq(Parts)
      BY <1>1, <1>9 DEF ReadHeader, CanRecv, TypeOK
    <3>2. p \in Parts
      BY <3>1
    <3> QED BY <3>1, <3>2 DEF Parts
  <2>2. CASE p.last /\ stream' = Tail(stream) /\ ReadSucceeds(t, p.msg)
    BY <1>6, <2>1, <2>2
  <2>3. CASE ReadFails(t) /\ (stream' = Tail(stream) \/ stream' \in AfterGarbage)
    BY <1>5, <2>1, <2>3
  <2>4. CASE /\ stream' = Tail(stream)
             /\ th' = [th EXCEPT ![t].at = "payload", ![t].fd = Descriptor,
                                 ![t].polled = FALSE, ![t].msg = p.msg]
             /\ UNCHANGED <<conn, queue, lock, read_lock, peer, due, handed>>
    <3> DEFINE s == [th[t] EXCEPT !.at = "payload", !.fd = Descriptor,
                                  !.polled = FALSE, !.msg = p.msg]
    <3>1. th \in [All -> ThreadStates] /\ th[t] \in ThreadStates
      BY <1>1 DEF TypeOK
    <3>2. s \in ThreadStates /\ s.at = "payload" /\ s.call = th[t].call
      <4>1. p.msg \in Objects
        BY <2>1, NotMsgs
      <4> QED BY <3>1, <4>1 DEF ThreadStates, Descriptor
    <3>3. th' = [th EXCEPT ![t] = s]
      BY <2>4, <3>1
    <3> HIDE DEF s
    <3>4. OnlyMoves(t) /\ th'[t].at = "payload" /\ th'[t].call = th[t].call
      BY <1>1, <3>2, <3>3, Becomes
    <3>5. \A id : Writing(id)' <=> Writing(id)
      BY <1>3, <3>4
    <3>6. /\ stream' \in Seq(Parts) /\ WireInv'
          /\ \A m \in Msgs : (Unsent(m) \/ OnWire(m))' => Unsent(m) \/ OnWire(m)
      BY <2>1, <2>4, <3>5, TakesPart
    <3> QED BY <1>2, <2>4, <3>4, <3>6, ReadsOn
  <2> QED BY <1>9, <2>2, <2>3, <2>4 DEF ReadHeader
<1>10. CASE ReadPayload(t)
  <2>1. stream # <<>> /\ Head(stream) \in Parts
    <3>1. stream # <<>> /\ stream \in Seq(Parts)
      BY <1>1, <1>10 DEF ReadPayload, CanRecv, TypeOK
    <3> QED BY <3>1
  <2>2. CASE ReadFails(t) /\ (stream' = Tail(stream) \/ stream' \in AfterGarbage)
    BY <1>5, <2>1, <2>2
  <2>3. CASE /\ Head(stream) = [msg |-> th[t].msg, first |-> FALSE, last |-> TRUE]
             /\ stream' = Tail(stream) /\ ReadSucceeds(t, th[t].msg)
    <3>1. Head(stream).last /\ Head(stream).msg = th[t].msg
      BY <2>3
    <3>2. th[t].msg \in Msgs
      BY <2>1, <3>1 DEF Parts
    <3> QED BY <1>6, <2>1, <2>3, <3>1, <3>2
  <2> QED BY <1>10, <2>2, <2>3 DEF ReadPayload
<1> QED BY <1>7, <1>8, <1>9, <1>10 DEF frame_read

(* A read of a descriptor that now belongs to something else.               *)
LEMMA RecycledStep ==
  ASSUME ConnInv, NEW t \in All, ReadRecycled(t)
  PROVE  Kept
<1>1. TypeOK /\ ThreadInv /\ WireInv /\ th[t] \in ThreadStates
  BY DEF ConnInv, TypeOK
<1>2. /\ Reading(t) /\ th[t].at # "write" /\ UNCHANGED stream /\ t \in Threads
      /\ t # Reader /\ Placed(t)
  BY <1>1, ConnectionAssumption DEF ReadRecycled, Overtaken, Reading, All, ThreadInv
<1>3. CASE ReadFails(t)
  <2>1. /\ OnlyMoves(t) /\ th'[t].at \in {"idle", "err", "got"} /\ ThreadInv'
        /\ \A m \in Msgs : ~Holding(t, m)'
        /\ read_lock' \in Threads \cup {None}
        /\ UNCHANGED <<conn, queue, lock, peer, due, handed>>
    BY <1>1, <1>2, <1>3, ReadFailsEffect
  <2>2. \A m \in Msgs : ~Holding(t, m)
    BY <1>2 DEF Holding, Reading
  <2> QED BY <1>1, <1>2, <2>1, <2>2, Still DEF TypeOK
<1>4. CASE /\ Unlock(t) /\ UNCHANGED <<conn, queue, lock, peer, due, handed>>
           /\ \/ Returns(t)
              \/ /\ th[t].call = "sync"
                 /\ th' = [th EXCEPT ![t].at = "push", ![t].msg = Foreign]
  <2>1. /\ OnlyMoves(t) /\ th'[t].at # "write" /\ Placed(t)'
        /\ \A m \in Msgs : ~Holding(t, m)'
    <3>1. CASE Returns(t)
      <4>1. OnlyMoves(t) /\ th'[t].at = "idle" /\ th'[t].call = "none"
        BY <1>1, <3>1, ReturnsEffect
      <4> QED BY <4>1 DEF Placed, Holding
    <3>2. CASE /\ th[t].call = "sync"
               /\ th' = [th EXCEPT ![t].at = "push", ![t].msg = Foreign]
      <4> DEFINE s == [th[t] EXCEPT !.at = "push", !.msg = Foreign]
      <4>1. s \in ThreadStates /\ s.at = "push" /\ s.msg = Foreign /\ s.call = "sync"
        <5>1. Foreign \in Objects
          BY DEF Objects
        <5> QED BY <1>1, <3>2, <5>1 DEF ThreadStates
      <4>2. th' = [th EXCEPT ![t] = s]
        BY <1>1, <3>2 DEF TypeOK
      <4> HIDE DEF s
      <4>3. /\ OnlyMoves(t) /\ th'[t].at = "push" /\ th'[t].msg = Foreign
            /\ th'[t].call = "sync"
        BY <1>1, <4>1, <4>2, Becomes
      <4>4. Placed(t)'
        BY <1>2, <3>2, <4>3 DEF Placed, Objects
      <4> QED BY <4>3, <4>4, NotMsgs DEF Holding
    <3> QED BY <1>4, <3>1, <3>2
  <2>2. ThreadInv'
    BY <1>1, <1>2, <1>4, <2>1, UnlockType, Move
  <2>3. \A m \in Msgs : ~Holding(t, m)
    BY <1>2 DEF Holding, Reading
  <2> QED BY <1>1, <1>2, <1>4, <2>1, <2>2, <2>3, Still, UnlockType DEF TypeOK
<1> QED BY <1>3, <1>4 DEF ReadRecycled

(* Taking the message at place i out of the queue.                          *)
TakenAt(i) ==
  /\ queue' \in Seq(Objects) /\ Len(queue') = Len(queue) - 1
  /\ \A k \in 1..(Len(queue) - 1) :
       queue'[k] = IF k < i THEN queue[k] ELSE queue[k + 1]

(* queue_take_reply_locked unlinks one entry and keeps the order of the     *)
(* others; queue_pop_locked is the case i = 1.                              *)
LEMMA Unlinks ==
  ASSUME TypeOK, NEW i \in 1..Len(queue),
         queue' = WithoutAt(queue, i) \/ (i = 1 /\ queue' = Tail(queue))
  PROVE  TakenAt(i)
<1>1. queue \in Seq(Objects) /\ Len(queue) \in Nat
  BY DEF TypeOK
<1>2. CASE i = 1 /\ queue' = Tail(queue)
  BY <1>1, <1>2 DEF TakenAt
<1>3. CASE queue' = WithoutAt(queue, i)
  <2> DEFINE s == SubSeq(queue, 1, i - 1)
             r == SubSeq(queue, i + 1, Len(queue))
  <2>1. s \in Seq(Objects) /\ Len(s) = i - 1 /\ \A k \in 1..(i - 1) : s[k] = queue[k]
    BY <1>1
  <2>2. /\ r \in Seq(Objects) /\ Len(r) = Len(queue) - i
        /\ \A k \in 1..(Len(queue) - i) : r[k] = queue[i + k]
    BY <1>1
  <2>3. queue' = s \o r
    BY <1>3 DEF WithoutAt
  <2> HIDE DEF s, r
  <2>4. /\ queue' \in Seq(Objects) /\ Len(queue') = Len(queue) - 1
        /\ \A k \in 1..(Len(queue) - 1) :
             queue'[k] = IF k <= i - 1 THEN s[k] ELSE r[k - (i - 1)]
    <3>1. s \o r \in Seq(Objects)
      BY <2>1, <2>2
    <3>2. Len(s \o r) = Len(s) + Len(r)
      BY <2>1, <2>2, ConcatProperties
    <3>3. \A k \in 1..(Len(s) + Len(r)) :
            (s \o r)[k] = IF k <= Len(s) THEN s[k] ELSE r[k - Len(s)]
      BY <2>1, <2>2
    <3>4. Len(s) = i - 1 /\ Len(s) + Len(r) = Len(queue) - 1
      BY <1>1, <2>1, <2>2
    <3> QED BY <2>3, <3>1, <3>2, <3>3, <3>4
  <2>5. ASSUME NEW k \in 1..(Len(queue) - 1)
        PROVE  queue'[k] = IF k < i THEN queue[k] ELSE queue[k + 1]
    <3>1. CASE k < i
      BY <1>1, <2>1, <2>4, <3>1
    <3>2. CASE ~(k < i)
      <4>1. k - (i - 1) \in 1..(Len(queue) - i) /\ i + (k - (i - 1)) = k + 1
        BY <1>1, <3>2
      <4> QED BY <1>1, <2>2, <2>4, <3>2, <4>1
    <3> QED BY <3>1, <3>2
  <2> QED BY <2>4, <2>5 DEF TakenAt
<1> QED BY <1>2, <1>3

(* A queued message is handed to a caller: it was held once and is not held *)
(* any more, and the others still are.                                      *)
LEMMA Dequeue ==
  ASSUME ConnInv, NEW i \in 1..Len(queue), TakenAt(i),
         due' = due \ {queue[i]}, conn' = conn,
         \A m \in Msgs : Holders(m)' = Holders(m),
         \A m \in Msgs : (Unsent(m) \/ OnWire(m))' => Unsent(m) \/ OnWire(m)
  PROVE  HeldInv'
<1> SUFFICES ASSUME ~conn.freed PROVE HeldInv'
  BY DEF HeldInv
<1>1. Len(queue) \in Nat
  BY DEF ConnInv, TypeOK
<1>2. ASSUME queue[i] \in Msgs
      PROVE  QueuedAt(queue[i]) = {i} /\ Holders(queue[i]) = {}
  <2>1. i \in QueuedAt(queue[i])
    BY DEF QueuedAt
  <2>2. ~Nowhere(queue[i])
    BY <2>1 DEF Nowhere
  <2>3. HeldOnce(queue[i])
    BY <1>2, <2>2 DEF ConnInv, HeldInv
  <2> QED BY <2>1, <2>3 DEF HeldOnce
<1>3. ASSUME NEW x \in Msgs, x = queue[i] PROVE Nowhere(x)'
  <2>1. ASSUME NEW k \in 1..(Len(queue) - 1), queue'[k] = x PROVE FALSE
    <3>1. CASE k < i
      <4>1. queue[k] = queue[i] /\ k \in 1..Len(queue)
        BY <1>1, <1>3, <2>1, <3>1 DEF TakenAt
      <4> QED BY <1>1, <1>2, <1>3, <3>1, <4>1 DEF QueuedAt
    <3>2. CASE ~(k < i)
      <4>1. queue[k + 1] = queue[i] /\ k + 1 \in 1..Len(queue)
        BY <1>1, <1>3, <2>1, <3>2 DEF TakenAt
      <4> QED BY <1>1, <1>2, <1>3, <3>2, <4>1 DEF QueuedAt
    <3> QED BY <3>1, <3>2
  <2>2. QueuedAt(x)' = {}
    BY <2>1 DEF TakenAt, QueuedAt
  <2>3. Holders(x)' = {}
    BY <1>2, <1>3
  <2> QED BY <2>2, <2>3 DEF Nowhere
<1>4. ASSUME NEW x \in Msgs, x # queue[i]
      PROVE  /\ QueuedAt(x) = {} => QueuedAt(x)' = {}
             /\ \A j : QueuedAt(x) = {j} => \E k : QueuedAt(x)' = {k}
  <2> DEFINE To(j) == IF j < i THEN j ELSE j - 1
  <2>1. ASSUME NEW k \in QueuedAt(x)' PROVE \E j \in QueuedAt(x) : k = To(j)
    <3>1. k \in 1..(Len(queue) - 1) /\ queue'[k] = x
      BY <2>1 DEF QueuedAt, TakenAt
    <3>2. CASE k < i
      <4>1. k \in 1..Len(queue) /\ queue[k] = x
        BY <1>1, <3>1, <3>2 DEF TakenAt
      <4> QED BY <3>2, <4>1 DEF QueuedAt
    <3>3. CASE ~(k < i)
      <4>1. k + 1 \in 1..Len(queue) /\ queue[k + 1] = x /\ k = To(k + 1)
        BY <1>1, <3>1, <3>3 DEF TakenAt
      <4> QED BY <4>1 DEF QueuedAt
    <3> QED BY <3>2, <3>3
  <2>2. ASSUME NEW j \in QueuedAt(x) PROVE To(j) \in QueuedAt(x)'
    <3>1. j \in 1..Len(queue) /\ queue[j] = x /\ j # i
      BY <1>4, <2>2 DEF QueuedAt
    <3>2. To(j) \in 1..(Len(queue) - 1)
      BY <1>1, <3>1
    <3>3. queue'[To(j)] = x
      <4>1. CASE j < i
        BY <1>1, <3>1, <3>2, <4>1 DEF TakenAt
      <4>2. CASE ~(j < i)
        <5>1. ~(To(j) < i) /\ To(j) + 1 = j
          BY <1>1, <3>1, <4>2
        <5> HIDE DEF To
        <5> QED BY <3>1, <3>2, <5>1 DEF TakenAt
      <4> QED BY <4>1, <4>2
    <3> QED BY <3>2, <3>3 DEF QueuedAt, TakenAt
  <2> HIDE DEF To
  <2>3. QueuedAt(x) = {} => QueuedAt(x)' = {}
    BY <2>1
  <2>4. ASSUME NEW j, QueuedAt(x) = {j} PROVE QueuedAt(x)' = {To(j)}
    BY <2>1, <2>2, <2>4
  <2> QED BY <2>3, <2>4
<1>5. ASSUME NEW x \in Msgs, x # queue[i]
      PROVE  (Nowhere(x) => Nowhere(x)') /\ (HeldOnce(x) => HeldOnce(x)')
  BY <1>4, <1>5 DEF Nowhere, HeldOnce
<1>6. ASSUME NEW x \in Msgs
      PROVE  /\ (Unsent(x) \/ OnWire(x))' => x \notin due'
             /\ x \notin due' => Nowhere(x)'
             /\ x \in due' => HeldOnce(x)'
  <2>1. /\ Unsent(x) \/ OnWire(x) => x \notin due
        /\ x \notin due => Nowhere(x)
        /\ x \in due => HeldOnce(x)
    BY DEF ConnInv, HeldInv
  <2>2. CASE x = queue[i]
    BY <1>3, <2>1, <2>2
  <2>3. CASE x # queue[i]
    BY <1>5, <2>1, <2>3
  <2> QED BY <2>2, <2>3
<1> QED BY <1>6 DEF HeldInv

(* The message at place i is handed to the consumer t, which returns.       *)
LEMMA TakesOut ==
  ASSUME ConnInv, NEW t \in Threads, t \in Consumers, NEW i \in 1..Len(queue),
         queue' = WithoutAt(queue, i) \/ (i = 1 /\ queue' = Tail(queue)),
         Hands(queue[i]), Returns(t), th[t].at \notin {"push", "got", "write"},
         th[t].call = "sync" => IsReplyTo(queue[i], th[t].id),
         read_lock' \in Threads \cup {None},
         \A u \in Threads : u # t /\ read_lock = u => read_lock' = u,
         UNCHANGED <<conn, lock, stream, peer>>
  PROVE  Kept
<1>1. TypeOK /\ WireInv /\ ThreadInv /\ WriteInv /\ t \in All /\ t # Reader
  BY ConnectionAssumption DEF ConnInv, All
<1>2. OnlyMoves(t) /\ th'[t].at = "idle" /\ th'[t].call = "none"
  BY <1>1, ReturnsEffect
<1>3. ThreadInv'
  <2>1. Placed(t)'
    BY <1>2 DEF Placed
  <2> QED BY <1>1, <1>2, <2>1, Move
<1>4. TakenAt(i)
  BY <1>1, Unlinks
<1>5. \A id : Writing(id)' <=> Writing(id)
  BY <1>1, <1>2, WritersSame
<1>6. /\ WireInv'
      /\ \A m \in Msgs : (Unsent(m) \/ OnWire(m))' => Unsent(m) \/ OnWire(m)
  BY <1>1, <1>5, WireAlone
<1>7. HeldInv'
  <2>1. \A m \in Msgs : Holders(m)' = Holders(m)
    BY <1>1, <1>2, HoldersSame DEF Holding
  <2> QED BY <1>4, <1>6, <2>1, Dequeue DEF Hands
<1>8. queue[i] \in Objects
  BY <1>1 DEF TypeOK
<1>9. TypeOK'
  BY <1>1, <1>2, <1>4, <1>8 DEF TypeOK, OnlyMoves, TakenAt, Hands
<1>10. WriteInv'
  <2>1. \A u \in All : th'[u].at = "write" => th'[u] = th[u]
    BY <1>2 DEF OnlyMoves
  <2> QED BY <1>1, <2>1, WriteAlone
<1>11. OneConsumer => ReplyMatches
  BY <1>1, <1>2, <1>8, HandsOver
<1> QED BY <1>3, <1>6, <1>7, <1>9, <1>10, <1>11 DEF ConnInv, Kept

(* queue_take_reply_locked.                                                 *)
LEMMA TakeStep ==
  ASSUME ConnInv, NEW t \in All, TakeReply(t)
  PROVE  Kept
<1>1. TypeOK /\ ThreadInv
  BY DEF ConnInv
<1>2. /\ t \in Threads /\ t # Reader /\ Placed(t) /\ th[t].at = "take"
      /\ UNCHANGED <<conn, lock, read_lock, stream, peer>>
  BY <1>1, ConnectionAssumption DEF TakeReply, ThreadInv, ReaderPlaced, ReaderAts, All
<1>3. t \in Consumers /\ th[t].call = "sync"
  BY <1>2 DEF Placed
<1>4. CASE Goto(t, "lock") /\ UNCHANGED <<queue, due, handed>>
  <2>1. OnlyMoves(t) /\ th'[t].at = "lock" /\ th'[t].call = "sync"
    BY <1>1, <1>3, <1>4, GotoEffect DEF Ats
  <2>2. Placed(t)'
    BY <1>3, <2>1 DEF Placed
  <2>3. ThreadInv'
    BY <1>1, <1>2, <2>1, <2>2, Move
  <2>4. \A m \in Msgs : ~Holding(t, m) /\ ~Holding(t, m)'
    BY <1>2, <2>1 DEF Holding
  <2> QED BY <1>1, <1>2, <1>4, <2>1, <2>3, <2>4, Still DEF TypeOK
<1>5. CASE \E i \in 1..Len(queue) : /\ IsReplyTo(queue[i], th[t].id)
                                    /\ queue' = WithoutAt(queue, i)
                                    /\ Hands(queue[i])
                                    /\ Returns(t)
  <2>1. PICK i \in 1..Len(queue) : /\ IsReplyTo(queue[i], th[t].id)
                                   /\ queue' = WithoutAt(queue, i)
                                   /\ Hands(queue[i])
                                   /\ Returns(t)
    BY <1>5
  <2>2. read_lock' \in Threads \cup {None}
    BY <1>1, <1>2 DEF TypeOK
  <2> QED BY <1>2, <1>3, <2>1, <2>2, TakesOut
<1> QED BY <1>4, <1>5 DEF TakeReply

(* queue_pop_locked, from outside and again under read_lock.                *)
LEMMA PopStep ==
  ASSUME ConnInv, NEW t \in Threads, t \in Consumers, Pop(t),
         th[t].at \in {"idle", "enter", "pop"}, th[t].call # "sync",
         read_lock' = read_lock \/ Unlock(t),
         UNCHANGED <<conn, lock, stream, peer>>
  PROVE  Kept
<1>1. TypeOK
  BY DEF ConnInv
<1>2. /\ 1 \in 1..Len(queue) /\ Head(queue) = queue[1]
      /\ queue' = Tail(queue) /\ Returns(t)
      /\ Hands(queue[1])
  <2>1. queue # <<>> /\ queue \in Seq(Objects)
    BY <1>1 DEF TypeOK, Pop
  <2>2. 1 \in 1..Len(queue) /\ Head(queue) = queue[1]
    BY <2>1
  <2> QED BY <2>2 DEF Pop
<1>3. /\ read_lock' \in Threads \cup {None}
      /\ \A u \in Threads : u # t /\ read_lock = u => read_lock' = u
  BY <1>1, UnlockType DEF TypeOK
<1> QED BY <1>2, <1>3, TakesOut

(* A call goes from looking at the queue to reading.                        *)
LEMMA PopAgainStep ==
  ASSUME ConnInv, NEW t \in All, PopAgain(t)
  PROVE  Kept
<1>1. TypeOK /\ ThreadInv
  BY DEF ConnInv
<1>2. /\ t \in Threads /\ Placed(t) /\ th[t].at = "pop" /\ t # Reader
      /\ UNCHANGED <<conn, lock, stream, peer>>
  BY <1>1, ConnectionAssumption DEF PopAgain, ThreadInv, ReaderPlaced, ReaderAts, All
<1>3. t \in Consumers /\ th[t].call \in {"sync", "receive"} /\ th[t].call # "sync"
      /\ read_lock = t
  BY <1>2 DEF Placed
<1>4. CASE Pop(t) /\ Unlock(t)
  BY <1>2, <1>3, <1>4, PopStep
<1>5. CASE EnterRead(t) /\ UNCHANGED <<queue, due, handed, read_lock>>
  <2>1. OnlyMoves(t) /\ th'[t].at = "header" /\ th'[t].call = th[t].call
    BY <1>1, <1>5, EnterReadEffect
  <2>2. Placed(t)'
    BY <1>3, <1>5, <2>1 DEF Placed
  <2>3. ThreadInv'
    BY <1>1, <1>2, <1>5, <2>1, <2>2, Move
  <2>4. \A m \in Msgs : ~Holding(t, m) /\ ~Holding(t, m)'
    BY <1>2, <2>1 DEF Holding
  <2> QED BY <1>1, <1>2, <1>5, <2>1, <2>3, <2>4, Still DEF TypeOK
<1> QED BY <1>4, <1>5 DEF PopAgain

(* read_lock is granted.                                                    *)
LEMMA LockStep ==
  ASSUME ConnInv, NEW t \in All, LockRead(t)
  PROVE  Kept
<1>1. TypeOK /\ ThreadInv
  BY DEF ConnInv
<1>2. /\ t \in Threads /\ Placed(t) /\ th[t].at = "lock" /\ t # Reader /\ read_lock = None
      /\ read_lock' = t
      /\ UNCHANGED <<conn, queue, lock, stream, peer, due, handed>>
  BY <1>1, ConnectionAssumption DEF LockRead, ThreadInv, ReaderPlaced, ReaderAts, All
<1>3. \A u \in Threads : read_lock # u
  BY <1>2, ConnectionAssumption
<1>4. OnlyMoves(t) /\ th'[t].call = th[t].call
      /\ (th'[t].at = "header" \/ (th'[t].at = "pop" /\ th[t].call # "sync"))
  <2>1. CASE EnterRead(t)
    BY <1>1, <2>1, EnterReadEffect
  <2>2. CASE th[t].call # "sync" /\ Goto(t, "pop")
    BY <1>1, <2>2, GotoEffect DEF Ats
  <2> QED BY <2>1, <2>2 DEF LockRead
<1>5. ThreadInv'
  <2>1. Placed(t)'
    BY <1>2, <1>4 DEF Placed
  <2> QED BY <1>1, <1>2, <1>3, <1>4, <2>1, Move
<1>6. \A m \in Msgs : ~Holding(t, m) /\ ~Holding(t, m)'
  BY <1>2, <1>4 DEF Holding
<1> QED BY <1>1, <1>2, <1>4, <1>5, <1>6, Still DEF TypeOK

(* A thread that held m holds nothing any more.                             *)
LEMMA LetsGo ==
  ASSUME NEW t \in All, OnlyMoves(t), NEW m, Holding(t, m),
         th'[t].at \notin {"push", "got"}
  PROVE  /\ \A x : x # m => Holders(x)' = Holders(x)
         /\ Holders(m) = {t} => Holders(m)' = {}
<1>1. ASSUME NEW x, x # m PROVE Holders(x)' = Holders(x)
  <2>1. ~Holding(t, x) /\ ~Holding(t, x)'
    BY <1>1 DEF Holding
  <2> QED BY <2>1, HoldersSame
<1>2. ASSUME Holders(m) = {t}, NEW u \in Holders(m)' PROVE FALSE
  <2>1. u \in All /\ Holding(u, m)' /\ u # t
    BY <1>2 DEF Holders, Holding
  <2>2. u \in Holders(m)
    BY <2>1 DEF Holders, Holding, OnlyMoves
  <2> QED BY <1>2, <2>1, <2>2
<1> QED BY <1>1, <1>2

(* The message t holds is in the queue afterwards, or nobody's.             *)
LEMMA PassedOn ==
  ASSUME ConnInv, NEW t \in All, OnlyMoves(t), NEW m, Holding(t, m),
         th'[t].at \notin {"push", "got"}, UNCHANGED conn,
         \A x \in Msgs : (Unsent(x) \/ OnWire(x))' => Unsent(x) \/ OnWire(x),
         \/ queue' = Append(queue, m) /\ due' = due
         \/ queue' = queue /\ due' = due \ {m}
  PROVE  HeldInv'
<1> SUFFICES ASSUME ~conn.freed, NEW x \in Msgs
             PROVE  /\ (Unsent(x) \/ OnWire(x))' => x \notin due'
                    /\ x \notin due' => Nowhere(x)'
                    /\ x \in due' => HeldOnce(x)'
  BY DEF HeldInv
<1>1. /\ Unsent(x) \/ OnWire(x) => x \notin due
      /\ x \notin due => Nowhere(x)
      /\ x \in due => HeldOnce(x)
  BY DEF ConnInv, HeldInv
<1>2. /\ Len(queue) \in Nat
      /\ queue' = Append(queue, m) =>
           /\ Len(queue') = Len(queue) + 1 /\ queue'[Len(queue) + 1] = m
           /\ \A i \in 1..Len(queue) : queue'[i] = queue[i]
  <2>1. queue \in Seq(Objects)
    BY DEF ConnInv, TypeOK
  <2> QED BY <2>1
<1>3. CASE x # m
  <2>1. QueuedAt(x)' = QueuedAt(x)
    <3>1. CASE queue' = Append(queue, m)
      BY <1>2, <1>3, <3>1 DEF QueuedAt
    <3> QED BY <3>1 DEF QueuedAt
  <2>2. Holders(x)' = Holders(x)
    BY <1>3, LetsGo
  <2> QED BY <1>1, <1>3, <2>1, <2>2 DEF Nowhere, HeldOnce
<1>4. CASE x = m
  <2>1. t \in Holders(x)
    BY <1>4 DEF Holders
  <2>2. x \in due /\ QueuedAt(x) = {} /\ Holders(x) = {t}
    BY <1>1, <2>1 DEF Nowhere, HeldOnce
  <2>3. Holders(x)' = {}
    BY <1>4, <2>2, LetsGo
  <2>4. CASE queue' = Append(queue, m) /\ due' = due
    <3>1. \A i \in 1..Len(queue) : queue[i] # x
      BY <2>2 DEF QueuedAt
    <3>2. QueuedAt(x)' = {Len(queue) + 1}
      BY <1>2, <1>4, <2>4, <3>1 DEF QueuedAt
    <3>3. HeldOnce(x)'
      BY <2>3, <3>2 DEF HeldOnce
    <3> QED BY <1>1, <2>2, <2>4, <3>3
  <2>5. CASE queue' = queue /\ due' = due \ {m}
    <3>1. QueuedAt(x)' = {}
      BY <2>2, <2>5 DEF QueuedAt
    <3> QED BY <1>4, <2>3, <2>5, <3>1 DEF Nowhere
  <2> QED BY <2>4, <2>5
<1> QED BY <1>3, <1>4

(* queue_push_locked: the message the thread held is in the queue once, or  *)
(* struck off.                                                              *)
LEMMA PushStep ==
  ASSUME ConnInv, NEW t \in All, queue_push(t)
  PROVE  Kept
<1> DEFINE a == [th[t] EXCEPT !.at = "take", !.msg = NoMsg]
<1>1. TypeOK /\ ThreadInv /\ WireInv /\ HeldInv /\ WriteInv
  BY DEF ConnInv
<1>2. /\ t \in Threads /\ th[t].at = "push" /\ t # Reader /\ Placed(t)
      /\ UNCHANGED <<conn, lock, read_lock, stream, peer, handed>>
  BY <1>1, ConnectionAssumption DEF queue_push, ThreadInv, ReaderPlaced, ReaderAts, All
<1>3. th \in [All -> ThreadStates] /\ th[t] \in ThreadStates
  BY <1>1 DEF TypeOK
<1>4. PICK m \in Objects : th[t].msg = m
  BY <1>2 DEF Placed
<1>5. a \in ThreadStates /\ a.at = "take" /\ a.call = th[t].call
  BY <1>3 DEF ThreadStates
<1>6. th' = [th EXCEPT ![t] = a]
  BY <1>3 DEF queue_push
<1> HIDE DEF a
<1>7. OnlyMoves(t) /\ th'[t].at = "take" /\ th'[t].call = th[t].call
  BY <1>1, <1>5, <1>6, Becomes
<1>8. ThreadInv'
  <2>1. Placed(t)'
    BY <1>2, <1>7 DEF Placed
  <2> QED BY <1>1, <1>2, <1>7, <2>1, Move
<1>9. \/ queue' = Append(queue, m) /\ due' = due
      \/ queue' = queue /\ due' = due \ {m}
  BY <1>4 DEF queue_push
<1>10. TypeOK'
  <2>1. queue \in Seq(Objects) /\ due \subseteq Objects
    BY <1>1 DEF TypeOK
  <2>2. Append(queue, m) \in Seq(Objects)
    BY <2>1
  <2>3. queue' \in Seq(Objects) /\ due' \subseteq Objects
    BY <1>9, <2>1, <2>2
  <2> QED BY <1>1, <1>2, <1>7, <2>3 DEF TypeOK, OnlyMoves
<1>11. \A id : Writing(id)' <=> Writing(id)
  BY <1>2, <1>7, WritersSame
<1>12. /\ WireInv'
       /\ \A x \in Msgs : (Unsent(x) \/ OnWire(x))' => Unsent(x) \/ OnWire(x)
  BY <1>1, <1>2, <1>11, WireAlone
<1>13. HeldInv'
  <2>1. Holding(t, m)
    BY <1>2, <1>4 DEF Holding
  <2> QED BY <1>2, <1>7, <1>9, <1>12, <2>1, PassedOn
<1>14. WriteInv'
  <2>1. \A u \in All : th'[u].at = "write" => th'[u] = th[u]
    BY <1>7 DEF OnlyMoves
  <2> QED BY <1>1, <1>2, <2>1, WriteAlone
<1> QED BY <1>2, <1>8, <1>10, <1>12, <1>13, <1>14, HandsNothing DEF ConnInv, Kept

(* The call returns after it has reported its error.                        *)
LEMMA SetErrStep ==
  ASSUME ConnInv, NEW t \in All, set_err(t)
  PROVE  Kept
<1>1. TypeOK /\ ThreadInv
  BY DEF ConnInv
<1>2. /\ t # Reader /\ th[t].at = "err" /\ Returns(t)
      /\ UNCHANGED <<conn, queue, lock, read_lock, stream, peer, due, handed>>
  BY <1>1 DEF set_err, ThreadInv, ReaderPlaced, ReaderAts
<1>3. OnlyMoves(t) /\ th'[t].at = "idle" /\ th'[t].call = "none"
  BY <1>1, <1>2, ReturnsEffect
<1>4. ThreadInv'
  <2>1. Placed(t)'
    BY <1>3 DEF Placed
  <2> QED BY <1>1, <1>2, <1>3, <2>1, Move
<1>5. \A m \in Msgs : ~Holding(t, m) /\ ~Holding(t, m)'
  BY <1>2, <1>3 DEF Holding
<1> QED BY <1>1, <1>2, <1>3, <1>4, <1>5, Still DEF TypeOK

-----------------------------------------------------------------------------
(* The reader thread, cancel and release.                                   *)

(* The reader thread gives its message to the handler, or drops it.         *)
LEMMA ReaderGotStep ==
  ASSUME ConnInv, ReaderGot
  PROVE  Kept
<1>1. /\ TypeOK /\ ThreadInv /\ WireInv /\ HeldInv /\ WriteInv
      /\ Reader \in All /\ Reader \notin Threads
  BY ConnectionAssumption DEF ConnInv, All
<1>2. /\ UNCHANGED <<conn, queue, lock, read_lock, stream, peer>>
      /\ th[Reader].at = "got" /\ ReaderPlaced /\ th[Reader] \in ThreadStates
  BY <1>1 DEF ReaderGot, ThreadInv, TypeOK
<1>3. /\ OnlyMoves(Reader) /\ th'[Reader].call = th[Reader].call
      /\ th'[Reader].at \in {"handler", "header", "done"}
  <2>1. CASE Goto(Reader, "handler")
    BY <1>1, <2>1, GotoEffect DEF Ats
  <2>2. CASE Goto(Reader, "done")
    BY <1>1, <2>2, GotoEffect DEF Ats
  <2>3. CASE EnterRead(Reader)
    BY <1>1, <2>3, EnterReadEffect
  <2> QED BY <2>1, <2>2, <2>3 DEF ReaderGot
<1>4. ThreadInv'
  <2>1. ReaderPlaced'
    BY <1>2, <1>3 DEF ReaderPlaced, ReaderAts
  <2> QED BY <1>1, <1>2, <1>3, <2>1, Move
<1>5. CASE th[Reader].msg = NoMsg /\ UNCHANGED <<due, handed>>
  <2>1. \A m \in Msgs : ~Holding(Reader, m) /\ ~Holding(Reader, m)'
    BY <1>3, <1>5, NotMsgs DEF Holding
  <2> QED BY <1>1, <1>2, <1>3, <1>4, <1>5, <2>1, Still DEF TypeOK
<1>6. CASE th[Reader].msg # NoMsg /\ Hands(th[Reader].msg)
  <2>1. PICK m \in Objects : th[Reader].msg = m
    BY <1>2, <1>6 DEF ThreadStates
  <2>2. Hands(m) /\ Holding(Reader, m)
    BY <1>2, <1>6, <2>1 DEF Holding
  <2>3. TypeOK'
    BY <1>1, <1>2, <1>3, <2>2 DEF TypeOK, OnlyMoves, Hands
  <2>4. \A id : Writing(id)' <=> Writing(id)
    BY <1>1, <1>2, <1>3, WritersSame
  <2>5. /\ WireInv'
        /\ \A x \in Msgs : (Unsent(x) \/ OnWire(x))' => Unsent(x) \/ OnWire(x)
    BY <1>1, <1>2, <2>4, WireAlone
  <2>6. HeldInv'
    BY <1>1, <1>2, <1>3, <2>2, <2>5, PassedOn DEF Hands
  <2>7. WriteInv'
    <3>1. \A u \in All : th'[u].at = "write" => th'[u] = th[u]
      BY <1>3 DEF OnlyMoves
    <3> QED BY <1>1, <1>2, <3>1, WriteAlone
  <2>8. OneConsumer => ReplyMatches
    BY <1>1, <1>2, <1>3, <2>2, HandsOver
  <2> QED BY <1>4, <2>3, <2>5, <2>6, <2>7, <2>8 DEF ConnInv, Kept
<1> QED BY <1>5, <1>6 DEF ReaderGot

(* The event handler returns.                                               *)
LEMMA HandlerStep ==
  ASSUME ConnInv, HandlerReturns
  PROVE  Kept
<1>1. TypeOK /\ ThreadInv /\ Reader \in All /\ Reader \notin Threads
  BY ConnectionAssumption DEF ConnInv, All
<1>2. /\ UNCHANGED <<conn, queue, lock, read_lock, stream, peer, due, handed>>
      /\ th[Reader].at = "handler" /\ ReaderPlaced
  BY <1>1 DEF HandlerReturns, ThreadInv
<1>3. OnlyMoves(Reader) /\ th'[Reader].call = th[Reader].call
      /\ th'[Reader].at \in {"done", "header"}
  <2>1. CASE Goto(Reader, "done")
    BY <1>1, <2>1, GotoEffect DEF Ats
  <2>2. CASE EnterRead(Reader)
    BY <1>1, <2>2, EnterReadEffect
  <2> QED BY <2>1, <2>2 DEF HandlerReturns
<1>4. ThreadInv'
  <2>1. ReaderPlaced'
    BY <1>2, <1>3 DEF ReaderPlaced, ReaderAts
  <2> QED BY <1>1, <1>2, <1>3, <2>1, Move
<1>5. \A m \in Msgs : ~Holding(Reader, m) /\ ~Holding(Reader, m)'
  BY <1>2, <1>3 DEF Holding
<1> QED BY <1>1, <1>2, <1>3, <1>4, <1>5, Still DEF TypeOK

(* Going on inside cancel.                                                  *)
LEMMA CancelMoves ==
  ASSUME TypeOK, ThreadInv, NEW t \in All, OnlyMoves(t),
         th[t].at \in {"idle", "enter", "handler", "shutdown", "join", "close", "free"},
         t = Reader => th[t].at # "idle" /\ th'[t].at # "free" /\ th'[t].call # "release",
         conn'.resumed = conn.resumed, conn'.cancelled = conn.cancelled,
         UNCHANGED read_lock,
         \/ /\ th'[t].at \in {"shutdown", "join", "close", "free"}
            /\ th'[t].call \in {"cancel", "release"} \cup ({th[t].call} \ {"sync"})
         \/ t \in Threads /\ th'[t].at = "idle" /\ th'[t].call = "none"
         \/ t = Reader /\ th'[t].at = "handler" /\ th'[t].call = "none"
  PROVE  ThreadInv' /\ \A m \in Msgs : ~Holding(t, m) /\ ~Holding(t, m)'
<1>1. Reader \notin Threads
  BY ConnectionAssumption
<1>2. t \in Threads => Placed(t)'
  <2>1. t \in Threads => Placed(t)
    BY DEF ThreadInv
  <2> QED BY <1>1, <2>1 DEF Placed
<1>3. t = Reader => ReaderPlaced'
  BY <1>1 DEF ThreadInv, ReaderPlaced, ReaderAts
<1>4. ThreadInv'
  BY <1>2, <1>3, Move
<1> QED BY <1>4 DEF Holding

(* pthread_join returns.                                                    *)
LEMMA JoinStep ==
  ASSUME ConnInv, NEW t \in All, Join(t)
  PROVE  Kept
<1>1. TypeOK /\ ThreadInv
  BY DEF ConnInv
<1>2. /\ UNCHANGED <<conn, queue, lock, read_lock, stream, peer, due, handed>>
      /\ th[t].at = "join" /\ Goto(t, "close")
      /\ th[t].call # "sync" /\ (t = Reader => th[t].call # "release")
  BY <1>1 DEF Join, ThreadInv, Placed, ReaderPlaced, All
<1>3. OnlyMoves(t) /\ th'[t].at = "close" /\ th'[t].call = th[t].call
  BY <1>1, <1>2, GotoEffect DEF Ats
<1>4. ThreadInv' /\ \A m \in Msgs : ~Holding(t, m) /\ ~Holding(t, m)'
  BY <1>1, <1>2, <1>3, CancelMoves
<1> QED BY <1>1, <1>2, <1>3, <1>4, Still DEF TypeOK

(* shutdown() on the socket.                                                *)
LEMMA ShutdownStep ==
  ASSUME ConnInv, NEW t \in All, Shutdown(t)
  PROVE  Kept
<1>1. TypeOK /\ ThreadInv
  BY DEF ConnInv
<1>2. /\ UNCHANGED <<queue, lock, read_lock, stream, due, handed>>
      /\ th[t].at = "shutdown" /\ conn' = [conn EXCEPT !.fd = "shut"] /\ peer' = Gone
      /\ \E a \in {"close", "join"} : Goto(t, a)
      /\ th[t].call # "sync" /\ (t = Reader => th[t].call # "release")
  BY <1>1 DEF Shutdown, ThreadInv, Placed, ReaderPlaced, All
<1>3. /\ OnlyMoves(t) /\ th'[t].at \in {"close", "join"}
      /\ th'[t].call = th[t].call
  BY <1>1, <1>2, GotoEffect DEF Ats
<1>4. /\ conn' \in Conns /\ conn'.next_id = conn.next_id /\ conn'.freed = conn.freed
      /\ conn'.resumed = conn.resumed /\ conn'.cancelled = conn.cancelled
  BY <1>1, <1>2 DEF TypeOK, Conns
<1>5. ThreadInv' /\ \A m \in Msgs : ~Holding(t, m) /\ ~Holding(t, m)'
  BY <1>1, <1>2, <1>3, <1>4, CancelMoves
<1> QED BY <1>1, <1>2, <1>3, <1>4, <1>5, Still DEF TypeOK

(* What cancel returns to.                                                  *)
LEMMA CancelReturnsEffect ==
  ASSUME TypeOK, NEW t \in All, NEW call \in {"cancel", "release"} \cup {th[t].call},
         CancelReturns(t, call)
  PROVE  /\ OnlyMoves(t) /\ th'[t].at # "write"
         /\ \/ call = "release" /\ th'[t].at = "free" /\ th'[t].call = "release"
            \/ call # "release" /\ t = Reader /\ th'[t].at = "handler" /\ th'[t].call = "none"
            \/ call # "release" /\ t # Reader /\ th'[t].at = "idle" /\ th'[t].call = "none"
<1>1. CASE call = "release"
  <2>1. th' = [th EXCEPT ![t].at = "free", ![t].call = "release"]
    BY <1>1 DEF CancelReturns
  <2>2. OnlyMoves(t) /\ th'[t].at = "free" /\ th'[t].call = "release"
    BY <2>1, EntersEffect DEF Ats
  <2> QED BY <1>1, <2>2
<1>2. CASE call # "release" /\ t = Reader
  <2>1. th' = [th EXCEPT ![t].at = "handler", ![t].call = "none"]
    BY <1>2 DEF CancelReturns
  <2>2. OnlyMoves(t) /\ th'[t].at = "handler" /\ th'[t].call = "none"
    BY <2>1, EntersEffect DEF Ats
  <2> QED BY <1>2, <2>2
<1>3. CASE call # "release" /\ t # Reader
  <2>1. Returns(t)
    BY <1>3 DEF CancelReturns
  <2> QED BY <1>3, <2>1, ReturnsEffect
<1> QED BY <1>1, <1>2, <1>3

(* close(): what the socket still held is gone.                             *)
LEMMA CloseStep ==
  ASSUME ConnInv, NEW t \in All, Close(t)
  PROVE  Kept
<1>1. TypeOK /\ ThreadInv /\ WireInv /\ HeldInv /\ WriteInv
  BY DEF ConnInv
<1>2. /\ UNCHANGED <<queue, lock, read_lock, peer, due, handed>>
      /\ th[t].at = "close" /\ conn' = [conn EXCEPT !.fd = "closed"]
      /\ stream' = <<>> /\ CancelReturns(t, th[t].call)
      /\ t = Reader => th[t].call # "release"
      /\ t # Reader => t \in Threads
  BY <1>1 DEF Close, ThreadInv, ReaderPlaced, All
<1>3. /\ OnlyMoves(t) /\ th'[t].at # "write"
      /\ \/ th[t].call = "release" /\ th'[t].at = "free" /\ th'[t].call = "release"
         \/ t = Reader /\ th'[t].at = "handler" /\ th'[t].call = "none"
         \/ t # Reader /\ th'[t].at = "idle" /\ th'[t].call = "none"
  BY <1>1, <1>2, CancelReturnsEffect
<1>4. /\ conn' \in Conns /\ conn'.next_id = conn.next_id /\ conn'.freed = conn.freed
      /\ conn'.resumed = conn.resumed /\ conn'.cancelled = conn.cancelled
  BY <1>1, <1>2 DEF TypeOK, Conns
<1>5. ThreadInv' /\ \A m \in Msgs : ~Holding(t, m) /\ ~Holding(t, m)'
  BY <1>1, <1>2, <1>3, <1>4, CancelMoves
<1>6. \A id : Writing(id)' <=> Writing(id)
  BY <1>2, <1>3, WritersSame
<1>7. /\ \A m \in Msgs : (Unsent(m)' <=> Unsent(m)) /\ (OnWire(m)' => OnWire(m))
      /\ \A m \in Msgs : ~LastIn(stream', m) /\ (LastIn(peer.rest, m)' <=> LastIn(peer.rest, m))
  <2>1. 1..Len(stream') = {}
    BY <1>2
  <2> QED BY <1>2, <1>4, <1>6, <2>1 DEF Unsent, OnWire, LastIn
<1>8. WireInv'
  <2>1. \A i \in 1..Len(stream') : FALSE
    BY <1>2
  <2> QED BY <1>1, <1>2, <1>4, <1>7, <2>1 DEF WireInv
<1>9. HeldInv'
  <2>1. \A m \in Msgs : Holders(m)' = Holders(m)
    BY <1>3, <1>5, HoldersSame
  <2> QED BY <1>1, <1>2, <1>4, <1>7, <2>1, HeldAlone
<1>10. WriteInv'
  <2>1. \A u \in All : th'[u].at = "write" => th'[u] = th[u]
    BY <1>3 DEF OnlyMoves
  <2> QED BY <1>1, <1>2, <1>4, <2>1, WriteAlone
<1>11. TypeOK'
  BY <1>1, <1>2, <1>3, <1>4 DEF TypeOK, OnlyMoves
<1> QED BY <1>2, <1>5, <1>8, <1>9, <1>10, <1>11, HandsNothing DEF ConnInv, Kept

(* The rest of release.                                                     *)
LEMMA FreeStep ==
  ASSUME ConnInv, NEW t \in All, Free(t)
  PROVE  Kept
<1>1. TypeOK /\ ThreadInv /\ WireInv /\ WriteInv
  BY DEF ConnInv
<1>2. /\ UNCHANGED <<lock, read_lock, stream, peer, due, handed>>
      /\ conn' = [conn EXCEPT !.freed = TRUE] /\ queue' = <<>>
      /\ th[t].at = "free" /\ Returns(t) /\ t \in Threads /\ t # Reader
  BY <1>1, ConnectionAssumption DEF Free, ThreadInv, ReaderPlaced, ReaderAts, All
<1>3. OnlyMoves(t) /\ th'[t].at = "idle" /\ th'[t].call = "none"
  BY <1>1, <1>2, ReturnsEffect
<1>4. /\ conn' \in Conns /\ conn'.next_id = conn.next_id /\ conn'.freed
      /\ conn'.resumed = conn.resumed /\ conn'.cancelled = conn.cancelled
  BY <1>1, <1>2 DEF TypeOK, Conns
<1>5. ThreadInv'
  BY <1>1, <1>2, <1>3, <1>4, CancelMoves
<1>6. WireInv' /\ HeldInv'
  <2>1. \A id : Writing(id)' <=> Writing(id)
    BY <1>2, <1>3, WritersSame
  <2> QED BY <1>1, <1>2, <1>4, <2>1, WireAlone DEF HeldInv
<1>7. WriteInv'
  <2>1. \A u \in All : th'[u].at = "write" => th'[u] = th[u]
    BY <1>3 DEF OnlyMoves
  <2> QED BY <1>1, <1>2, <1>4, <2>1, WriteAlone
<1>8. TypeOK'
  BY <1>1, <1>2, <1>3, <1>4 DEF TypeOK, OnlyMoves
<1> QED BY <1>2, <1>5, <1>6, <1>7, <1>8, HandsNothing DEF ConnInv, Kept

-----------------------------------------------------------------------------
(* Sending.                                                                 *)

(* The write ends: the peer owes a reply to what it has read, or is gone.   *)
LEMMA WriteStep ==
  ASSUME ConnInv, NEW t \in All, io_write_full(t)
  PROVE  Kept
<1>1. /\ TypeOK /\ ThreadInv /\ WireInv /\ HeldInv /\ WriteInv
      /\ Reader \notin Threads /\ (t \in Threads \/ t = Reader)
  BY ConnectionAssumption DEF ConnInv, All
<1>2. /\ th[t].at = "write" /\ lock' = None /\ th[t] \in ThreadStates
      /\ th \in [All -> ThreadStates]
      /\ UNCHANGED <<conn, queue, read_lock, stream, due, handed>>
  BY <1>1 DEF io_write_full, TypeOK
<1>3. /\ lock = t /\ th[t].id \in 1..MaxSends /\ th[t].id < conn.next_id
      /\ MaxSends \in Nat
  BY <1>1, <1>2, ConnectionAssumption DEF WriteInv
<1> DEFINE a == AfterSend(t, th[t].call, peer.up)
           c == IF th[t].call = "sync" THEN th[t].call ELSE "none"
           id == IF th[t].call = "sync" THEN th[t].id ELSE 0
           s == [th[t] EXCEPT !.at = a, !.call = c, !.id = id]
<1>4. th' = [th EXCEPT ![t] = s]
  BY <1>2 DEF io_write_full
<1>5. a \in {"take", "err", "handler", "idle"}
      /\ (th[t].call = "sync" => a \in {"take", "err"})
      /\ (th[t].call # "sync" => a = IF t = Reader THEN "handler" ELSE "idle")
  BY DEF AfterSend
<1>6. s \in ThreadStates /\ s.at = a /\ s.call = c
  <2>1. id \in 0..MaxSends /\ a \in Ats
    BY <1>3, <1>5 DEF Ats
  <2> HIDE DEF a, id
  <2>2. s \in ThreadStates
    BY <1>2, <2>1 DEF ThreadStates, Ats
  <2>3. s.at = a /\ s.call = c
    BY <1>2 DEF ThreadStates
  <2> QED BY <2>2, <2>3
<1> HIDE DEF s
<1>7. OnlyMoves(t) /\ th'[t].at = a /\ th'[t].call = c
  BY <1>1, <1>4, <1>6, Becomes
<1>8. ThreadInv'
  <2>1. t \in Threads => Placed(t)'
    <3>1. t \in Threads => Placed(t)
      BY <1>1 DEF ThreadInv
    <3> QED BY <1>1, <1>5, <1>7, <3>1 DEF Placed
  <2>2. t = Reader => ReaderPlaced'
    BY <1>1, <1>5, <1>7 DEF ThreadInv, ReaderPlaced, ReaderAts
  <2> QED BY <1>1, <1>2, <1>7, <2>1, <2>2, Move
<1>9. th'[t].at \notin {"write", "push", "got"}
  BY <1>5, <1>7
<1> HIDE DEF a, c, id
<1>10. \A u \in All : u # t => th[u].at # "write" /\ th'[u].at # "write"
  BY <1>1, <1>3, <1>7 DEF WriteInv, OnlyMoves
<1>11. WriteInv' /\ \A i : ~Writing(i)'
  BY <1>9, <1>10 DEF WriteInv, Writing
<1>12. /\ peer' \in Peers /\ peer'.rest = peer.rest /\ peer'.events = peer.events
       /\ peer'.owes \subseteq peer.owes \cup {th[t].id}
  <2>1. peer \in Peers
    BY <1>1 DEF TypeOK
  <2>2. peer' = [peer EXCEPT !.owes = IF peer.up THEN peer.owes \cup {th[t].id}
                                                  ELSE peer.owes]
    BY DEF io_write_full
  <2> QED BY <1>3, <2>1, <2>2 DEF Peers
<1>13. \A m \in Msgs : (Unsent(m)' => Unsent(m)) /\ (OnWire(m)' <=> OnWire(m))
  <2>1. Writing(th[t].id)
    BY <1>2 DEF Writing
  <2> QED BY <1>2, <1>11, <1>12, <2>1 DEF Unsent, OnWire, LastIn
<1>14. WireInv'
  BY <1>1, <1>2, <1>3, <1>12, <1>13 DEF WireInv, LastIn
<1>15. HeldInv'
  <2>1. \A m \in Msgs : Holders(m)' = Holders(m)
    BY <1>2, <1>7, <1>9, HoldersSame DEF Holding
  <2> QED BY <1>1, <1>2, <1>13, <2>1, HeldAlone
<1>16. TypeOK'
  BY <1>1, <1>2, <1>7, <1>12 DEF TypeOK, OnlyMoves
<1> QED BY <1>2, <1>8, <1>11, <1>14, <1>15, <1>16, HandsNothing DEF ConnInv, Kept

(* Sending spends an id, so that the message's reply is still unsent, and   *)
(* either begins the write or fails.                                        *)
LEMMA SendEffect ==
  ASSUME ConnInv, NEW t \in All, NEW call \in {"send", "sync"}, NEW forever \in BOOLEAN,
         th[t].at \in {"idle", "enter", "handler"}, lock = None,
         send_locked(t, call, forever),
         UNCHANGED <<queue, read_lock, stream, peer, due, handed>>,
         t \in Threads => (call = "sync" => t \in Consumers),
         t = Reader => call # "sync" /\ th[t].at = "handler"
  PROVE  Kept
<1>1. /\ TypeOK /\ ThreadInv /\ WireInv /\ HeldInv /\ WriteInv
      /\ conn \in Conns /\ th \in [All -> ThreadStates] /\ th[t] \in ThreadStates
      /\ Reader \notin Threads /\ (t \in Threads \/ t = Reader) /\ t # None
  BY ConnectionAssumption DEF ConnInv, All, TypeOK
<1>2. conn.next_id <= MaxSends /\ conn' = [conn EXCEPT !.next_id = @ + 1]
  BY DEF send_locked
<1>3. conn.next_id \in 1..MaxSends /\ MaxSends \in Nat
  BY <1>1, <1>2, ConnectionAssumption DEF Conns
<1>4. /\ conn' \in Conns /\ conn'.freed = conn.freed /\ conn'.resumed = conn.resumed
      /\ conn'.cancelled = conn.cancelled /\ conn'.next_id = conn.next_id + 1
  BY <1>1, <1>2, <1>3 DEF Conns
<1>5. /\ OnlyMoves(t) /\ lock' \in {t, None}
      /\ \/ /\ th'[t].at = "write" /\ th'[t].call = call
            /\ th'[t].id = conn.next_id /\ lock' = t
         \/ /\ th'[t].at = AfterSend(t, call, FALSE) /\ lock' = None
            /\ th'[t].call = IF call = "sync" THEN call ELSE "none"
  <2>1. CASE /\ lock' = t
             /\ th' = [th EXCEPT ![t].at = "write", ![t].call = call,
                                 ![t].forever = forever, ![t].id = conn.next_id]
    <3> DEFINE s == [th[t] EXCEPT !.at = "write", !.call = call, !.forever = forever,
                                  !.id = conn.next_id]
    <3>1. s \in ThreadStates
      <4>1. conn.next_id \in 0..MaxSends
        BY <1>3
      <4> QED BY <1>1, <4>1 DEF ThreadStates
    <3>2. s.at = "write" /\ s.call = call /\ s.id = conn.next_id
      BY <1>1 DEF ThreadStates
    <3>3. th' = [th EXCEPT ![t] = s]
      BY <1>1, <2>1
    <3> HIDE DEF s
    <3>4. OnlyMoves(t) /\ th'[t] = s
      BY <1>1, <3>1, <3>3, Becomes
    <3> QED BY <2>1, <3>2, <3>4
  <2>2. CASE /\ th' = [th EXCEPT ![t].at = AfterSend(t, call, FALSE),
                            ![t].call = IF call = "sync" THEN call ELSE "none",
                            ![t].forever = forever]
             /\ lock' = lock
    <3>1. AfterSend(t, call, FALSE) \in Ats
      BY DEF AfterSend, Ats
    <3>2. PICK a \in Ats : a = AfterSend(t, call, FALSE)
      BY <3>1
    <3>3. PICK c \in {"none", "sync"} : c = IF call = "sync" THEN call ELSE "none"
      OBVIOUS
    <3>4. th' = [th EXCEPT ![t].at = a, ![t].call = c, ![t].forever = forever]
      BY <2>2, <3>2, <3>3
    <3>5. OnlyMoves(t) /\ th'[t].at = a /\ th'[t].call = c
      BY <1>1, <3>4, EntersEffect
    <3> QED BY <2>2, <3>2, <3>3, <3>5
  <2> QED BY <2>1, <2>2 DEF send_locked
<1>6. /\ call = "sync" => AfterSend(t, call, FALSE) = "err"
      /\ call # "sync" => AfterSend(t, call, FALSE) = IF t = Reader THEN "handler" ELSE "idle"
  BY DEF AfterSend
<1>7. ThreadInv'
  <2>1. t \in Threads => Placed(t)'
    BY <1>1, <1>5, <1>6 DEF Placed
  <2>2. t = Reader => ReaderPlaced'
    BY <1>1, <1>5, <1>6 DEF ReaderPlaced, ReaderAts
  <2> QED BY <1>1, <1>4, <1>5, <2>1, <2>2, Move
<1>8. \A u \in All : u # t => th[u].at # "write" /\ th'[u].at # "write"
  <2>1. \A u \in All : u # None
    BY ConnectionAssumption DEF All
  <2> QED BY <1>1, <1>5, <2>1 DEF WriteInv, OnlyMoves
<1>9. conn.next_id \notin peer.owes
  <2>1. peer.owes \subseteq 1..MaxSends
    BY <1>1 DEF TypeOK, Peers
  <2> QED BY <1>1, <1>3, <2>1 DEF WireInv
<1>10. WriteInv'
  <2>1. ASSUME NEW u \in All, th'[u].at = "write"
        PROVE  /\ lock' = u /\ th'[u].id \in 1..MaxSends
               /\ th'[u].id < conn'.next_id /\ th'[u].id \notin peer'.owes
    <3>1. u = t
      BY <1>8, <2>1
    <3>2. lock' = t /\ th'[t].id = conn.next_id
      BY <1>5, <1>6, <2>1, <3>1
    <3> QED BY <1>3, <1>4, <1>9, <3>1, <3>2
  <2> QED BY <2>1 DEF WriteInv
<1>11. \A id : Writing(id)' => id = conn.next_id
  BY <1>5, <1>6, <1>8 DEF Writing
<1>12. ASSUME NEW m \in Msgs
       PROVE  (Unsent(m)' => Unsent(m)) /\ (OnWire(m)' <=> OnWire(m))
  <2>1. m.msg_id \in Nat
    <3>1. 1..MaxSends \subseteq Nat /\ 1..MaxEvents \subseteq Nat
      BY ConnectionAssumption
    <3>2. m.msg_id \in 1..MaxSends \/ m.msg_id \in 1..MaxEvents
      BY <1>12 DEF Msgs
    <3> QED BY <3>1, <3>2
  <2> QED BY <1>3, <1>4, <1>11, <2>1 DEF Unsent, OnWire, LastIn
<1>13. WireInv'
  <2>1. \A id \in peer'.owes : id < conn'.next_id
    <3>1. peer.owes \subseteq 1..MaxSends
      BY <1>1 DEF TypeOK, Peers
    <3> QED BY <1>1, <1>3, <1>4, <3>1 DEF WireInv
  <2> QED BY <1>1, <1>12, <2>1 DEF WireInv, LastIn
<1>14. HeldInv'
  <2>1. th'[t].at \notin {"push", "got"}
    BY <1>5, <1>6
  <2>2. \A m \in Msgs : Holders(m)' = Holders(m)
    BY <1>5, <2>1, HoldersSame DEF Holding
  <2> QED BY <1>1, <1>4, <1>12, <2>2, HeldAlone
<1>15. TypeOK'
  BY <1>1, <1>4, <1>5 DEF TypeOK, OnlyMoves
<1> QED BY <1>7, <1>10, <1>13, <1>14, <1>15, HandsNothing DEF ConnInv, Kept

-----------------------------------------------------------------------------
(* What the process calls.                                                  *)

(* send_message, from outside and from the event handler.                   *)
LEMMA SendStep ==
  ASSUME ConnInv, NEW t \in All, catbsd_xpc_connection_send_message(t)
  PROVE  Kept
<1>1. /\ UNCHANGED <<queue, read_lock, stream, peer, due, handed>>
      /\ send_locked(t, "send", TRUE) /\ lock = None
      /\ th[t].at \in {"idle", "enter", "handler"}
      /\ t = Reader => th[t].at = "handler"
  BY ConnectionAssumption
     DEF catbsd_xpc_connection_send_message, CanSend, CanCall
<1> QED BY <1>1, SendEffect

(* A call waits for c->lock.                                                *)
LEMMA WaitsStep ==
  ASSUME ConnInv, NEW t \in All, NEW call \in {"sync", "receive", "cancel", "release"},
         NEW forever \in BOOLEAN, Waits(t, call, forever),
         th[t].at \in {"idle", "enter", "handler"},
         call \in {"sync", "receive"} => t \in Consumers,
         t = Reader => call = "cancel" /\ th[t].at = "handler"
  PROVE  Kept
<1>1. /\ TypeOK /\ ThreadInv /\ Reader \notin Threads
      /\ UNCHANGED <<conn, queue, lock, read_lock, stream, peer, due, handed>>
  BY ConnectionAssumption DEF ConnInv, Waits
<1>2. OnlyMoves(t) /\ th'[t].at = "enter" /\ th'[t].call = call
  <2>1. th' = [th EXCEPT ![t].at = "enter", ![t].call = call, ![t].forever = forever]
    BY DEF Waits
  <2>2. PICK c \in {"none", "send", "sync", "receive", "cancel", "release"} : c = call
    OBVIOUS
  <2>3. PICK a \in Ats : a = "enter"
    BY DEF Ats
  <2>4. th' = [th EXCEPT ![t].at = a, ![t].call = c, ![t].forever = forever]
    BY <2>1, <2>2, <2>3
  <2>5. OnlyMoves(t) /\ th'[t].at = a /\ th'[t].call = c
    BY <1>1, <2>4, EntersEffect
  <2> QED BY <2>2, <2>3, <2>5
<1>3. ThreadInv'
  <2>1. t \in Threads => Placed(t)'
    BY <1>2 DEF Placed
  <2>2. t = Reader => ReaderPlaced'
    BY <1>2 DEF ReaderPlaced, ReaderAts
  <2> QED BY <1>1, <1>2, <2>1, <2>2, Move
<1>4. \A m \in Msgs : ~Holding(t, m) /\ ~Holding(t, m)'
  BY <1>2 DEF Holding
<1> QED BY <1>1, <1>2, <1>3, <1>4, Still DEF TypeOK

(* A call is refused.                                                       *)
LEMMA RefusedStep ==
  ASSUME ConnInv, NEW t \in Threads, th[t].at \in {"idle", "enter"}, Returns(t),
         UNCHANGED <<conn, queue, lock, read_lock, stream, peer, due, handed>>
  PROVE  Kept
<1>1. TypeOK /\ ThreadInv /\ t \in All /\ t # Reader
  BY ConnectionAssumption DEF ConnInv, All
<1>2. OnlyMoves(t) /\ th'[t].at = "idle" /\ th'[t].call = "none"
  BY <1>1, ReturnsEffect
<1>3. ThreadInv' /\ \A m \in Msgs : ~Holding(t, m) /\ ~Holding(t, m)'
  BY <1>1, <1>2, CancelMoves
<1> QED BY <1>1, <1>2, <1>3, Still DEF TypeOK

(* The first half of send_message_with_reply_sync.                          *)
LEMMA SendSyncStep ==
  ASSUME ConnInv, NEW t \in Consumers, NEW forever \in BOOLEAN, SendSync(t, forever)
  PROVE  Kept
<1>1. /\ t \in All /\ t \in Threads /\ t # Reader
      /\ th[t].at \in {"idle", "enter"} /\ lock = None
      /\ UNCHANGED <<queue, read_lock, stream, peer, due, handed>>
  BY ConnectionAssumption DEF All, SendSync, Enters, CanCall
<1>2. CASE Returns(t) /\ UNCHANGED <<conn, lock>>
  BY <1>1, <1>2, RefusedStep
<1>3. CASE send_locked(t, "sync", forever)
  BY <1>1, <1>3, SendEffect
<1> QED BY <1>2, <1>3 DEF SendSync

(* receive_message, up to read_lock.                                        *)
LEMMA ReceiveStep ==
  ASSUME ConnInv, NEW t \in Consumers, NEW forever \in BOOLEAN,
         catbsd_xpc_connection_receive_message(t, forever)
  PROVE  Kept
<1>1. TypeOK /\ ThreadInv /\ t \in All /\ t \in Threads /\ t # Reader /\ Placed(t)
  BY ConnectionAssumption DEF ConnInv, All, ThreadInv
<1>2. /\ UNCHANGED <<conn, lock, read_lock, stream, peer>>
      /\ th[t].at \in {"idle", "enter"} /\ th[t].call # "sync"
  <2>1. /\ UNCHANGED <<conn, lock, read_lock, stream, peer>>
        /\ th[t].at = "idle" \/ (th[t].at = "enter" /\ th[t].call = "receive")
    BY DEF catbsd_xpc_connection_receive_message, Enters, CanCall
  <2> QED BY <1>1, <2>1 DEF Placed
<1>3. CASE Returns(t) /\ UNCHANGED <<queue, due, handed>>
  BY <1>1, <1>2, <1>3, RefusedStep
<1>4. CASE Pop(t)
  BY <1>1, <1>2, <1>4, PopStep
<1>5. CASE /\ th' = [th EXCEPT ![t].at = "lock", ![t].call = "receive",
                               ![t].forever = forever]
           /\ UNCHANGED <<queue, due, handed>>
  <2>1. OnlyMoves(t) /\ th'[t].at = "lock" /\ th'[t].call = "receive"
    BY <1>1, <1>5, EntersEffect DEF Ats
  <2>2. Placed(t)'
    BY <2>1 DEF Placed
  <2>3. ThreadInv'
    BY <1>1, <1>2, <2>1, <2>2, Move
  <2>4. \A m \in Msgs : ~Holding(t, m) /\ ~Holding(t, m)'
    BY <1>2, <2>1 DEF Holding
  <2> QED BY <1>1, <1>2, <1>5, <2>1, <2>3, <2>4, Still DEF TypeOK
<1> QED BY <1>3, <1>4, <1>5 DEF catbsd_xpc_connection_receive_message

(* set_event_handler.                                                       *)
LEMMA SetHandlerStep ==
  ASSUME ConnInv, NEW t \in All, catbsd_xpc_connection_set_event_handler(t)
  PROVE  Kept
<1>1. TypeOK /\ ThreadInv
  BY DEF ConnInv
<1>2. /\ UNCHANGED <<queue, lock, read_lock, th, stream, peer, due, handed>>
      /\ th[t].at = "idle" /\ conn' = [conn EXCEPT !.handler = TRUE]
  BY DEF catbsd_xpc_connection_set_event_handler, CanCall
<1>3. /\ conn' \in Conns /\ conn'.next_id = conn.next_id /\ conn'.freed = conn.freed
      /\ conn'.resumed = conn.resumed /\ conn'.cancelled = conn.cancelled
  BY <1>1, <1>2 DEF TypeOK, Conns
<1>4. OnlyMoves(t) /\ ThreadInv'
  BY <1>1, <1>2, <1>3 DEF OnlyMoves, ThreadInv, TypeOK, Placed, ReaderPlaced
<1>5. \A m \in Msgs : ~Holding(t, m) /\ ~Holding(t, m)'
  BY <1>2 DEF Holding
<1> QED BY <1>1, <1>2, <1>3, <1>4, <1>5, Still DEF TypeOK

(* resume: no reader thread runs, though a call may be about to read.       *)
LEMMA ResumeStep ==
  ASSUME ConnInv, NEW t \in All, catbsd_xpc_connection_resume(t)
  PROVE  Kept
<1>1. TypeOK /\ ThreadInv /\ Reader \in All /\ Reader \notin Threads
      /\ Threads \subseteq All
  BY ConnectionAssumption DEF ConnInv, All
<1>2. /\ UNCHANGED <<queue, lock, read_lock, stream, peer, due, handed>>
      /\ conn' = [conn EXCEPT !.resumed = TRUE] /\ EnterRead(Reader)
      /\ th[Reader].at = "idle"
  BY <1>1 DEF catbsd_xpc_connection_resume, ThreadInv
<1>3. /\ conn' \in Conns /\ conn'.next_id = conn.next_id /\ conn'.freed = conn.freed
      /\ conn'.resumed
  BY <1>1, <1>2 DEF TypeOK, Conns
<1>4. /\ OnlyMoves(Reader) /\ th'[Reader].at = "header"
      /\ th'[Reader].call = th[Reader].call
  BY <1>1, <1>2, EnterReadEffect
<1>5. ThreadInv'
  <2>1. ASSUME NEW u \in Threads PROVE Placed(u)'
    <3>1. th'[u] = th[u] /\ Placed(u)
      BY <1>1, <1>4 DEF OnlyMoves, ThreadInv
    <3> QED BY <1>2, <3>1 DEF Placed
  <2>2. ReaderPlaced'
    BY <1>1, <1>4 DEF ThreadInv, ReaderPlaced, ReaderAts
  <2> QED BY <1>3, <2>1, <2>2 DEF ThreadInv
<1>6. \A m \in Msgs : ~Holding(Reader, m) /\ ~Holding(Reader, m)'
  BY <1>2, <1>4 DEF Holding
<1> QED BY <1>1, <1>2, <1>3, <1>4, <1>5, <1>6, Still DEF TypeOK

(* cancel sets the flag; a second call returns, a second release goes       *)
(* straight to the end.                                                     *)
LEMMA CancelStep ==
  ASSUME ConnInv, NEW t \in All, NEW call \in {"cancel", "release"},
         call = "release" => t # Reader, th[t].at \in {"idle", "enter", "handler"},
         t = Reader => th[t].at # "idle", catbsd_xpc_connection_cancel(t, call)
  PROVE  Kept
<1>1. TypeOK /\ ThreadInv /\ Reader \in All /\ Reader \notin Threads
      /\ Threads \subseteq All /\ (t \in Threads \/ t = Reader)
  BY ConnectionAssumption DEF ConnInv, All
<1>2. UNCHANGED <<queue, lock, read_lock, stream, peer, due, handed>>
  BY DEF catbsd_xpc_connection_cancel
<1>3. CASE CancelReturns(t, call) /\ UNCHANGED conn
  <2>1. /\ OnlyMoves(t) /\ th'[t].at # "write"
        /\ \/ call = "release" /\ th'[t].at = "free" /\ th'[t].call = "release"
           \/ t = Reader /\ th'[t].at = "handler" /\ th'[t].call = "none"
           \/ t # Reader /\ th'[t].at = "idle" /\ th'[t].call = "none"
    BY <1>1, <1>3, CancelReturnsEffect
  <2>2. ThreadInv' /\ \A m \in Msgs : ~Holding(t, m) /\ ~Holding(t, m)'
    BY <1>1, <1>2, <1>3, <2>1, CancelMoves
  <2> QED BY <1>1, <1>2, <1>3, <2>1, <2>2, Still DEF TypeOK
<1>4. CASE /\ conn' = [conn EXCEPT !.cancelled = TRUE, !.resumed = FALSE]
           /\ th' = [th EXCEPT ![t].at = "shutdown", ![t].call = call]
  <2>1. OnlyMoves(t) /\ th'[t].at = "shutdown" /\ th'[t].call = call
    <3>1. TRUE \in BOOLEAN
      OBVIOUS
    <3> QED BY <1>1, <1>4, <3>1, EntersEffect DEF Ats
  <2>2. /\ conn' \in Conns /\ conn'.next_id = conn.next_id
        /\ conn'.freed = conn.freed /\ conn'.cancelled
    BY <1>1, <1>4 DEF TypeOK, Conns
  <2>3. ThreadInv'
    <3>1. ASSUME NEW u \in Threads PROVE Placed(u)'
      <4>1. CASE u = t
        BY <2>1, <4>1 DEF Placed
      <4>2. CASE u # t
        <5>1. th'[u] = th[u] /\ Placed(u)
          BY <1>1, <2>1, <4>2 DEF OnlyMoves, ThreadInv
        <5> QED BY <1>2, <5>1 DEF Placed
      <4> QED BY <4>1, <4>2
    <3>2. ReaderPlaced'
      <4>1. CASE t = Reader
        BY <2>1, <4>1 DEF ReaderPlaced, ReaderAts
      <4>2. CASE t # Reader
        <5>1. th'[Reader] = th[Reader]
          BY <1>1, <2>1, <4>2 DEF OnlyMoves
        <5> QED BY <1>1, <5>1 DEF ThreadInv, ReaderPlaced
      <4> QED BY <4>1, <4>2
    <3> QED BY <2>2, <3>1, <3>2 DEF ThreadInv
  <2>4. \A m \in Msgs : ~Holding(t, m) /\ ~Holding(t, m)'
    BY <2>1 DEF Holding
  <2> QED BY <1>1, <1>2, <2>1, <2>2, <2>3, <2>4, Still DEF TypeOK
<1> QED BY <1>3, <1>4 DEF catbsd_xpc_connection_cancel

(* A call that has waited for c->lock goes on.                              *)
LEMMA EnterGoesOn ==
  ASSUME ConnInv, NEW t \in All, EnterStep(t)
  PROVE  Kept
<1>1. /\ TypeOK /\ ThreadInv /\ Reader \notin Threads /\ (t \in Threads \/ t = Reader)
      /\ th[t].at = "enter" /\ th[t].forever \in BOOLEAN
  BY ConnectionAssumption DEF ConnInv, TypeOK, All, ThreadStates, EnterStep
<1>2. /\ th[t].call \in {"sync", "receive", "cancel", "release"}
      /\ th[t].call \in {"sync", "receive"} => t \in Consumers
      /\ t = Reader => th[t].call = "cancel"
  BY <1>1 DEF ThreadInv, Placed, ReaderPlaced
<1>3. PICK forever \in BOOLEAN : forever = th[t].forever
  BY <1>1
<1>4. PICK call \in {"sync", "receive", "cancel", "release"} : call = th[t].call
  BY <1>2
<1>5. CASE call = "sync"
  <2>1. SendSync(t, forever)
    BY <1>3, <1>4, <1>5 DEF EnterStep
  <2> QED BY <1>2, <1>4, <1>5, <2>1, SendSyncStep
<1>6. CASE call = "receive"
  <2>1. catbsd_xpc_connection_receive_message(t, forever)
    BY <1>3, <1>4, <1>6 DEF EnterStep
  <2> QED BY <1>2, <1>4, <1>6, <2>1, ReceiveStep
<1>7. CASE call \in {"cancel", "release"}
  <2>1. catbsd_xpc_connection_cancel(t, call)
    BY <1>4, <1>7 DEF EnterStep
  <2> QED BY <1>1, <1>2, <1>4, <1>7, <2>1, CancelStep
<1> QED BY <1>5, <1>6, <1>7

-----------------------------------------------------------------------------
(* The peer.                                                                *)

(* One more part is in the socket.                                          *)
LEMMA Appended ==
  ASSUME TypeOK, WireInv, NEW p \in Parts, Arrives(p),
         p.last => ~LastIn(stream, p.msg)
  PROVE  /\ stream' \in Seq(Parts)
         /\ \A m \in Msgs : LastIn(stream', m) <=> LastIn(stream, m) \/ (p.last /\ p.msg = m)
         /\ \A i, j \in 1..Len(stream') :
              stream'[i].last /\ stream'[j].last /\ stream'[i].msg = stream'[j].msg
                => i = j
<1>1. /\ stream' \in Seq(Parts) /\ Len(stream) \in Nat
      /\ Len(stream') = Len(stream) + 1 /\ stream'[Len(stream) + 1] = p
      /\ \A i \in 1..Len(stream) : stream'[i] = stream[i]
  BY DEF TypeOK, Arrives
<1>2. 1..Len(stream') = 1..Len(stream) \cup {Len(stream) + 1}
  BY <1>1
<1>3. \A m \in Msgs : LastIn(stream', m) <=> LastIn(stream, m) \/ (p.last /\ p.msg = m)
  BY <1>1, <1>2 DEF LastIn
<1>4. ASSUME NEW i \in 1..Len(stream'), NEW j \in 1..Len(stream'),
             stream'[i].last, stream'[j].last, stream'[i].msg = stream'[j].msg
      PROVE  i = j
  <2>1. CASE i \in 1..Len(stream) /\ j \in 1..Len(stream)
    BY <1>1, <1>4, <2>1 DEF WireInv
  <2>2. CASE i = Len(stream) + 1 /\ j \in 1..Len(stream)
    BY <1>1, <1>4, <2>2 DEF LastIn
  <2>3. CASE j = Len(stream) + 1 /\ i \in 1..Len(stream)
    BY <1>1, <1>4, <2>3 DEF LastIn
  <2> QED BY <1>2, <1>4, <2>1, <2>2, <2>3
<1> QED BY <1>1, <1>3, <1>4

(* What the peer does moves no thread.                                      *)
LEMMA PeerActs ==
  ASSUME ConnInv, UNCHANGED <<conn, queue, lock, read_lock, th, due, handed>>,
         stream' \in Seq(Parts), peer' \in Peers, peer'.owes \subseteq peer.owes, WireInv',
         \A m \in Msgs : (Unsent(m) \/ OnWire(m))' => Unsent(m) \/ OnWire(m)
  PROVE  Kept
<1>1. TypeOK /\ ThreadInv /\ HeldInv /\ WriteInv
  BY DEF ConnInv
<1>2. TypeOK'
  BY <1>1 DEF TypeOK
<1>3. ThreadInv'
  <2>1. ASSUME NEW t \in Threads PROVE Placed(t)'
    <3>1. Placed(t)
      BY <1>1 DEF ThreadInv
    <3> QED BY <3>1 DEF Placed
  <2>2. ReaderPlaced'
    BY <1>1 DEF ThreadInv, ReaderPlaced
  <2> QED BY <1>1, <2>1, <2>2 DEF ThreadInv
<1>4. WriteInv'
  BY <1>1, WriteAlone
<1>5. HeldInv'
  <2>1. \A m \in Msgs : Holders(m)' = Holders(m)
    BY DEF Holders, Holding
  <2> QED BY <1>1, <2>1, HeldAlone
<1> QED BY <1>2, <1>3, <1>4, <1>5, HandsNothing DEF ConnInv, Kept

(* The peer writes the whole or the beginning of m, which it had not sent.  *)
LEMMA WritesStep ==
  ASSUME ConnInv, NEW m \in Msgs, Unsent(m), Writes(m),
         ~m.is_reply => m.msg_id = peer.events + 1 /\ peer.events < MaxEvents,
         m.is_reply => m.msg_id \in peer.owes
  PROVE  Kept
<1>1. TypeOK /\ ThreadInv /\ WireInv /\ HeldInv /\ WriteInv /\ peer \in Peers
  BY DEF ConnInv, TypeOK
<1>2. /\ peer.rest = <<>> /\ UNCHANGED <<conn, queue, lock, read_lock, th, due, handed>>
  BY DEF Writes
<1> DEFINE one == [msg |-> m, first |-> TRUE, last |-> TRUE]
           two == [msg |-> m, first |-> TRUE, last |-> FALSE]
           end == [msg |-> m, first |-> FALSE, last |-> TRUE]
<1>3. /\ one \in Parts /\ one.msg = m /\ one.last
      /\ two \in Parts /\ two.msg = m /\ ~two.last
      /\ end \in Parts /\ end.msg = m /\ end.last
  BY DEF Parts
<1>4. PICK f \in {<<one>>, <<two, end>>} :
        /\ Arrives(Head(f))
        /\ peer' = [peer EXCEPT !.rest = Tail(f),
                      !.owes = IF m.is_reply THEN @ \ {m.msg_id} ELSE @,
                      !.events = IF m.is_reply THEN @ ELSE @ + 1]
  BY DEF Writes, Frame
<1> HIDE DEF one, two, end
<1> DEFINE p == Head(f)
           r == Tail(f)
<1>5. /\ peer'.rest = r /\ Len(r) <= 1 /\ r \in Seq(Parts)
      /\ p.msg = m /\ p \in Parts
      /\ \A x \in Msgs : LastIn(r, x) <=> (~p.last /\ x = m)
  <2>1. CASE f = <<one>>
    <3>1. p = one /\ r = <<>> /\ Len(r) = 0
      BY <2>1
    <3>2. peer'.rest = r
      BY <1>1, <1>4 DEF Peers
    <3> HIDE DEF p, r
    <3>3. r \in Seq(Parts)
      BY <3>1
    <3>4. \A x \in Msgs : ~LastIn(r, x)
      BY <3>1 DEF LastIn
    <3> QED BY <1>3, <3>1, <3>2, <3>3, <3>4
  <2>2. CASE f = <<two, end>>
    <3>1. p = two /\ r = <<end>>
      BY <2>2
    <3>2. peer'.rest = r
      BY <1>1, <1>4 DEF Peers
    <3> HIDE DEF p, r
    <3>3. r \in Seq(Parts) /\ Len(r) = 1 /\ r[1] = end
      BY <1>3, <3>1
    <3>4. \A x \in Msgs : LastIn(r, x) <=> x = m
      BY <1>3, <3>3 DEF LastIn
    <3> QED BY <1>3, <3>1, <3>2, <3>3, <3>4
  <2> QED BY <1>4, <2>1, <2>2
<1>6. ~OnWire(m) /\ ~LastIn(stream, m)
  BY <1>1 DEF WireInv, OnWire
<1>7. /\ stream' \in Seq(Parts)
      /\ \A x \in Msgs : LastIn(stream', x) <=> LastIn(stream, x) \/ (p.last /\ m = x)
      /\ \A i, j \in 1..Len(stream') :
           stream'[i].last /\ stream'[j].last /\ stream'[i].msg = stream'[j].msg
             => i = j
  BY <1>1, <1>4, <1>5, <1>6, Appended
<1>8. /\ peer' \in Peers
      /\ peer'.owes = IF m.is_reply THEN peer.owes \ {m.msg_id} ELSE peer.owes
      /\ peer'.events = IF m.is_reply THEN peer.events ELSE peer.events + 1
  <2>1. peer.events \in 0..MaxEvents /\ peer.owes \subseteq 1..MaxSends /\ MaxEvents \in Nat
    BY <1>1, ConnectionAssumption DEF Peers
  <2>2. ~m.is_reply => peer.events + 1 \in 0..MaxEvents
    BY <2>1
  <2> QED BY <1>1, <1>4, <1>5, <2>1, <2>2 DEF Peers
<1> HIDE DEF p, r
<1>9. ~Unsent(m)' /\ \A x \in Msgs : Unsent(x)' => Unsent(x)
  <2>1. /\ peer.events \in Nat /\ \A x \in Msgs : x.msg_id \in Nat
        /\ \A x \in Msgs : x.is_reply \in BOOLEAN
    <3>1. 1..MaxSends \subseteq Nat /\ 1..MaxEvents \subseteq Nat /\ 0..MaxEvents \subseteq Nat
      BY ConnectionAssumption
    <3>2. \A x \in Msgs : x.msg_id \in 1..MaxSends \/ x.msg_id \in 1..MaxEvents
      BY DEF Msgs
    <3> QED BY <1>1, <3>1, <3>2 DEF Peers, Msgs
  <2>2. conn.next_id \in Nat /\ \A id \in peer.owes : id < conn.next_id /\ id \in Nat
    BY <1>1, ConnectionAssumption DEF TypeOK, Conns, WireInv, Peers
  <2>3. /\ \A id : Writing(id)' <=> Writing(id)
        /\ m.is_reply => ~Writing(m.msg_id)
    BY <1>1, <1>2 DEF Writing, WriteInv
  <2>4. CASE m.is_reply
    BY <1>2, <1>8, <2>1, <2>2, <2>3, <2>4 DEF Unsent
  <2>5. CASE ~m.is_reply
    BY <1>2, <1>8, <2>1, <2>2, <2>3, <2>5 DEF Unsent
  <2> QED BY <2>4, <2>5
<1>10. \A x \in Msgs : x # m => (OnWire(x)' => OnWire(x))
  BY <1>5, <1>7 DEF OnWire
<1>11. WireInv'
  <2>1. \A id \in peer'.owes : id < conn'.next_id
    BY <1>1, <1>2, <1>8 DEF WireInv
  <2>2. \A x \in Msgs : ~(LastIn(stream', x) /\ LastIn(peer'.rest, x))
    BY <1>5, <1>6, <1>7
  <2>3. \A x \in Msgs : Unsent(x)' => ~OnWire(x)'
    BY <1>1, <1>9, <1>10 DEF WireInv
  <2> QED BY <1>5, <1>7, <2>1, <2>2, <2>3 DEF WireInv
<1>12. \A x \in Msgs : (Unsent(x) \/ OnWire(x))' => Unsent(x) \/ OnWire(x)
  BY <1>9, <1>10
<1>13. peer'.owes \subseteq peer.owes
  BY <1>8
<1> QED BY <1>2, <1>7, <1>8, <1>11, <1>12, <1>13, PeerActs

(* A message the peer is about to write was not sent before.                *)
LEMMA PeerWritesStep ==
  ASSUME ConnInv, PeerReplies \/ PeerSends
  PROVE  Kept
<1>1. peer \in Peers /\ MaxEvents \in Nat
  BY ConnectionAssumption DEF ConnInv, TypeOK
<1>2. CASE PeerReplies
  <2>1. PICK id \in peer.owes : Writes([is_reply |-> TRUE, msg_id |-> id])
    BY <1>2 DEF PeerReplies
  <2> DEFINE m == [is_reply |-> TRUE, msg_id |-> id]
  <2>2. m \in Msgs /\ m.is_reply /\ m.msg_id = id /\ Writes(m)
    BY <1>1, <2>1 DEF Msgs, Peers
  <2> HIDE DEF m
  <2>3. Unsent(m)
    BY <2>2 DEF Unsent
  <2> QED BY <2>2, <2>3, WritesStep
<1>3. CASE PeerSends
  <2> DEFINE m == [is_reply |-> FALSE, msg_id |-> peer.events + 1]
  <2>1. peer.events \in Nat /\ peer.events < MaxEvents /\ Writes(m)
    BY <1>1, <1>3 DEF PeerSends, Peers
  <2>2. peer.events + 1 \in 1..MaxEvents
    BY <1>1, <2>1
  <2>3. m \in Msgs /\ ~m.is_reply /\ m.msg_id = peer.events + 1
    BY <2>2 DEF Msgs
  <2> HIDE DEF m
  <2>4. Unsent(m)
    BY <2>1, <2>3 DEF Unsent
  <2> QED BY <2>1, <2>3, <2>4, WritesStep
<1> QED BY <1>2, <1>3

(* The payload the peer held back arrives.                                  *)
LEMMA PeerGoesOnStep ==
  ASSUME ConnInv, PeerGoesOn
  PROVE  Kept
<1> DEFINE p == Head(peer.rest)
<1>1. TypeOK /\ ThreadInv /\ WireInv /\ HeldInv /\ peer \in Peers
  BY DEF ConnInv, TypeOK
<1>2. /\ peer.rest # <<>> /\ Arrives(p) /\ peer' = [peer EXCEPT !.rest = Tail(@)]
      /\ UNCHANGED <<conn, queue, lock, read_lock, th, due, handed>>
  BY DEF PeerGoesOn
<1>3. peer.rest \in Seq(Parts) /\ Len(peer.rest) <= 1
  BY <1>1 DEF Peers, WireInv
<1>4. Len(peer.rest) = 1 /\ p = peer.rest[1] /\ p \in Parts /\ Tail(peer.rest) = <<>>
  <2>1. PICK s \in Seq(Parts) : s = peer.rest
    BY <1>3
  <2>2. s # <<>> /\ Len(s) = 1
    <3>1. s # <<>> /\ Len(s) <= 1
      BY <1>2, <1>3, <2>1
    <3> QED BY <3>1, EmptySeq
  <2>3. Tail(s) \in Seq(Parts) /\ Len(Tail(s)) = 0
    BY <2>2
  <2>4. Tail(s) = <<>>
    BY <2>3, EmptySeq
  <2>5. Head(s) = s[1] /\ s[1] \in Parts
    BY <2>2
  <2> QED BY <2>1, <2>2, <2>4, <2>5
<1>5. /\ peer' \in Peers /\ peer'.rest = <<>> /\ peer'.owes = peer.owes
      /\ peer'.events = peer.events
  <2>1. Tail(peer.rest) \in Seq(Parts)
    BY <1>2, <1>3
  <2> QED BY <1>1, <1>2, <1>4, <2>1 DEF Peers
<1> HIDE DEF p
<1>6. p.msg \in Msgs /\ \A x \in Msgs : LastIn(peer.rest, x) <=> (p.last /\ p.msg = x)
  BY <1>4 DEF LastIn, Parts
<1>7. p.last => ~LastIn(stream, p.msg)
  BY <1>1, <1>6 DEF WireInv
<1>8. /\ stream' \in Seq(Parts)
      /\ \A x \in Msgs : LastIn(stream', x) <=> LastIn(stream, x) \/ (p.last /\ p.msg = x)
      /\ \A i, j \in 1..Len(stream') :
           stream'[i].last /\ stream'[j].last /\ stream'[i].msg = stream'[j].msg
             => i = j
  BY <1>1, <1>2, <1>4, <1>7, Appended
<1>9. \A x \in Msgs : ~LastIn(peer'.rest, x)
  <2>1. 1..Len(peer'.rest) = {}
    BY <1>5
  <2> QED BY <2>1 DEF LastIn
<1>10. \A x \in Msgs : (Unsent(x)' <=> Unsent(x)) /\ (OnWire(x)' <=> OnWire(x))
  BY <1>2, <1>5, <1>6, <1>8, <1>9 DEF Unsent, OnWire, Writing
<1>11. WireInv'
  <2>1. Len(peer'.rest) <= 1
    BY <1>5
  <2> QED BY <1>1, <1>2, <1>5, <1>8, <1>9, <1>10, <2>1 DEF WireInv
<1> QED BY <1>2, <1>5, <1>8, <1>10, <1>11, PeerActs

(* The peer hangs up: what it held back or owed never comes.                *)
LEMMA PeerHangsUpStep ==
  ASSUME ConnInv, PeerHangsUp \/ UNCHANGED vars
  PROVE  Kept
<1>1. TypeOK /\ WireInv
  BY DEF ConnInv
<1>2. /\ peer' = Gone \/ peer' = peer
      /\ UNCHANGED <<conn, queue, lock, read_lock, th, stream, due, handed>>
  BY DEF PeerHangsUp, vars
<1>3. \A id : Writing(id)' <=> Writing(id)
  BY <1>2 DEF Writing
<1>4. /\ WireInv' /\ peer' \in Peers /\ peer'.owes \subseteq peer.owes
      /\ \A m \in Msgs : (Unsent(m) \/ OnWire(m))' => Unsent(m) \/ OnWire(m)
  BY <1>1, <1>2, <1>3, WireAlone
<1>5. stream' \in Seq(Parts)
  BY <1>1, <1>2 DEF TypeOK
<1> QED BY <1>2, <1>4, <1>5, PeerActs

-----------------------------------------------------------------------------
(* The theorems.                                                            *)

(* What the process calls, one call at a time.                              *)
LEMMA CallStep ==
  ASSUME ConnInv, NEW t \in All, Call(t)
  PROVE  Kept
<1>1. ASSUME CanCall(t), t \in Consumers, NEW forever \in BOOLEAN,
             \/ SendSync(t, forever) \/ Waits(t, "sync", forever)
             \/ catbsd_xpc_connection_receive_message(t, forever)
             \/ Waits(t, "receive", forever)
      PROVE  Kept
  <2>1. th[t].at = "idle" /\ t # Reader
    BY <1>1, ConnectionAssumption DEF CanCall
  <2>2. CASE Waits(t, "sync", forever)
    BY <1>1, <2>1, <2>2, WaitsStep
  <2>3. CASE Waits(t, "receive", forever)
    BY <1>1, <2>1, <2>3, WaitsStep
  <2> QED BY <1>1, <2>2, <2>3, SendSyncStep, ReceiveStep
<1>2. ASSUME CanCancel(t),
             catbsd_xpc_connection_cancel(t, "cancel") \/ Waits(t, "cancel", TRUE)
      PROVE  Kept
  <2>1. /\ th[t].at \in {"idle", "enter", "handler"}
        /\ t = Reader => th[t].at = "handler"
    BY <1>2, ConnectionAssumption DEF CanCancel, CanCall
  <2>2. CASE Waits(t, "cancel", TRUE)
    BY <2>1, <2>2, WaitsStep
  <2>3. CASE catbsd_xpc_connection_cancel(t, "cancel")
    BY <2>1, <2>3, CancelStep
  <2> QED BY <1>2, <2>2, <2>3
<1>3. ASSUME CanCall(t),
             catbsd_xpc_connection_cancel(t, "release") \/ Waits(t, "release", TRUE)
      PROVE  Kept
  <2>1. th[t].at = "idle" /\ t # Reader
    BY <1>3, ConnectionAssumption DEF CanCall
  <2>2. CASE Waits(t, "release", TRUE)
    BY <2>1, <2>2, WaitsStep
  <2>3. CASE catbsd_xpc_connection_cancel(t, "release")
    BY <2>1, <2>3, CancelStep
  <2> QED BY <1>3, <2>2, <2>3
<1>4. ASSUME catbsd_xpc_connection_send_message(t) PROVE Kept
  BY <1>4, SendStep
<1>5. ASSUME catbsd_xpc_connection_set_event_handler(t) PROVE Kept
  BY <1>5, SetHandlerStep
<1>6. ASSUME catbsd_xpc_connection_resume(t) PROVE Kept
  BY <1>6, ResumeStep
<1> QED BY <1>1, <1>2, <1>3, <1>4, <1>5, <1>6 DEF Call

(* Every step keeps the invariant and hands replies to their callers.       *)
LEMMA NextKeeps ==
  ASSUME ConnInv, [Next]_vars
  PROVE  ConnInv' /\ (OneConsumer => ReplyMatches)
<1>1. CASE UNCHANGED vars
  BY <1>1, PeerHangsUpStep DEF Kept
<1>2. CASE Peer
  BY <1>2, PeerWritesStep, PeerGoesOnStep, PeerHangsUpStep DEF Peer, Kept
<1>3. ASSUME NEW t \in All, Step(t) PROVE Kept
  <2>1. CASE EnterStep(t) \/ set_err(t) \/ frame_read(t) \/ TakeReply(t)
    BY <2>1, EnterGoesOn, SetErrStep, ReadStep, TakeStep
  <2>2. CASE queue_push(t) \/ LockRead(t) \/ PopAgain(t) \/ Shutdown(t)
    BY <2>2, PushStep, LockStep, PopAgainStep, ShutdownStep
  <2>3. CASE Join(t) \/ Close(t) \/ Free(t) \/ ReaderGot \/ HandlerReturns
    BY <2>3, JoinStep, CloseStep, FreeStep, ReaderGotStep, HandlerStep
  <2> QED BY <1>3, <2>1, <2>2, <2>3 DEF Step
<1>4. ASSUME NEW t \in All, Call(t) PROVE Kept
  BY <1>4, CallStep
<1>5. ASSUME NEW t \in All, io_write_full(t) \/ ReadRecycled(t) PROVE Kept
  BY <1>5, WriteStep, RecycledStep
<1> QED BY <1>1, <1>2, <1>3, <1>4, <1>5 DEF Next, Kept

(* A new connection.                                                        *)
LEMMA InitHolds ==
  ASSUME Init
  PROVE  ConnInv
<1>1. /\ conn \in Conns /\ conn.next_id = 1 /\ ~conn.resumed
  BY ConnectionAssumption DEF Init, Conns
<1>2. peer \in Peers /\ peer.owes = {} /\ peer.rest = <<>> /\ Len(peer.rest) <= 1
  BY ConnectionAssumption DEF Init, Peers
<1>3. /\ queue \in Seq(Objects) /\ stream \in Seq(Parts) /\ queue = <<>> /\ stream = <<>>
      /\ 1..Len(queue) = {} /\ 1..Len(stream) = {} /\ 1..Len(peer.rest) = {}
  BY <1>2 DEF Init
<1>4. th \in [All -> ThreadStates] /\ \A t \in All : th[t] = Idle
  BY IdleType DEF Init
<1>5. \A t \in All : th[t].at = "idle" /\ th[t].call = "none"
  BY <1>4 DEF Idle
<1>6. TypeOK
  BY <1>1, <1>2, <1>3, <1>4 DEF Init, TypeOK
<1>7. ThreadInv /\ WriteInv
  <2>1. \A t \in Threads : Placed(t)
    BY <1>5 DEF Placed, All
  <2>2. ReaderPlaced /\ th[Reader].at = "idle"
    BY <1>5 DEF ReaderPlaced, ReaderAts, All
  <2> QED BY <1>5, <2>1, <2>2 DEF ThreadInv, WriteInv
<1>8. WireInv
  BY <1>2, <1>3 DEF WireInv, OnWire, LastIn
<1>9. HeldInv
  <2>1. \A m : QueuedAt(m) = {} /\ Holders(m) = {}
    BY <1>3, <1>5 DEF QueuedAt, Holders, Holding, All
  <2> QED BY <2>1 DEF Init, HeldInv, Nowhere
<1> QED BY <1>6, <1>7, <1>8, <1>9 DEF ConnInv

(* ConnInv holds of every connection, whatever its threads, its peer and    *)
(* malloc() do.                                                             *)
THEOREM ConnInvariant == Spec => []ConnInv
<1>1. ConnInv /\ [Next]_vars => ConnInv'
  BY NextKeeps
<1> QED BY <1>1, InitHolds, PTL DEF Spec

(* Flags, queue, thread states and the parts on the wire keep their types.  *)
THEOREM ConnTypeCorrect == Spec => []TypeOK
<1>1. ConnInv => TypeOK
  BY DEF ConnInv
<1> QED BY <1>1, ConnInvariant, PTL

(* Every message that was read is held once until it is given to a caller   *)
(* or to the handler: by the queue, by the caller that is about to queue it *)
(* or by the reader thread, also when a resume overtakes a call and both    *)
(* read, and when cancel closes the descriptor under them.                  *)
THEOREM NoMessageLost == Spec => []NothingLost
<1>1. ConnInv => NothingLost
  <2> SUFFICES ASSUME ConnInv, ~conn.freed, NEW m \in Msgs
               PROVE  Holds(m) = IF m \in due THEN 1 ELSE 0
    BY DEF NothingLost
  <2>1. Holds(m) = Cardinality(QueuedAt(m)) + Cardinality(Holders(m))
    BY DEF Holds, QueuedAt, Holders, Holding
  <2>2. Cardinality({}) = 0 /\ \A e : Cardinality({e}) = 1
    BY FS_EmptySet, FS_Singleton
  <2>3. CASE m \notin due
    <3>1. Nowhere(m)
      BY <2>3 DEF ConnInv, HeldInv
    <3> QED BY <2>1, <2>2, <2>3, <3>1 DEF Nowhere
  <2>4. CASE m \in due
    <3>1. HeldOnce(m)
      BY <2>4 DEF ConnInv, HeldInv
    <3>2. \/ Holders(m) = {} /\ \E e : QueuedAt(m) = {e}
          \/ QueuedAt(m) = {} /\ \E e : Holders(m) = {e}
      BY <3>1 DEF HeldOnce
    <3>3. \/ Cardinality(Holders(m)) = 0 /\ Cardinality(QueuedAt(m)) = 1
          \/ Cardinality(QueuedAt(m)) = 0 /\ Cardinality(Holders(m)) = 1
      BY <2>2, <3>2
    <3> QED BY <2>1, <2>4, <3>3
  <2> QED BY <2>3, <2>4
<1> QED BY <1>1, ConnInvariant, PTL

(* With one thread that receives or waits for replies, a reply goes to the  *)
(* call that waits for it, and nothing else ends that call with success.    *)
(* Two such threads take each other's replies.                              *)
THEOREM RepliesGoToTheirCalls == OneConsumer /\ Spec => RepliesMatch
<1>1. ASSUME OneConsumer PROVE Spec => RepliesMatch
  <2>1. ConnInv /\ [Next]_vars => [ReplyMatches]_vars
    BY <1>1, NextKeeps
  <2> QED BY <2>1, ConnInvariant, PTL DEF Spec, RepliesMatch
<1> QED BY <1>1
=============================================================================
