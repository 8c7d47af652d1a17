--------------------------- MODULE XpcDictionary ---------------------------
(***************************************************************************)
(* A message dictionary of shims/xpc_shim.c shared by the threads of a     *)
(* process: the linked list behind the setters, getters and remove, its    *)
(* reference count, apply with its snapshot, how send_locked stamps and    *)
(* serializes it, and how it is made from a frame.                         *)
(*                                                                         *)
(* A section under obj->lock is one step.  release decides under the lock  *)
(* and frees after it; send_locked stamps the id in one section and        *)
(* serializes in another; apply calls back with no lock held, and the      *)
(* callback may do anything, release the dictionary included.              *)
(***************************************************************************)
EXTENDS XpcWire, FiniteSets

CONSTANTS
  Threads,      \* threads that share the dictionary
  Nodes,        \* memory for entries
  Nil,          \* the null pointer
  Keys,         \* keys given to the setters, unusable ones included
  Values,       \* [type, value] given to the setters
  Frames,       \* buffers given to catbsd_xpc_deserialize
  NoFrame,
  Conns,        \* connections the message is sent on
  NoThread,
  Gone,
  MaxRefs,      \* bound on the references taken
  MaxSends,     \* bound on the messages sent on a connection
  MemoryFails   \* malloc() may fail

ASSUME DictionaryAssumption ==
  /\ Nil \notin Nodes /\ IsFiniteSet(Nodes)
  /\ NoThread \notin Threads /\ NoFrame \notin Frames
  /\ \A f \in Frames : f \in Seq(Bytes)
  /\ \A k \in Keys : k \in Seq(Bytes \ {0})
  /\ \A v \in Values : v.type \in Types /\ v.value \in ValuesOf(v.type)
  /\ MaxRefs \in Nat \ {0} /\ MaxSends \in 0..(Pow[8] - 1)
  /\ MemoryFails \in BOOLEAN

VARIABLES
  dict,   \* head, tail, count and the entries of the object
  obj,    \* the rest of struct catbsd_xpc_object, and whether it is there
  th,     \* where each thread is and how many references it owns
  conn,   \* c->lock and c->next_id
  buf     \* a received frame

vars == <<dict, obj, th, conn, buf>>

NoEntry == [key |-> <<>>, type |-> 0, value |-> 0]
Blank == [next |-> Nil, entry |-> NoEntry]
Empty == [head |-> Nil, tail |-> Nil, count |-> 0, node |-> [n \in Nodes |-> Blank]]
NoObj == [live |-> FALSE, refcount |-> 0, msg_id |-> 0, is_reply |-> FALSE]
Away == [at |-> "out", refs |-> 0, freeing |-> FALSE, conn |-> Nil, id |-> 0,
         is_reply |-> FALSE]

Init ==
  /\ dict = Empty /\ obj = NoObj
  /\ th = [t \in Threads |-> Away]
  /\ conn = [c \in Conns |-> [lock |-> NoThread, next_id |-> 1]]
  /\ buf = NoFrame

-----------------------------------------------------------------------------
(* The list of entries h = [head, tail, count, node].                       *)

(* The pointers a walk from the head meets, followed by Nil.                *)
Walk(h) ==
  LET w[i \in 1..(Cardinality(Nodes) + 1)] ==
        IF i = 1 THEN h.head
        ELSE IF w[i - 1] = Nil THEN Nil ELSE h.node[w[i - 1]].next
  IN w

List(h) ==
  LET w == Walk(h) IN SubSeq(w, 1, Cardinality({i \in DOMAIN w : w[i] # Nil}))

Contents(h) == LET l == List(h) IN [i \in DOMAIN l |-> h.node[l[i]].entry]

(* Mutant: only the length of the key that is looked for is compared.       *)
MutantFind(h, k) ==
  LET l == List(h)
      hits == {i \in DOMAIN l : IsPrefix(k, h.node[l[i]].entry.key)}
  IN IF hits = {} THEN Nil ELSE l[Min(hits)]

(* The first entry with that key, or Nil.                                   *)
entry_find(h, k) ==
  LET l == List(h)
      hits == {i \in DOMAIN l : h.node[l[i]].entry.key = k}
  IN IF hits = {} THEN Nil ELSE l[Min(hits)]

FreeNodes(h) == {n \in Nodes : h.node[n].entry.type = 0}

(* entry_reset, and the value its caller stores before it unlocks: an entry *)
(* with that key is replaced where it stands, a new one goes to the tail.   *)
entry_reset(h, e) ==
  LET found == entry_find(h, e.key)
      new   == CHOOSE n \in FreeNodes(h) : TRUE
      node  == [h.node EXCEPT ![new] = [next |-> Nil, entry |-> e]]
  IN IF found # Nil THEN [h EXCEPT !.node[found].entry = e]
     ELSE [head  |-> IF h.tail = Nil THEN new ELSE h.head,
           tail  |-> new,
           count |-> h.count + 1,
           node  |-> IF h.tail = Nil THEN node
                     ELSE [node EXCEPT ![h.tail].next = new]]

(* Whether memory for it can be had.                                        *)
Room(h, e) == entry_find(h, e.key) # Nil \/ FreeNodes(h) # {}

(* Mutant: the tail is not looked for again.                                *)
MutantUnlink(h, e) ==
  LET node == [n \in Nodes |->
                 IF n = e THEN Blank
                 ELSE IF h.node[n].next = e
                 THEN [h.node[n] EXCEPT !.next = h.node[e].next] ELSE h.node[n]]
  IN [head  |-> IF h.head = e THEN h.node[e].next ELSE h.head,
      tail  |-> h.tail,
      count |-> h.count - 1,
      node  |-> node]

(* The pointer that led to e skips it; if e was the tail a walk from the    *)
(* head finds the new one.                                                  *)
Unlink(h, e) ==
  LET node == [n \in Nodes |->
                 IF n = e THEN Blank
                 ELSE IF h.node[n].next = e
                 THEN [h.node[n] EXCEPT !.next = h.node[e].next] ELSE h.node[n]]
      head == IF h.head = e THEN h.node[e].next ELSE h.head
      rest == List([h EXCEPT !.head = head, !.node = node])
  IN [head  |-> head,
      tail  |-> IF h.tail # e THEN h.tail
                ELSE IF rest = <<>> THEN Nil ELSE Last(rest),
      count |-> h.count - 1,
      node  |-> node]

(* The getters: a value of exactly that type, or nothing.                   *)
get(h, k, type) ==
  LET n == entry_find(h, k)
  IN IF n # Nil /\ h.node[n].entry.type = type
     THEN <<h.node[n].entry.value>> ELSE <<>>

-----------------------------------------------------------------------------
(* Calls.  A thread calls with a reference of its own, from outside or from *)
(* the callback of apply.                                                   *)

CanCall(t) == th[t].refs > 0 /\ th[t].at \in {"out", "apply"} /\ ~th[t].freeing

Owns(t) == th' = [th EXCEPT ![t].refs = @ + 1]

catbsd_xpc_dictionary_create(t) ==
  /\ ~obj.live /\ buf = NoFrame
  /\ th[t].at = "out" /\ ~th[t].freeing
  /\ dict' = Empty
  /\ obj' = [NoObj EXCEPT !.live = TRUE, !.refcount = 1]
  /\ Owns(t)
  /\ UNCHANGED <<conn, buf>>

(* The new reference is handed to u.                                        *)
catbsd_xpc_retain(t, u) ==
  /\ CanCall(t) /\ obj.refcount < MaxRefs
  /\ obj' = [obj EXCEPT !.refcount = @ + 1]
  /\ Owns(u)
  /\ UNCHANGED <<dict, conn, buf>>

(* Mutant: the count is looked at again after the lock was given back.      *)
MutantRelease(t) ==
  /\ CanCall(t)
  /\ obj' = [obj EXCEPT !.refcount = @ - 1]
  /\ th' = [th EXCEPT ![t].refs = @ - 1, ![t].freeing = TRUE]
  /\ UNCHANGED <<dict, conn, buf>>

(* Who takes the last reference is decided under the lock.                  *)
catbsd_xpc_release(t) ==
  /\ CanCall(t)
  /\ obj' = [obj EXCEPT !.refcount = @ - 1]
  /\ th' = [th EXCEPT ![t].refs = @ - 1, ![t].freeing = obj.refcount - 1 <= 0]
  /\ UNCHANGED <<dict, conn, buf>>

(* After the lock: the entries, the lock and the object are freed.          *)
Free(t) ==
  /\ th[t].freeing
  /\ dict' = Empty /\ obj' = NoObj
  /\ th' = [th EXCEPT ![t].freeing = FALSE]
  /\ UNCHANGED <<conn, buf>>

(* XPC_SET_PROLOGUE: a key is not empty and its length fits two bytes.      *)
KeyAccepted(k) == k # <<>> /\ Len(k) <= Pow[2] - 1

ValueAccepted(v) == v.type \in ByteTypes => Len(v.value) <= MaxMessage

(* The six setters.  A call that is refused, or finds no memory, changes    *)
(* nothing.                                                                 *)
catbsd_xpc_dictionary_set(t, k, v) ==
  /\ CanCall(t)
  /\ KeyAccepted(k) /\ ValueAccepted(v)
  /\ LET e == [key |-> k, type |-> v.type, value |-> v.value]
     IN Room(dict, e) /\ dict' = entry_reset(dict, e)
  /\ UNCHANGED <<obj, th, conn, buf>>

catbsd_xpc_dictionary_remove(t, k) ==
  /\ CanCall(t)
  /\ entry_find(dict, k) # Nil
  /\ dict' = Unlink(dict, entry_find(dict, k))
  /\ UNCHANGED <<obj, th, conn, buf>>

(* Keys and types are copied under the lock, or there is no memory for them *)
(* and nothing happens; then fn is called for one after the other, without  *)
(* the lock, and may itself call everything here.                           *)
catbsd_xpc_dictionary_apply(t) ==
  /\ CanCall(t) /\ th[t].at = "out"
  /\ th' = [th EXCEPT ![t].at = "apply"]
  /\ UNCHANGED <<dict, obj, conn, buf>>

(* The last call of fn, or one that did not return 0, has returned.  The    *)
(* dictionary, which may be gone, is not looked at any more.                *)
ApplyReturns(t) ==
  /\ th[t].at = "apply" /\ ~th[t].freeing
  /\ th' = [th EXCEPT ![t].at = "out"]
  /\ UNCHANGED <<dict, obj, conn, buf>>

-----------------------------------------------------------------------------
(* Sending and receiving.                                                   *)

(* send_locked under c->lock, first half: a message gets the next id of the *)
(* connection, a reply the id of the request it answers.                    *)
Stamp(t, c, id, is_reply) ==
  /\ CanCall(t) /\ th[t].at = "out"
  /\ conn[c].lock = NoThread
  /\ obj' = [obj EXCEPT !.msg_id = id, !.is_reply = is_reply]
  /\ th' = [th EXCEPT ![t].at = "send", ![t].conn = c, ![t].id = id,
                      ![t].is_reply = is_reply]
  /\ UNCHANGED <<dict, buf>>

SendMessage(t, c) ==
  /\ conn[c].next_id <= MaxSends
  /\ Stamp(t, c, conn[c].next_id, FALSE)
  /\ conn' = [conn EXCEPT ![c] = [lock |-> t, next_id |-> @.next_id + 1]]

(* Mutant: a reply is sent without c->lock.                                 *)
MutantReply(t, c, id) ==
  /\ Stamp(t, c, id, TRUE)
  /\ UNCHANGED conn

Reply(t, c, id) ==
  /\ Stamp(t, c, id, TRUE)
  /\ conn' = [conn EXCEPT ![c].lock = t]

(* The frame as the dictionary is now, or <<>>.                             *)
Frame == catbsd_xpc_serialize(Contents(dict), dict.count, obj.msg_id, obj.is_reply)

(* Second half: the frame is made and written, or refused.                  *)
Serialize(t) ==
  /\ th[t].at = "send"
  /\ conn' = [conn EXCEPT ![th[t].conn].lock = NoThread]
  /\ th' = [th EXCEPT ![t] = [Away EXCEPT !.refs = th[t].refs]]
  /\ UNCHANGED <<dict, obj, buf>>

Arrive(f) ==
  /\ ~obj.live /\ buf = NoFrame
  /\ buf' = f
  /\ UNCHANGED <<dict, obj, th, conn>>

(* The entries of a frame are set one after the other.                      *)
Load(es) ==
  LET h[i \in 0..Len(es)] == IF i = 0 THEN Empty ELSE entry_reset(h[i - 1], es[i])
  IN h[Len(es)]

(* A frame that is refused, or for which memory runs out, leaves nothing.   *)
Deserialize(t) ==
  /\ buf # NoFrame /\ th[t].at = "out" /\ ~th[t].freeing
  /\ LET d == catbsd_xpc_deserialize(buf)
     IN \/ /\ d.ok /\ Cardinality({d.es[i].key : i \in DOMAIN d.es}) <= Cardinality(Nodes)
           /\ dict' = Load(d.es)
           /\ obj' = [live |-> TRUE, refcount |-> 1, msg_id |-> d.msg_id,
                      is_reply |-> d.is_reply]
           /\ Owns(t)
        \/ (~d.ok \/ MemoryFails) /\ UNCHANGED <<dict, obj, th>>
  /\ buf' = NoFrame
  /\ UNCHANGED conn

Next ==
  \/ \E t \in Threads :
       \/ catbsd_xpc_dictionary_create(t) \/ catbsd_xpc_release(t) \/ Free(t)
       \/ \E u \in Threads : catbsd_xpc_retain(t, u)
       \/ \E k \in Keys : \/ catbsd_xpc_dictionary_remove(t, k)
                          \/ \E v \in Values : catbsd_xpc_dictionary_set(t, k, v)
       \/ catbsd_xpc_dictionary_apply(t) \/ ApplyReturns(t)
       \/ \E c \in Conns : \/ SendMessage(t, c)
                           \/ \E id \in 1..MaxSends : Reply(t, c, id)
       \/ Serialize(t) \/ Deserialize(t)
  \/ \E f \in Frames : Arrive(f)

Spec == Init /\ [][Next]_vars

-----------------------------------------------------------------------------
(* Properties.                                                              *)

TypeOK ==
  /\ obj.live \in BOOLEAN /\ obj.refcount \in 0..MaxRefs
  /\ obj.msg_id \in 0..(Pow[8] - 1) /\ obj.is_reply \in BOOLEAN
  /\ dict.head \in Nodes \cup {Nil} /\ dict.tail \in Nodes \cup {Nil}
  /\ dict.count \in 0..Cardinality(Nodes)
  /\ \A n \in Nodes : dict.node[n].next \in Nodes \cup {Nil}
  /\ \A t \in Threads :
       /\ th[t].at \in {"out", "apply", "send"} /\ th[t].refs \in 0..MaxRefs
       /\ th[t].freeing \in BOOLEAN
  /\ \A c \in Conns : /\ conn[c].lock \in Threads \cup {NoThread}
                      /\ conn[c].next_id \in 1..(MaxSends + 1)
  /\ buf \in Frames \cup {NoFrame}

(* After any sequence of set, replace, remove and loading from a frame the  *)
(* three views of the list agree: the walk from the head ends at the tail,  *)
(* meets count entries, and every allocated entry is on it, with a key of   *)
(* its own.  serialize and apply size their buffers by one view and fill    *)
(* them by another.                                                         *)
ListAgrees ==
  LET l == List(dict)
  IN /\ dict.count = Len(l)
     /\ dict.tail = IF l = <<>> THEN Nil ELSE Last(l)
     /\ {l[i] : i \in DOMAIN l} = Nodes \ FreeNodes(dict)
     /\ \A i, j \in DOMAIN l :
          dict.node[l[i]].entry.key = dict.node[l[j]].entry.key => i = j

(* The dictionary lives as long as somebody owns a reference or is inside a *)
(* send, and when nobody does exactly one thread is about to free it:       *)
(* releases that race never free it twice, early, or not at all.            *)
FreedOnce ==
  LET owners == {t \in Threads : th[t].refs > 0}
      freers == {t \in Threads : th[t].freeing}
  IN /\ owners # {} => obj.live /\ freers = {}
     /\ obj.live /\ owners = {} => Cardinality(freers) = 1
     /\ ~obj.live => freers = {}
     /\ \A t \in Threads : th[t].at = "send" => th[t].refs > 0

(* Between the two sections of send_locked the message keeps the id the     *)
(* caller will wait for, whatever other threads do with the object: the     *)
(* frame carries the id and the flag of this very call.                     *)
StampHolds ==
  \A t \in Threads : th[t].at = "send" =>
    obj.msg_id = th[t].id /\ obj.is_reply = th[t].is_reply

(* Whatever was set, replaced, removed or received before: a message that   *)
(* is small enough fills exactly the buffer allocated for it, is accepted   *)
(* by the header check of the peer, and there has the same keys in the same *)
(* order with the same types and values.  A key received as a STRING or     *)
(* DATA entry may be empty, which no setter allows and the peer refuses.    *)
RoundTrip ==
  obj.live /\ Frame # <<>> /\ (\A i \in DOMAIN Contents(dict) : Contents(dict)[i].key # <<>>) =>
    LET f    == Frame[1]
        d    == catbsd_xpc_deserialize(f)
        peer == Load(d.es)
    IN /\ Len(f) = HeaderSize + Payload(f)
       /\ HeaderAccepted(f)
       /\ d.ok /\ d.msg_id = obj.msg_id /\ d.is_reply = obj.is_reply
       /\ Contents(peer) = Contents(dict)
       /\ \A k \in Keys, type \in Types : get(peer, k, type) = get(dict, k, type)

(* xpc_shim.c, above catbsd_xpc_deserialize: "Every field is bounds-checked *)
(* against the declared payload length before it is read".  Whatever the    *)
(* buffer holds, no more than the declared payload is read, and no more     *)
(* than the buffer has.                                                     *)
ReadsInBounds ==
  buf # NoFrame =>
    LET off == catbsd_xpc_deserialize(buf).off
    IN off > 0 => off <= Payload(buf) /\ HeaderSize + off <= Len(buf)

(* The list implements the ordered map of xpc_shim.h: a setter "replaces    *)
(* any existing value for key" in place or adds the key at the end, remove  *)
(* takes out one key, and no failed call changes anything.                  *)
Map == INSTANCE XpcMap WITH map <- IF obj.live THEN Contents(dict) ELSE Gone

IsOrderedMap == Map!Spec
=============================================================================
