------------------------ MODULE XpcDictionaryProofs ------------------------
(***************************************************************************)
(* Proofs about XpcDictionary, for any number of threads, references and   *)
(* entries.  The reference count is the number of references that threads  *)
(* own, so that a dictionary is freed once and never while it is in use,   *)
(* and a message on its way keeps its id.  No frame is read beyond its     *)
(* end.  The views of the list agree, and it implements the ordered map.   *)
(* Whatever it holds is written to a frame that reads back as the same.    *)
(***************************************************************************)
EXTENDS XpcDictionary, FiniteSetTheorems, SequenceTheorems, WellFoundedInduction,
        TLAPS

(* The references that threads own, one by one.                             *)
Tokens == {r \in Threads \X (Nat \ {0}) : r[2] <= th[r[1]].refs}

States == [at : {"out", "apply", "send"}, refs : Nat, freeing : BOOLEAN,
           conn : Conns \cup {Nil}, id : Nat, is_reply : BOOLEAN]

DictTypes ==
  /\ th \in [Threads -> States]
  /\ DOMAIN obj = {"live", "refcount", "msg_id", "is_reply"}
  /\ obj.live \in BOOLEAN /\ obj.refcount \in Nat
  /\ conn \in [Conns -> [lock : Threads \cup {NoThread}, next_id : Nat]]

(* refcount counts the references.  The last of them goes with a thread     *)
(* that will free the object, and there is one such thread.                 *)
RefInv ==
  /\ IsFiniteSet(Tokens) /\ Cardinality(Tokens) = obj.refcount
  /\ \A t \in Threads : th[t].freeing =>
       /\ obj.live /\ obj.refcount = 0
       /\ \A u \in Threads : th[u].freeing => u = t
  /\ obj.live => obj.refcount > 0 \/ \E t \in Threads : th[t].freeing
  /\ ~obj.live => obj.refcount = 0
  /\ buf # NoFrame => ~obj.live

(* A thread between the two sections of send_locked owns a reference and    *)
(* holds the lock of its connection.                                        *)
SendInv ==
  \A t \in Threads : th[t].at = "send" =>
    th[t].refs > 0 /\ th[t].conn \in Conns /\ conn[th[t].conn].lock = t

(* The message is sent on one connection.  On two, a second send stamps the *)
(* object between the sections of the first.                                *)
OneConnection == \A c, d \in Conns : c = d

DictInv == DictTypes /\ RefInv /\ SendInv /\ (OneConnection => StampHolds)

-----------------------------------------------------------------------------
(* Counting references.                                                     *)

(* Thread t changes, the others do not.                                     *)
OnlyMoves(t) ==
  /\ th' \in [Threads -> States]
  /\ \A u \in Threads : u # t => th'[u] = th[u]

(* While somebody owns a reference the object is there and nobody frees it. *)
LEMMA InUse ==
  ASSUME DictTypes, RefInv, NEW t \in Threads, th[t].refs > 0
  PROVE  /\ obj.live /\ obj.refcount > 0
         /\ \A u \in Threads : ~th[u].freeing
<1>1. <<t, 1>> \in Tokens
  BY DEF Tokens, DictTypes, States
<1>2. obj.refcount # 0
  BY <1>1, FS_EmptySet DEF RefInv
<1> QED BY <1>2 DEF RefInv, DictTypes

(* Nobody owns a reference to an object whose count is 0.                   *)
LEMMA Unused ==
  ASSUME DictTypes, RefInv, SendInv, obj.refcount = 0
  PROVE  \A t \in Threads : th[t].refs = 0 /\ th[t].at # "send"
BY InUse DEF DictTypes, States, SendInv

(* A step that hands out no reference and takes none.                       *)
LEMMA SameCount ==
  ASSUME DictTypes, \A t \in Threads : th'[t].refs = th[t].refs
  PROVE  Tokens' = Tokens
BY DEF Tokens

(* One more reference.                                                      *)
LEMMA OneMore ==
  ASSUME DictTypes, IsFiniteSet(Tokens), NEW t \in Threads, OnlyMoves(t),
         th'[t].refs = th[t].refs + 1
  PROVE  IsFiniteSet(Tokens') /\ Cardinality(Tokens') = Cardinality(Tokens) + 1
<1> DEFINE r == <<t, th[t].refs + 1>>
<1>1. th[t].refs \in Nat
  BY DEF DictTypes, States
<1>2. r \notin Tokens
  BY <1>1 DEF Tokens
<1>3. Tokens' = Tokens \cup {r}
  <2>1. ASSUME NEW u \in Threads, NEW i \in Nat \ {0}
        PROVE  i <= th'[u].refs <=> i <= th[u].refs \/ (u = t /\ i = th[t].refs + 1)
    <3>1. CASE u = t
      BY <1>1, <3>1
    <3>2. CASE u # t
      BY <3>2 DEF OnlyMoves
    <3> QED BY <3>1, <3>2
  <2>2. \A e \in Threads \X (Nat \ {0}) : e \in Tokens' <=> e \in Tokens \/ e = r
    BY <1>1, <2>1 DEF Tokens
  <2>3. r \in Threads \X (Nat \ {0})
    BY <1>1
  <2> QED BY <2>2, <2>3 DEF Tokens
<1> HIDE DEF r
<1> QED BY <1>2, <1>3, FS_AddElement

(* One less.                                                                *)
LEMMA OneLess ==
  ASSUME DictTypes, IsFiniteSet(Tokens), NEW t \in Threads, OnlyMoves(t),
         th[t].refs > 0, th'[t].refs = th[t].refs - 1
  PROVE  IsFiniteSet(Tokens') /\ Cardinality(Tokens') = Cardinality(Tokens) - 1
<1> DEFINE r == <<t, th[t].refs>>
<1>1. th[t].refs \in Nat \ {0}
  BY DEF DictTypes, States
<1>2. r \in Tokens
  BY <1>1 DEF Tokens
<1>3. Tokens' = Tokens \ {r}
  <2>1. ASSUME NEW u \in Threads, NEW i \in Nat \ {0}
        PROVE  i <= th'[u].refs <=> i <= th[u].refs /\ ~(u = t /\ i = th[t].refs)
    BY <1>1, <2>1 DEF OnlyMoves, DictTypes, States
  <2>2. \A e \in Threads \X (Nat \ {0}) : e \in Tokens' <=> e \in Tokens /\ e # r
    BY <1>1, <2>1 DEF Tokens
  <2> QED BY <2>2 DEF Tokens
<1> HIDE DEF r
<1> QED BY <1>2, <1>3, FS_RemoveElement

-----------------------------------------------------------------------------
(* The steps.                                                               *)

(* t is given a reference.                                                  *)
LEMMA OwnsEffect ==
  ASSUME DictTypes, NEW t \in Threads, Owns(t)
  PROVE  /\ OnlyMoves(t) /\ th'[t].refs = th[t].refs + 1
         /\ th'[t].at = th[t].at /\ th'[t].freeing = th[t].freeing
         /\ th'[t].conn = th[t].conn /\ th'[t].id = th[t].id
         /\ th'[t].is_reply = th[t].is_reply
<1>1. th \in [Threads -> States] /\ th[t] \in States
  BY DEF DictTypes
<1>2. [th[t] EXCEPT !.refs = @ + 1] \in States
  BY <1>1 DEF States
<1>3. OnlyMoves(t) /\ th'[t] = [th[t] EXCEPT !.refs = @ + 1]
  BY <1>1, <1>2 DEF Owns, OnlyMoves
<1> QED BY <1>1, <1>3 DEF States

(* What the steps on the object leave well-typed.                           *)
LEMMA TypesKept ==
  ASSUME DictTypes, NEW t \in Threads, OnlyMoves(t), conn' = conn,
         DOMAIN obj' = {"live", "refcount", "msg_id", "is_reply"},
         obj'.live \in BOOLEAN, obj'.refcount \in Nat
  PROVE  DictTypes'
BY DEF DictTypes, OnlyMoves

(* A step that changes neither the threads, nor the count, nor the locks.   *)
LEMMA Still ==
  ASSUME DictInv, UNCHANGED <<obj, th, conn>>, buf' # NoFrame => ~obj.live
  PROVE  DictInv'
<1>1. Tokens' = Tokens
  BY SameCount DEF DictInv
<1>2. DictTypes' /\ RefInv'
  BY <1>1 DEF DictInv, DictTypes, RefInv
<1> QED BY <1>2 DEF DictInv, SendInv, StampHolds, OneConnection

(* An object is made, by create or from a frame: its one reference is t's.  *)
LEMMA Made ==
  ASSUME DictInv, NEW t \in Threads, ~obj.live, ~th[t].freeing,
         Owns(t), DOMAIN obj' = {"live", "refcount", "msg_id", "is_reply"},
         obj'.live = TRUE, obj'.refcount = 1, buf' = NoFrame, conn' = conn
  PROVE  DictInv'
<1>1. DictTypes /\ RefInv /\ SendInv
  BY DEF DictInv
<1>2. obj.refcount = 0 /\ \A u \in Threads : th[u].at # "send" /\ ~th[u].freeing
  BY <1>1, Unused DEF RefInv
<1>3. /\ OnlyMoves(t) /\ th'[t].refs = th[t].refs + 1
      /\ th'[t].at = th[t].at /\ th'[t].freeing = th[t].freeing
  BY <1>1, OwnsEffect
<1>4. \A u \in Threads : th'[u].at # "send" /\ ~th'[u].freeing
  BY <1>2, <1>3 DEF OnlyMoves
<1>5. IsFiniteSet(Tokens') /\ Cardinality(Tokens') = 1
  BY <1>1, <1>2, <1>3, OneMore DEF RefInv
<1>6. DictTypes'
  <2>1. obj'.live \in BOOLEAN
    OBVIOUS
  <2>2. obj'.refcount \in Nat
    OBVIOUS
  <2> QED BY <1>1, <1>3, <2>1, <2>2, TypesKept
<1>7. RefInv'
  BY <1>4, <1>5 DEF RefInv
<1> QED BY <1>4, <1>6, <1>7 DEF DictInv, SendInv, StampHolds

(* retain.                                                                  *)
LEMMA RetainStep ==
  ASSUME DictInv, NEW t \in Threads, NEW u \in Threads, catbsd_xpc_retain(t, u)
  PROVE  DictInv'
<1>1. DictTypes /\ RefInv /\ SendInv
  BY DEF DictInv
<1>2. /\ th[t].refs > 0 /\ obj' = [obj EXCEPT !.refcount = @ + 1] /\ Owns(u)
      /\ UNCHANGED <<conn, buf>>
  BY DEF catbsd_xpc_retain, CanCall
<1>3. obj.live /\ obj.refcount > 0 /\ \A w \in Threads : ~th[w].freeing
  BY <1>1, <1>2, InUse
<1>4. /\ DOMAIN obj' = DOMAIN obj /\ obj'.live = obj.live
      /\ obj'.refcount = obj.refcount + 1 /\ obj'.msg_id = obj.msg_id
      /\ obj'.is_reply = obj.is_reply
  BY <1>1, <1>2 DEF DictTypes
<1>5. /\ OnlyMoves(u) /\ th'[u].refs = th[u].refs + 1
      /\ th'[u].at = th[u].at /\ th'[u].freeing = th[u].freeing
      /\ th'[u].conn = th[u].conn /\ th'[u].id = th[u].id
      /\ th'[u].is_reply = th[u].is_reply
  BY <1>1, <1>2, OwnsEffect
<1>6. IsFiniteSet(Tokens') /\ Cardinality(Tokens') = obj.refcount + 1
  BY <1>1, <1>5, OneMore DEF RefInv
<1>7. \A w \in Threads : ~th'[w].freeing
  BY <1>3, <1>5 DEF OnlyMoves
<1>8. DictTypes'
  BY <1>1, <1>2, <1>4, <1>5 DEF DictTypes, OnlyMoves
<1>9. RefInv'
  BY <1>1, <1>2, <1>3, <1>4, <1>6, <1>7 DEF RefInv, DictTypes
<1>10. SendInv'
  <2> SUFFICES ASSUME NEW w \in Threads, th'[w].at = "send"
               PROVE  th'[w].refs > 0 /\ th'[w].conn \in Conns /\ conn[th'[w].conn].lock = w
    BY <1>2 DEF SendInv
  <2>1. th[w].refs \in Nat
    BY <1>1 DEF DictTypes, States
  <2> QED BY <1>1, <1>5, <2>1 DEF SendInv, OnlyMoves
<1>11. OneConnection => StampHolds'
  BY <1>4, <1>5 DEF DictInv, StampHolds, OnlyMoves
<1> QED BY <1>8, <1>9, <1>10, <1>11 DEF DictInv, OneConnection

(* release decides under the lock whether this was the last reference.      *)
LEMMA ReleaseStep ==
  ASSUME DictInv, NEW t \in Threads, catbsd_xpc_release(t)
  PROVE  DictInv'
<1> DEFINE b == obj.refcount - 1 <= 0
           s == [th[t] EXCEPT !.refs = @ - 1, !.freeing = b]
<1>0. b \in BOOLEAN
  OBVIOUS
<1>1. DictTypes /\ RefInv /\ SendInv
  BY DEF DictInv
<1>2. /\ th[t].refs > 0 /\ th[t].at # "send" /\ UNCHANGED <<conn, buf>>
      /\ obj' = [obj EXCEPT !.refcount = @ - 1]
      /\ th' = [th EXCEPT ![t].refs = @ - 1, ![t].freeing = b]
  BY DEF catbsd_xpc_release, CanCall
<1>3. obj.live /\ obj.refcount > 0 /\ \A w \in Threads : ~th[w].freeing
  BY <1>1, <1>2, InUse
<1>4. /\ DOMAIN obj' = DOMAIN obj /\ obj'.live = obj.live
      /\ obj'.refcount = obj.refcount - 1 /\ obj'.msg_id = obj.msg_id
      /\ obj'.is_reply = obj.is_reply
  BY <1>1, <1>2 DEF DictTypes
<1>5. th \in [Threads -> States] /\ th[t] \in States /\ th[t].refs \in Nat
  BY <1>1 DEF DictTypes, States
<1>6. s \in States /\ s.refs = th[t].refs - 1 /\ s.at = th[t].at
      /\ s.freeing = b
  <2>1. PICK k \in Nat : k = th[t].refs - 1
    BY <1>2, <1>5
  <2>2. s = [th[t] EXCEPT !.refs = k, !.freeing = b]
    BY <2>1
  <2> HIDE DEF b, s
  <2>3. s \in States /\ s.refs = k /\ s.at = th[t].at /\ s.freeing = b
    BY <1>0, <1>5, <2>2 DEF States
  <2> QED BY <2>1, <2>3
<1>7. OnlyMoves(t) /\ th'[t] = s
  BY <1>2, <1>5, <1>6 DEF OnlyMoves
<1> HIDE DEF s
<1>8. IsFiniteSet(Tokens') /\ Cardinality(Tokens') = obj.refcount - 1
  BY <1>1, <1>2, <1>6, <1>7, OneLess DEF RefInv
<1>9. DictTypes'
  <2>1. obj'.refcount \in Nat /\ obj'.live \in BOOLEAN
    BY <1>1, <1>3, <1>4 DEF DictTypes
  <2> QED BY <1>1, <1>2, <1>4, <1>7, <2>1, TypesKept DEF DictTypes
<1>10. \A w \in Threads : th'[w].freeing <=> w = t /\ obj.refcount - 1 = 0
  <2>1. b <=> obj.refcount - 1 = 0
    BY <1>1, <1>3 DEF DictTypes
  <2> QED BY <1>3, <1>6, <1>7, <2>1 DEF OnlyMoves
<1>11. RefInv'
  BY <1>1, <1>2, <1>3, <1>4, <1>8, <1>10 DEF RefInv, DictTypes
<1>12. \A w \in Threads : th'[w].at = "send" => th'[w] = th[w] /\ th[w].at = "send"
  BY <1>2, <1>6, <1>7 DEF OnlyMoves
<1>13. SendInv' /\ (OneConnection => StampHolds')
  BY <1>1, <1>2, <1>4, <1>12 DEF DictInv, SendInv, StampHolds
<1> QED BY <1>9, <1>11, <1>13 DEF DictInv, OneConnection

(* The object is freed.                                                     *)
LEMMA FreeStep ==
  ASSUME DictInv, NEW t \in Threads, Free(t)
  PROVE  DictInv'
<1> DEFINE s == [th[t] EXCEPT !.freeing = FALSE]
<1>1. DictTypes /\ RefInv /\ SendInv
  BY DEF DictInv
<1>2. /\ th[t].freeing /\ obj' = NoObj /\ UNCHANGED <<conn, buf>>
      /\ th' = [th EXCEPT ![t].freeing = FALSE]
  BY DEF Free
<1>3. /\ DOMAIN obj' = {"live", "refcount", "msg_id", "is_reply"}
      /\ obj'.live = FALSE /\ obj'.refcount = 0
  BY <1>2 DEF NoObj
<1>4. th \in [Threads -> States] /\ th[t] \in States
  BY <1>1 DEF DictTypes
<1>5. s \in States /\ s.refs = th[t].refs /\ s.at = th[t].at /\ ~s.freeing
  BY <1>4 DEF States
<1>6. OnlyMoves(t) /\ th'[t] = s
  BY <1>2, <1>4, <1>5 DEF OnlyMoves
<1> HIDE DEF s
<1>7. obj.refcount = 0 /\ \A w \in Threads : th[w].at # "send"
  BY <1>1, <1>2, Unused DEF RefInv
<1>8. \A w \in Threads : /\ th'[w].refs = th[w].refs
                         /\ ~th'[w].freeing /\ th'[w].at # "send"
  BY <1>1, <1>2, <1>5, <1>6, <1>7 DEF OnlyMoves, RefInv
<1>9. Tokens' = Tokens
  BY <1>1, <1>8, SameCount
<1>10. DictTypes'
  <2>1. obj'.live \in BOOLEAN
    BY <1>3
  <2>2. obj'.refcount \in Nat
    BY <1>3
  <2> QED BY <1>1, <1>2, <1>3, <1>6, <2>1, <2>2, TypesKept
<1>11. RefInv'
  BY <1>1, <1>2, <1>3, <1>7, <1>8, <1>9 DEF RefInv
<1> QED BY <1>8, <1>10, <1>11 DEF DictInv, SendInv, StampHolds

(* A thread goes into apply and comes back: it only changes its place.      *)
LEMMA ApplyStep ==
  ASSUME DictInv, NEW t \in Threads,
         catbsd_xpc_dictionary_apply(t) \/ ApplyReturns(t)
  PROVE  DictInv'
<1>1. DictTypes /\ RefInv /\ SendInv
  BY DEF DictInv
<1>2. PICK a \in {"out", "apply"} : th' = [th EXCEPT ![t].at = a]
  BY DEF catbsd_xpc_dictionary_apply, ApplyReturns
<1>3. UNCHANGED <<obj, conn, buf>>
  BY DEF catbsd_xpc_dictionary_apply, ApplyReturns
<1> DEFINE s == [th[t] EXCEPT !.at = a]
<1>4. th \in [Threads -> States] /\ th[t] \in States
  BY <1>1 DEF DictTypes
<1>5. s \in States /\ s.refs = th[t].refs /\ s.at = a /\ s.freeing = th[t].freeing
  BY <1>4 DEF States
<1>6. OnlyMoves(t) /\ th'[t] = s
  BY <1>2, <1>4, <1>5 DEF OnlyMoves
<1> HIDE DEF s
<1>7. \A w \in Threads : /\ th'[w].refs = th[w].refs /\ th'[w].freeing = th[w].freeing
                         /\ th'[w].at = "send" => th'[w] = th[w]
  BY <1>5, <1>6 DEF OnlyMoves
<1>8. Tokens' = Tokens
  BY <1>1, <1>7, SameCount
<1>9. DictTypes'
  BY <1>1, <1>3, <1>6, TypesKept DEF DictTypes
<1>10. RefInv'
  BY <1>1, <1>3, <1>7, <1>8 DEF RefInv
<1>11. SendInv' /\ (OneConnection => StampHolds')
  BY <1>1, <1>3, <1>7 DEF DictInv, SendInv, StampHolds
<1> QED BY <1>9, <1>10, <1>11 DEF DictInv, OneConnection

(* send_locked takes the connection's lock and stamps the object.  On one   *)
(* connection nobody else is between stamping and serializing.              *)
LEMMA StampStep ==
  ASSUME DictInv, NEW t \in Threads, NEW c \in Conns, NEW id \in Nat,
         NEW r \in BOOLEAN, NEW n \in Nat, Stamp(t, c, id, r),
         conn' = [conn EXCEPT ![c] = [lock |-> t, next_id |-> n]]
  PROVE  DictInv'
<1>1. DictTypes /\ RefInv /\ SendInv
  BY DEF DictInv
<1>2. /\ th[t].refs > 0 /\ conn[c].lock = NoThread /\ buf' = buf
      /\ obj' = [obj EXCEPT !.msg_id = id, !.is_reply = r]
      /\ th' = [th EXCEPT ![t].at = "send", ![t].conn = c, ![t].id = id,
                          ![t].is_reply = r]
  BY DEF Stamp, CanCall
<1> DEFINE s == [th[t] EXCEPT !.at = "send", !.conn = c, !.id = id, !.is_reply = r]
<1>3. th \in [Threads -> States] /\ th[t] \in States
  BY <1>1 DEF DictTypes
<1>4. /\ s \in States /\ s.refs = th[t].refs /\ s.at = "send" /\ s.conn = c
      /\ s.freeing = th[t].freeing /\ s.id = id /\ s.is_reply = r
  BY <1>3 DEF States
<1>5. OnlyMoves(t) /\ th'[t] = s
  BY <1>2, <1>3, <1>4 DEF OnlyMoves
<1> HIDE DEF s
<1>6. /\ DOMAIN obj' = DOMAIN obj /\ obj'.live = obj.live
      /\ obj'.refcount = obj.refcount /\ obj'.msg_id = id /\ obj'.is_reply = r
  BY <1>1, <1>2 DEF DictTypes
<1>7. /\ conn' \in [Conns -> [lock : Threads \cup {NoThread}, next_id : Nat]]
      /\ conn'[c].lock = t /\ \A d \in Conns : d # c => conn'[d] = conn[d]
  BY <1>1 DEF DictTypes
<1>8. \A w \in Threads : th'[w].refs = th[w].refs /\ th'[w].freeing = th[w].freeing
  BY <1>4, <1>5 DEF OnlyMoves
<1>9. Tokens' = Tokens
  BY <1>1, <1>8, SameCount
<1>10. DictTypes'
  BY <1>1, <1>5, <1>6, <1>7 DEF DictTypes, OnlyMoves
<1>11. RefInv'
  <2>1. /\ obj'.live = obj.live /\ obj'.refcount = obj.refcount /\ buf' = buf
        /\ Tokens' = Tokens
    BY <1>2, <1>6, <1>9
  <2>2. RefInv
    BY <1>1
  <2> QED BY <1>8, <2>1, <2>2 DEF RefInv
<1>12. ASSUME NEW w \in Threads, w # t, th'[w].at = "send"
       PROVE  /\ th'[w] = th[w] /\ th[w].refs > 0 /\ th[w].conn \in Conns
              /\ conn[th[w].conn].lock = w /\ th[w].conn # c
  BY <1>1, <1>2, <1>5, <1>12, DictionaryAssumption DEF OnlyMoves, SendInv
<1>13. SendInv'
  <2>1. th'[t].refs > 0 /\ th'[t].conn \in Conns /\ conn'[th'[t].conn].lock = t
    BY <1>2, <1>4, <1>5, <1>7
  <2>2. ASSUME NEW w \in Threads, w # t, th'[w].at = "send"
        PROVE  /\ th'[w].refs > 0 /\ th'[w].conn \in Conns
               /\ conn'[th'[w].conn].lock = w
    BY <1>7, <1>12, <2>2
  <2> QED BY <2>1, <2>2 DEF SendInv
<1>14. OneConnection => StampHolds'
  BY <1>4, <1>5, <1>6, <1>12 DEF StampHolds, OneConnection
<1> QED BY <1>10, <1>11, <1>13, <1>14 DEF DictInv, OneConnection

(* The frame is made and the lock given back.                               *)
LEMMA SerializeStep ==
  ASSUME DictInv, NEW t \in Threads, Serialize(t)
  PROVE  DictInv'
<1>1. DictTypes /\ RefInv /\ SendInv
  BY DEF DictInv
<1>2. /\ th[t].at = "send" /\ UNCHANGED <<obj, buf>>
      /\ conn' = [conn EXCEPT ![th[t].conn].lock = NoThread]
      /\ th' = [th EXCEPT ![t] = [Away EXCEPT !.refs = th[t].refs]]
  BY DEF Serialize
<1>3. th[t].refs > 0 /\ th[t].conn \in Conns /\ conn[th[t].conn].lock = t
  BY <1>1, <1>2 DEF SendInv
<1>4. \A w \in Threads : ~th[w].freeing
  BY <1>1, <1>3, InUse
<1> DEFINE s == [Away EXCEPT !.refs = th[t].refs]
<1>5. th \in [Threads -> States] /\ th[t] \in States /\ th[t].refs \in Nat
  BY <1>1 DEF DictTypes, States
<1>6. s \in States /\ s.refs = th[t].refs /\ s.at = "out" /\ s.freeing = FALSE
  BY <1>5 DEF States, Away
<1>7. OnlyMoves(t) /\ th'[t] = s
  BY <1>2, <1>5, <1>6 DEF OnlyMoves
<1> HIDE DEF s
<1>8. /\ conn' \in [Conns -> [lock : Threads \cup {NoThread}, next_id : Nat]]
      /\ \A d \in Conns : d # th[t].conn => conn'[d] = conn[d]
  <2>1. PICK c \in Conns : c = th[t].conn
    BY <1>3
  <2>2. conn[c] \in [lock : Threads \cup {NoThread}, next_id : Nat]
    BY <1>1 DEF DictTypes
  <2>3. [conn[c] EXCEPT !.lock = NoThread]
          \in [lock : Threads \cup {NoThread}, next_id : Nat]
    BY <2>2
  <2> QED BY <1>1, <1>2, <2>1, <2>3 DEF DictTypes
<1>9. \A w \in Threads : /\ th'[w].refs = th[w].refs /\ ~th'[w].freeing
                         /\ th'[w].at = "send" => w # t /\ th'[w] = th[w]
  BY <1>4, <1>6, <1>7 DEF OnlyMoves
<1>10. Tokens' = Tokens
  BY <1>1, <1>9, SameCount
<1>11. DictTypes'
  BY <1>1, <1>2, <1>7, <1>8 DEF DictTypes, OnlyMoves
<1>12. RefInv'
  BY <1>1, <1>2, <1>4, <1>9, <1>10 DEF RefInv
<1>13. SendInv'
  BY <1>1, <1>3, <1>8, <1>9 DEF SendInv
<1>14. OneConnection => StampHolds'
  BY <1>2, <1>9 DEF DictInv, StampHolds
<1> QED BY <1>11, <1>12, <1>13, <1>14 DEF DictInv, OneConnection

(* Every step keeps the invariant.                                          *)
LEMMA NextKeeps ==
  ASSUME DictInv, [Next]_vars
  PROVE  DictInv'
<1>1. CASE UNCHANGED vars
  BY <1>1, Still DEF vars, DictInv, RefInv
<1>2. ASSUME NEW f \in Frames, Arrive(f) PROVE DictInv'
  BY <1>2, Still DEF Arrive
<1>3. ASSUME NEW t \in Threads, catbsd_xpc_dictionary_create(t) PROVE DictInv'
  <2>1. /\ ~obj.live /\ ~th[t].freeing /\ Owns(t) /\ buf' = NoFrame /\ conn' = conn
        /\ obj' = [NoObj EXCEPT !.live = TRUE, !.refcount = 1]
    BY <1>3 DEF catbsd_xpc_dictionary_create
  <2>2. /\ DOMAIN obj' = {"live", "refcount", "msg_id", "is_reply"}
        /\ obj'.live = TRUE /\ obj'.refcount = 1
    BY <2>1 DEF NoObj
  <2> QED BY <2>1, <2>2, Made
<1>4. ASSUME NEW t \in Threads, Deserialize(t) PROVE DictInv'
  <2>1. buf # NoFrame /\ ~th[t].freeing /\ buf' = NoFrame /\ conn' = conn
    BY <1>4 DEF Deserialize
  <2>2. ~obj.live
    BY <2>1 DEF DictInv, RefInv
  <2>3. CASE UNCHANGED <<obj, th>>
    BY <2>1, <2>3, Still
  <2>4. CASE /\ Owns(t)
             /\ \E m, r : obj' = [live |-> TRUE, refcount |-> 1, msg_id |-> m,
                                  is_reply |-> r]
    <3>1. /\ DOMAIN obj' = {"live", "refcount", "msg_id", "is_reply"}
          /\ obj'.live = TRUE /\ obj'.refcount = 1
      BY <2>4
    <3> QED BY <2>1, <2>2, <2>4, <3>1, Made
  <2> QED BY <1>4, <2>3, <2>4 DEF Deserialize
<1>5. ASSUME NEW t \in Threads, NEW k, catbsd_xpc_dictionary_remove(t, k) PROVE DictInv'
  BY <1>5, Still DEF catbsd_xpc_dictionary_remove, DictInv, RefInv
<1>6. ASSUME NEW t \in Threads, NEW k, NEW v, catbsd_xpc_dictionary_set(t, k, v)
      PROVE  DictInv'
  BY <1>6, Still DEF catbsd_xpc_dictionary_set, DictInv, RefInv
<1>7. ASSUME NEW t \in Threads, NEW c \in Conns, SendMessage(t, c) PROVE DictInv'
  <2>1. /\ conn \in [Conns -> [lock : Threads \cup {NoThread}, next_id : Nat]]
        /\ conn[c].next_id \in Nat /\ conn[c].next_id + 1 \in Nat
    BY DEF DictInv, DictTypes
  <2>2. /\ Stamp(t, c, conn[c].next_id, FALSE)
        /\ conn' = [conn EXCEPT ![c] = [lock |-> t, next_id |-> conn[c].next_id + 1]]
    BY <1>7, <2>1 DEF SendMessage
  <2>3. FALSE \in BOOLEAN
    OBVIOUS
  <2> QED BY <2>1, <2>2, <2>3, StampStep
<1>8. ASSUME NEW t \in Threads, NEW c \in Conns, NEW id \in 1..MaxSends, Reply(t, c, id)
      PROVE  DictInv'
  <2>1. /\ conn[c] \in [lock : Threads \cup {NoThread}, next_id : Nat]
        /\ conn[c].next_id \in Nat /\ id \in Nat
    BY DictionaryAssumption DEF DictInv, DictTypes
  <2>2. Stamp(t, c, id, TRUE) /\ conn' = [conn EXCEPT ![c].lock = t]
    BY <1>8 DEF Reply
  <2>3. [conn[c] EXCEPT !.lock = t] = [lock |-> t, next_id |-> conn[c].next_id]
    BY <2>1
  <2>4. conn' = [conn EXCEPT ![c] = [lock |-> t, next_id |-> conn[c].next_id]]
    BY <2>2, <2>3
  <2>5. TRUE \in BOOLEAN
    OBVIOUS
  <2> QED BY <2>1, <2>2, <2>4, <2>5, StampStep
<1> QED BY <1>1, <1>2, <1>3, <1>4, <1>5, <1>6, <1>7, <1>8, RetainStep, ReleaseStep,
       FreeStep, ApplyStep, SerializeStep DEF Next

(* No dictionary yet.                                                       *)
LEMMA InitHolds ==
  ASSUME Init
  PROVE  DictInv
<1>1. Away \in States /\ Away.refs = 0 /\ Away.at = "out" /\ ~Away.freeing
  BY DEF Away, States
<1>2. th \in [Threads -> States] /\ \A t \in Threads : th[t] = Away
  BY <1>1 DEF Init
<1>3. DOMAIN obj = {"live", "refcount", "msg_id", "is_reply"}
      /\ obj.live = FALSE /\ obj.refcount = 0
  BY DEF Init, NoObj
<1>4. conn \in [Conns -> [lock : Threads \cup {NoThread}, next_id : Nat]]
  BY DEF Init
<1>5. DictTypes
  <2>1. obj.live \in BOOLEAN
    BY <1>3
  <2>2. obj.refcount \in Nat
    BY <1>3
  <2> QED BY <1>2, <1>3, <1>4, <2>1, <2>2 DEF DictTypes
<1>6. Tokens = {}
  BY <1>1, <1>2 DEF Tokens
<1>7. RefInv
  BY <1>1, <1>2, <1>3, <1>6, FS_EmptySet DEF Init, RefInv
<1> QED BY <1>1, <1>2, <1>5, <1>7 DEF DictInv, SendInv, StampHolds

-----------------------------------------------------------------------------
(* The theorems.                                                            *)

(* DictInv holds whatever the threads do with the dictionary.               *)
THEOREM DictInvariant == Spec => []DictInv
<1>1. DictInv /\ [Next]_vars => DictInv'
  BY NextKeeps
<1> QED BY <1>1, InitHolds, PTL DEF Spec

(* Whatever the threads retain, release, send and free, and in whatever     *)
(* order: the dictionary is there for everybody who owns a reference or is  *)
(* sending it, and exactly one thread frees it after the last release.      *)
THEOREM FreedByTheLast == Spec => []FreedOnce
<1>1. DictInv => FreedOnce
  <2> SUFFICES ASSUME DictInv PROVE FreedOnce
    OBVIOUS
  <2> DEFINE owners == {t \in Threads : th[t].refs > 0}
             freers == {t \in Threads : th[t].freeing}
  <2>1. DictTypes /\ RefInv /\ SendInv
    BY DEF DictInv
  <2>2. ASSUME owners # {} PROVE obj.live /\ freers = {}
    BY <2>1, <2>2, InUse
  <2>3. ASSUME obj.live, owners = {} PROVE Cardinality(freers) = 1
    <3>1. Tokens = {}
      BY <2>1, <2>3 DEF Tokens, DictTypes, States
    <3>2. obj.refcount = 0
      BY <2>1, <3>1, FS_EmptySet DEF RefInv
    <3>3. PICK t \in Threads : th[t].freeing
      BY <2>1, <2>3, <3>2 DEF RefInv
    <3>4. freers = {t}
      BY <2>1, <3>3 DEF RefInv
    <3> QED BY <3>4, FS_Singleton
  <2>4. ~obj.live => freers = {}
    BY <2>1 DEF RefInv
  <2>5. \A t \in Threads : th[t].at = "send" => th[t].refs > 0
    BY <2>1 DEF SendInv
  <2> QED BY <2>2, <2>3, <2>4, <2>5 DEF FreedOnce
<1> QED BY <1>1, DictInvariant, PTL

(* A message that is only sent on one connection goes out with the id and   *)
(* the flag of the call that sends it, however many threads send it.        *)
THEOREM StampKept == OneConnection /\ Spec => []StampHolds
<1>1. ASSUME OneConnection PROVE Spec => []StampHolds
  <2>1. DictInv => StampHolds
    BY <1>1 DEF DictInv
  <2> QED BY <2>1, DictInvariant, PTL
<1> QED BY <1>1

-----------------------------------------------------------------------------
(* Reading a frame.                                                         *)

(* Induction over the natural numbers, for sets: a set that were missing a  *)
(* number would be missing a least one.                                     *)
LEMMA SetInduction ==
  ASSUME NEW S, 0 \in S, \A n \in Nat : n \in S => n + 1 \in S
  PROVE  Nat \subseteq S
<1> SUFFICES ASSUME Nat \ S # {} PROVE FALSE
  OBVIOUS
<1> DEFINE R == OpToRel(<, Nat)
<1>1. PICK x \in Nat \ S : \A y \in Nat \ S : ~(<<y, x>> \in R)
  <2>1. IsWellFoundedOn(R, Nat)
    BY NatLessThanWellFounded
  <2> HIDE DEF R
  <2> QED BY <2>1, WFMin
<1>2. \A y \in Nat : <<y, x>> \in R <=> y < x
  BY DEF R, OpToRel
<1>3. x # 0 /\ x - 1 \in Nat /\ (x - 1) + 1 = x
  OBVIOUS
<1> HIDE DEF R
<1>4. <<x - 1, x>> \in R
  BY <1>2, <1>3
<1>5. x - 1 \in S
  BY <1>1, <1>3, <1>4
<1> QED BY <1>1, <1>3, <1>5

(* The powers of the base.                                                  *)
LEMMA PowIs ==
  /\ Pow[0] = 1
  /\ \A w \in 1..8 : Pow[w] = B * Pow[w - 1]
<1> DEFINE Is(g, n) == g = [i \in 0..n |-> IF i = 0 THEN 1 ELSE B * g[i - 1]]
           S == {n \in Nat : \E g : Is(g, n)}
<1>1. 0 \in S
  <2>1. Is([i \in 0..0 |-> 1], 0)
    OBVIOUS
  <2> HIDE DEF Is
  <2> QED BY <2>1
<1>2. ASSUME NEW n \in Nat, n \in S PROVE n + 1 \in S
  <2>1. PICK g : Is(g, n)
    BY <1>2
  <2> DEFINE h == [i \in 0..(n + 1) |-> IF i <= n THEN g[i] ELSE B * g[n]]
  <2>2. ASSUME NEW i \in 0..(n + 1) PROVE h[i] = IF i = 0 THEN 1 ELSE B * h[i - 1]
    <3>1. CASE i = 0
      BY <2>1, <3>1
    <3>2. CASE i \in 1..n
      BY <2>1, <3>2
    <3>3. CASE i = n + 1
      BY <2>1, <3>3
    <3> QED BY <3>1, <3>2, <3>3
  <2>3. Is(h, n + 1)
    BY <2>2
  <2> HIDE DEF Is, h
  <2> QED BY <2>3
<1>3. 8 \in S
  <2> HIDE DEF S
  <2> QED BY <1>1, <1>2, SetInduction
<1>4. Is(Pow, 8)
  <2>1. \E f : Is(f, 8)
    BY <1>3
  <2>2. Pow = CHOOSE g : Is(g, 8)
    BY Zenon DEF Pow
  <2> HIDE DEF Is
  <2> QED BY <2>1, <2>2
<1> HIDE DEF Pow
<1> QED BY <1>4

(* They are positive.                                                       *)
LEMMA PowType == \A w \in 0..8 : Pow[w] \in Nat /\ Pow[w] > 0
<1> DEFINE T == {n \in Nat : n <= 8 => Pow[n] \in Nat /\ Pow[n] > 0}
<1>1. 0 \in T
  BY PowIs
<1>2. ASSUME NEW n \in Nat, n \in T PROVE n + 1 \in T
  <2> SUFFICES ASSUME n + 1 <= 8 PROVE Pow[n + 1] \in Nat /\ Pow[n + 1] > 0
    OBVIOUS
  <2>1. PICK p \in Nat : p = Pow[n] /\ p > 0
    BY <1>2
  <2>2. Pow[n + 1] = B * p
    BY <2>1, PowIs
  <2>3. B * p \in Nat /\ B * p > 0
    BY <2>1, WireAssumption
  <2> QED BY <2>2, <2>3
<1>3. Nat \subseteq T
  <2> HIDE DEF T
  <2> QED BY <1>1, <1>2, SetInduction
<1> QED BY <1>3

(* How a number is written byte by byte: what is above the first k bytes    *)
(* is a byte and what is above k + 1.                                       *)
LEMMA DivStep ==
  ASSUME NEW v \in Nat, NEW k \in 0..7
  PROVE  /\ v \div Pow[k] \in Nat /\ v \div Pow[k + 1] \in Nat
         /\ (v \div Pow[k]) % B \in Bytes
         /\ v \div Pow[k] = B * (v \div Pow[k + 1]) + ((v \div Pow[k]) % B)
<1>1. PICK p \in Nat : p = Pow[k] /\ p > 0
  BY PowType
<1>2. Pow[k + 1] = B * p /\ B * p \in Nat /\ B * p > 0
  <2>1. k + 1 \in 1..8 /\ (k + 1) - 1 = k
    OBVIOUS
  <2> QED BY <1>1, <2>1, PowIs, WireAssumption
<1>3. PICK u \in Nat : u = v \div p
  BY <1>1
<1>4. v \div (B * p) = u \div B
  BY <1>1, <1>3, WireAssumption
<1>5. u \div B \in Nat /\ u % B \in 0..(B - 1) /\ u = (B * (u \div B)) + (u % B)
  BY WireAssumption
<1> QED BY <1>1, <1>2, <1>3, <1>4, <1>5 DEF Bytes

(* The loop of get_u16, get_u32 and get_u64, round by round.                *)
GetLoop(f, off, w, g) ==
  /\ Get(f, off, w) = g[w] /\ g[0] = 0
  /\ \A n \in Nat : n + 1 <= w =>
       g[n + 1] = B * g[n] + ByteAt(f, off + w + 1 - (n + 1))

LEMMA GetIs ==
  ASSUME NEW f, NEW off \in Nat, NEW w \in Nat
  PROVE  \E g : GetLoop(f, off, w, g)
<1> DEFINE Byte(i) == ByteAt(f, off + w + 1 - i)
           Is(g, n) == g = [i \in 0..n |-> IF i = 0 THEN 0 ELSE B * g[i - 1] + Byte(i)]
           S == {n \in Nat : \E g : Is(g, n)}
           v == CHOOSE g : Is(g, w)
<1> HIDE DEF Byte
<1>2. 0 \in S
  <2>1. Is([i \in 0..0 |-> 0], 0)
    OBVIOUS
  <2> QED BY <2>1
<1>3. ASSUME NEW n \in Nat, n \in S PROVE n + 1 \in S
  <2>1. PICK g : Is(g, n)
    BY <1>3
  <2> DEFINE h == [i \in 0..(n + 1) |-> IF i <= n THEN g[i] ELSE B * g[n] + Byte(i)]
  <2>2. ASSUME NEW i \in 0..(n + 1)
        PROVE  h[i] = IF i = 0 THEN 0 ELSE B * h[i - 1] + Byte(i)
    <3>1. CASE i = 0
      BY <2>1, <3>1
    <3>2. CASE i \in 1..n
      BY <2>1, <3>2
    <3>3. CASE i = n + 1
      BY <2>1, <3>3
    <3> QED BY <3>1, <3>2, <3>3
  <2>3. Is(h, n + 1)
    BY <2>2
  <2>4. n + 1 \in Nat
    OBVIOUS
  <2> HIDE DEF Is, h
  <2> QED BY <2>3, <2>4
<1>4. Is(v, w)
  <2>1. w \in S
    BY <1>2, <1>3, SetInduction
  <2> HIDE DEF Is
  <2> QED BY <2>1
<1>5. Get(f, off, w) = v[w]
  BY DEF Get, Byte
<1> HIDE DEF v
<1>6. v[0] = 0 /\ \A n \in Nat : n + 1 <= w => v[n + 1] = B * v[n] + Byte(n + 1)
  BY <1>4
<1>7. GetLoop(f, off, w, v)
  BY <1>5, <1>6 DEF GetLoop, Byte
<1> QED BY <1>7

(* They return unsigned numbers of their width.                             *)
LEMMA GetBound ==
  ASSUME NEW f \in Seq(Bytes), NEW off \in Nat, NEW w \in 0..8
  PROVE  Get(f, off, w) \in 0..(Pow[w] - 1)
<1>1. PICK g : GetLoop(f, off, w, g)
  <2>1. w \in Nat
    OBVIOUS
  <2> QED BY <2>1, GetIs, Zenon
<1>2. \A i \in Int : ByteAt(f, i) \in Bytes
  BY WireAssumption DEF ByteAt, Bytes
<1> DEFINE T == {n \in Nat : n <= w => g[n] \in 0..(Pow[n] - 1)}
<1>3. 0 \in T
  BY <1>1, PowIs DEF GetLoop
<1>4. ASSUME NEW n \in Nat, n \in T PROVE n + 1 \in T
  <2> SUFFICES ASSUME n + 1 <= w PROVE g[n + 1] \in 0..(Pow[n + 1] - 1)
    OBVIOUS
  <2>0. n \in 0..8 /\ n + 1 \in 1..8 /\ (n + 1) - 1 = n /\ off + w + 1 - (n + 1) \in Int
    OBVIOUS
  <2>1. PICK p \in Nat : p = Pow[n] /\ p > 0
    BY <2>0, PowType
  <2>2. PICK a \in Nat : a = g[n] /\ a <= p - 1
    BY <1>4, <2>1
  <2>3. PICK b \in Nat : b = ByteAt(f, off + w + 1 - (n + 1)) /\ b <= B - 1
    <3>1. ByteAt(f, off + w + 1 - (n + 1)) \in 0..(B - 1)
      BY <1>2, <2>0 DEF Bytes
    <3> QED BY <3>1, WireAssumption
  <2>4. g[n + 1] = (B * a) + b
    BY <1>1, <2>2, <2>3 DEF GetLoop
  <2>5. Pow[n + 1] = B * p
    BY <2>0, <2>1, PowIs
  <2>6. PICK x, y \in Nat : x = B * a /\ y = B * p /\ x <= y - B
    <3>1. B \in Nat /\ a \in Nat /\ p \in Nat /\ a + 1 <= p
      BY <2>1, <2>2, WireAssumption
    <3>2. B * a \in Nat /\ B * p \in Nat /\ B * (a + 1) <= B * p /\ B * (a + 1) = B * a + B
      BY <3>1
    <3> QED BY <3>1, <3>2
  <2>7. x + b \in 0..(y - 1)
    <3>1. x <= y - B /\ b <= B - 1 /\ B \in Nat
      BY <2>3, <2>6, WireAssumption
    <3> QED BY <3>1
  <2> QED BY <2>4, <2>5, <2>6, <2>7
<1>5. w \in T
  <2> HIDE DEF T
  <2> QED BY <1>3, <1>4, SetInduction
<1> QED BY <1>1, <1>5 DEF GetLoop

(* In particular those of the frame's fields.                               *)
LEMMA GetType ==
  ASSUME NEW f \in Seq(Bytes), NEW off \in Nat
  PROVE  /\ Get(f, off, 1) \in Nat /\ Get(f, off, 2) \in Nat
         /\ Get(f, off, 4) \in Nat /\ Get(f, off, 8) \in Nat
<1>1. ASSUME NEW w \in 0..8 PROVE Get(f, off, w) \in Nat
  <2>1. PICK q \in Nat : q = Pow[w]
    BY PowType
  <2>2. Get(f, off, w) \in 0..(q - 1)
    BY <2>1, GetBound
  <2> QED BY <2>2
<1>2. 1 \in 0..8 /\ 2 \in 0..8 /\ 4 \in 0..8 /\ 8 \in 0..8
  OBVIOUS
<1> QED BY <1>1, <1>2

(* What an entry can be: a C string that a length of two bytes can count,   *)
(* and a value of its C type.                                               *)
Fits(e) ==
  /\ e = [key |-> e.key, type |-> e.type, value |-> e.value]
  /\ e.key \in Seq(Bytes \ {0}) /\ Len(e.key) <= Pow[2] - 1
  /\ e.type \in Types /\ e.value \in ValuesOf(e.type)
  /\ e.type \in ByteTypes => Len(e.value) <= MaxMessage

(* A key that was read is a C string, no longer than what was read.         *)
LEMMA CStringType ==
  ASSUME NEW s \in Seq(Bytes)
  PROVE  CString(s) \in Seq(Bytes \ {0}) /\ Len(CString(s)) <= Len(s)
<1> DEFINE nuls == {i \in 1..Len(s) : s[i] = 0}
<1>1. CString(s) = IF nuls = {} THEN s ELSE SubSeq(s, 1, Min(nuls) - 1)
  BY DEF CString
<1>2. CASE nuls = {}
  <2>1. \A i \in 1..Len(s) : s[i] \in Bytes \ {0}
    BY <1>2
  <2>2. s \in Seq(Bytes \ {0})
    BY <2>1
  <2> QED BY <1>1, <1>2, <2>2
<1>3. CASE nuls # {}
  <2> DEFINE S == {n \in Nat : \A i \in nuls : n < i}
  <2>1. PICK x \in nuls : TRUE
    BY <1>3
  <2>2. PICK n \in Nat : n \in S /\ n + 1 \notin S
    <3> SUFFICES ASSUME \A n \in Nat : n \in S => n + 1 \in S PROVE FALSE
      OBVIOUS
    <3>1. 0 \in S
      OBVIOUS
    <3>2. Nat \subseteq S
      <4> HIDE DEF S
      <4> QED BY <3>1, SetInduction
    <3>3. x \in S /\ x \in Nat
      BY <3>2
    <3> QED BY <2>1, <3>3
  <2>3. n + 1 \in nuls /\ \A i \in nuls : n + 1 <= i
    BY <2>2
  <2>4. Min(nuls) = n + 1
    <3>1. \A i \in nuls : i \in Nat
      OBVIOUS
    <3> HIDE DEF nuls, S
    <3> QED BY <2>3, <3>1 DEF Min
  <2>5. n <= Len(s) /\ \A i \in 1..n : s[i] \in Bytes \ {0}
    <3>1. n + 1 <= Len(s)
      BY <2>3
    <3>2. \A i \in 1..n : i \notin nuls
      BY <2>3
    <3> QED BY <3>1, <3>2
  <2>6. CString(s) = SubSeq(s, 1, n)
    <3>1. (n + 1) - 1 = n
      OBVIOUS
    <3> HIDE DEF nuls, S
    <3> QED BY <1>1, <1>3, <2>4, <3>1
  <2>7. SubSeq(s, 1, n) = [i \in 1..n |-> s[i]]
    BY <2>5
  <2>8. PICK k \in Seq(Bytes \ {0}) : k = [i \in 1..n |-> s[i]] /\ Len(k) = n
    <3>1. PICK k : k = [i \in 1..n |-> s[i]]
      OBVIOUS
    <3>2. k \in [1..n -> Bytes \ {0}]
      BY <2>5, <3>1
    <3> QED BY <3>1, <3>2
  <2> QED BY <2>5, <2>6, <2>7, <2>8
<1> QED BY <1>2, <1>3

(* A number that was read with a width of 8, or of 1 for a BOOL, becomes a  *)
(* value of its type.                                                       *)
LEMMA ScalarType ==
  ASSUME NEW type \in BOOL..DOUBLE, NEW v \in Nat, type # BOOL => v <= Pow[8] - 1
  PROVE  Scalar(type, v) \in ValuesOf(type)
<1>1. PICK y \in 1..4 : y = type
  BY DEF BOOL, DOUBLE
<1>2. PICK P \in Nat : P = Pow[8] /\ P > 0
  <2>1. 8 \in 0..8
    OBVIOUS
  <2> QED BY <2>1, PowType
<1>3. CASE y = 1
  <2>1. Scalar(type, v) = IF v = 0 THEN 0 ELSE 1
    BY <1>1, <1>3 DEF Scalar, BOOL, INT64
  <2>2. ValuesOf(type) = {0, 1}
    BY <1>1, <1>3 DEF ValuesOf, BOOL, INT64, UINT64, DOUBLE, ByteTypes, STRING_TYPE, DATA
  <2> QED BY <2>1, <2>2
<1>4. CASE y = 2
  <2>1. Scalar(type, v) = Signed(v)
    BY <1>1, <1>4 DEF Scalar, BOOL, INT64
  <2>2. ValuesOf(type) = (-(P \div 2))..((P - 1) \div 2)
    BY <1>1, <1>2, <1>4 DEF ValuesOf, BOOL, INT64, UINT64, DOUBLE, ByteTypes, STRING_TYPE, DATA
  <2>3. v <= P - 1
    BY <1>1, <1>2, <1>4 DEF BOOL
  <2>4. Signed(v) = IF 2 * v < P THEN v ELSE v - P
    BY <1>2 DEF Signed
  <2>5. (IF 2 * v < P THEN v ELSE v - P) \in (-(P \div 2))..((P - 1) \div 2)
    BY <1>2, <2>3
  <2> QED BY <2>1, <2>2, <2>4, <2>5
<1>5. CASE y \in 3..4
  <2>1. Scalar(type, v) = v
    BY <1>1, <1>5 DEF Scalar, BOOL, INT64
  <2>2. ValuesOf(type) = 0..(P - 1)
    BY <1>1, <1>2, <1>5 DEF ValuesOf, BOOL, INT64, UINT64, DOUBLE, ByteTypes, STRING_TYPE, DATA
  <2>3. v <= P - 1
    BY <1>1, <1>2, <1>5 DEF BOOL
  <2> QED BY <1>2, <2>1, <2>2, <2>3
<1> QED BY <1>3, <1>4, <1>5

(* The loop of catbsd_xpc_deserialize has read no more than the payload,    *)
(* and only entries of a known type; while it goes on they are entries that *)
(* the setters could have made.                                             *)
Within(s, payload) ==
  \E X : /\ s \in [ok : BOOLEAN, off : 0..payload, es : Seq(X)]
         /\ \A x \in X : x.type \in Types
         /\ s.ok => \A x \in X : Fits(x)

(* Every round checks what it reads against the payload first.              *)
LEMMA GetEntryKeeps ==
  ASSUME NEW f \in Seq(Bytes), NEW payload \in Nat, NEW s, Within(s, payload)
  PROVE  Within(GetEntry(f, payload, s), payload)
<1>1. ASSUME NEW x, Within(x, payload) PROVE Within(Bad(x), payload)
  <2>1. PICK X : /\ x \in [ok : BOOLEAN, off : 0..payload, es : Seq(X)]
                 /\ \A y \in X : y.type \in Types
    BY <1>1 DEF Within
  <2>2. /\ Bad(x) \in [ok : BOOLEAN, off : 0..payload, es : Seq(X)]
        /\ Bad(x).ok = FALSE
    BY <2>1 DEF Bad
  <2> QED BY <2>1, <2>2 DEF Within
<1>2. ASSUME NEW n \in 0..payload PROVE Within([s EXCEPT !.off = n], payload)
  <2>1. PICK X : /\ s \in [ok : BOOLEAN, off : 0..payload, es : Seq(X)]
                 /\ \A y \in X : y.type \in Types
                 /\ s.ok => \A y \in X : Fits(y)
    BY DEF Within
  <2>2. /\ [s EXCEPT !.off = n] \in [ok : BOOLEAN, off : 0..payload, es : Seq(X)]
        /\ [s EXCEPT !.off = n].ok = s.ok
    BY <2>1
  <2> QED BY <2>1, <2>2 DEF Within
<1>3. ASSUME s.ok, NEW n \in 0..payload, NEW key \in Seq(Bytes \ {0}),
             Len(key) <= Pow[2] - 1, NEW type \in Types, NEW value \in ValuesOf(type)
      PROVE  Within(SetRead(s, n, key, type, value), payload)
  <2> DEFINE e == [key |-> key, type |-> type, value |-> value]
             rc == IF type \in ByteTypes THEN Len(value) <= MaxMessage ELSE key # <<>>
             t == [s EXCEPT !.off = n,
                     !.es = Append(@, [key |-> key, type |-> type, value |-> value])]
  <2>1. SetRead(s, n, key, type, value) = IF rc THEN t ELSE Bad(t)
    BY Zenon DEF SetRead
  <2>2. PICK X : /\ s \in [ok : BOOLEAN, off : 0..payload, es : Seq(X)]
                 /\ \A y \in X : y.type \in Types
                 /\ \A y \in X : Fits(y)
    BY <1>3 DEF Within
  <2>3. e.type \in Types /\ (rc => Fits(e))
    BY <1>3 DEF Fits
  <2>4. t = [s EXCEPT !.off = n, !.es = Append(s.es, e)]
    BY Zenon
  <2> HIDE DEF e, t, rc
  <2>5. PICK es \in Seq(X \cup {e}) : es = Append(s.es, e)
    <3>1. PICK r \in Seq(X) : r = s.es
      BY <2>2
    <3>2. Append(r, e) \in Seq(X \cup {e})
      OBVIOUS
    <3> QED BY <3>1, <3>2
  <2>6. t \in [ok : BOOLEAN, off : 0..payload, es : Seq(X \cup {e})]
    BY <2>2, <2>4, <2>5
  <2>7. /\ Bad(t) \in [ok : BOOLEAN, off : 0..payload, es : Seq(X \cup {e})]
        /\ Bad(t).ok = FALSE
    BY <2>6 DEF Bad
  <2>8. CASE rc
    <3>1. \A y \in X \cup {e} : y.type \in Types /\ Fits(y)
      BY <2>2, <2>3, <2>8
    <3>2. Within(t, payload)
      BY <2>6, <3>1 DEF Within
    <3> QED BY <2>1, <2>8, <3>2
  <2>9. CASE ~rc
    <3>1. \A y \in X \cup {e} : y.type \in Types
      BY <2>2, <2>3
    <3>2. Within(Bad(t), payload)
      BY <2>7, <3>1 DEF Within
    <3> QED BY <2>1, <2>9, <3>2
  <2> QED BY <2>8, <2>9
<1>4. PICK o \in 0..payload : o = s.off
  BY DEF Within
<1>5. PICK klen \in Nat : klen = Get(f, HeaderSize + s.off, 2) /\ klen <= Pow[2] - 1
  <2>1. HeaderSize + s.off \in Nat /\ 2 \in 0..8
    BY <1>4 DEF HeaderSize
  <2>2. PICK q \in Nat : q = Pow[2]
    BY <2>1, PowType
  <2>3. Get(f, HeaderSize + s.off, 2) \in 0..(q - 1)
    BY <2>1, <2>2, GetBound
  <2> QED BY <2>2, <2>3
<1>6. PICK type \in Nat : type = Get(f, HeaderSize + (s.off + 2) + klen, 1)
  <2>1. HeaderSize + (s.off + 2) + klen \in Nat
    BY <1>4 DEF HeaderSize
  <2> QED BY <2>1, GetType
<1>7. PICK vlen \in Nat : vlen = Get(f, HeaderSize + ((s.off + 2) + klen + 1), 4)
  <2>1. HeaderSize + ((s.off + 2) + klen + 1) \in Nat
    BY <1>4 DEF HeaderSize
  <2> QED BY <2>1, GetType
<1> DEFINE read == [i \in 1..klen |-> ByteAt(f, HeaderSize + (s.off + 2) + i)]
           key == CString(read)
           v   == (s.off + 2) + klen + 1
           width == IF type = BOOL THEN 1 ELSE 8
           scalar == Scalar(type, Get(f, HeaderSize + v, width))
           bytes == [i \in 1..vlen |-> ByteAt(f, HeaderSize + v + 4 + i)]
<1>8. GetEntry(f, payload, s) =
        CASE ~s.ok -> s
          [] s.ok /\ s.off + 2 > payload -> Bad(s)
          [] s.ok /\ s.off + 2 <= payload ->
               IF ~KeyFits(s.off + 2, klen, payload) THEN Bad([s EXCEPT !.off = s.off + 2])
               ELSE IF type \in BOOL..DOUBLE /\ v + width <= payload
               THEN SetRead(s, v + width, key, type, scalar)
               ELSE IF type \in ByteTypes /\ v + 4 <= payload /\ v + 4 + vlen <= payload
               THEN SetRead(s, v + 4 + vlen, key, type, bytes)
               ELSE Bad([s EXCEPT !.off = v])
  BY <1>5, <1>6, <1>7, Zenon DEF GetEntry
<1>9. v \in Nat /\ width \in Nat /\ v = o + 2 + klen + 1
  BY <1>4
<1>10. \A i \in Nat : ByteAt(f, i) \in Bytes
  BY WireAssumption DEF ByteAt, Bytes
<1>11. key \in Seq(Bytes \ {0}) /\ Len(key) <= Pow[2] - 1
  <2>1. \A i \in 1..klen : HeaderSize + (s.off + 2) + i \in Nat
    BY <1>4 DEF HeaderSize
  <2>2. PICK r \in Seq(Bytes) : r = read /\ Len(r) = klen
    <3>1. PICK r : r = read
      OBVIOUS
    <3>2. r \in [1..klen -> Bytes]
      BY <1>10, <2>1, <3>1
    <3> QED BY <3>1, <3>2
  <2>3. PICK k \in Seq(Bytes \ {0}) : k = key /\ Len(k) <= klen
    <3> HIDE DEF read
    <3> QED BY <2>2, CStringType
  <2>4. PICK q \in Nat : q = Pow[2]
    BY PowType
  <2> HIDE DEF key
  <2> QED BY <1>5, <2>3, <2>4
<1>12. ASSUME type \in BOOL..DOUBLE PROVE scalar \in ValuesOf(type)
  <2>1. HeaderSize + v \in Nat /\ 1 \in 0..8 /\ 8 \in 0..8
    BY <1>9 DEF HeaderSize
  <2>2. PICK q \in Nat : q = Pow[8]
    BY <2>1, PowType
  <2>3. PICK x \in Nat : x = Get(f, HeaderSize + v, width) /\ (type # BOOL => x <= q - 1)
    <3>1. CASE type = BOOL
      <4>1. width = 1
        BY <3>1
      <4> QED BY <2>1, <3>1, <4>1, GetType
    <3>2. CASE type # BOOL
      <4>1. width = 8
        BY <3>2
      <4>2. Get(f, HeaderSize + v, 8) \in 0..(q - 1)
        BY <2>1, <2>2, GetBound
      <4> QED BY <2>2, <3>2, <4>1, <4>2
    <3> QED BY <3>1, <3>2
  <2> QED BY <1>12, <2>2, <2>3, ScalarType
<1>13. ASSUME type \in ByteTypes PROVE bytes \in ValuesOf(type)
  <2>1. \A i \in 1..vlen : HeaderSize + v + 4 + i \in Nat
    BY <1>9 DEF HeaderSize
  <2>2. PICK b : b = bytes
    OBVIOUS
  <2>3. b \in [1..vlen -> Bytes]
    BY <1>10, <2>1, <2>2
  <2>4. b \in Seq(Bytes)
    BY <2>3
  <2>5. ValuesOf(type) = Seq(Bytes)
    BY <1>13 DEF ValuesOf, BOOL, INT64, UINT64, DOUBLE, ByteTypes, STRING_TYPE, DATA
  <2> QED BY <2>2, <2>4, <2>5
<1> HIDE DEF read, key, scalar, bytes, v, width
<1>14. CASE ~s.ok
  BY <1>8, <1>14
<1>15. CASE s.ok /\ s.off + 2 > payload
  BY <1>1, <1>4, <1>8, <1>15
<1>16. CASE s.ok /\ s.off + 2 <= payload
  <2>1. s.off + 2 \in 0..payload /\ ~(s.off + 2 > payload)
    BY <1>4, <1>16
  <2>2. CASE ~KeyFits(s.off + 2, klen, payload)
    <3>1. GetEntry(f, payload, s) = Bad([s EXCEPT !.off = s.off + 2])
      BY <1>8, <1>16, <2>1, <2>2
    <3> QED BY <1>1, <1>2, <2>1, <3>1
  <2>3. CASE /\ KeyFits(s.off + 2, klen, payload)
             /\ type \in BOOL..DOUBLE /\ v + width <= payload
    <3>1. GetEntry(f, payload, s) = SetRead(s, v + width, key, type, scalar)
      BY <1>8, <1>16, <2>1, <2>3
    <3>2. v + width \in 0..payload
      BY <1>9, <2>3
    <3>3. type \in Types
      BY <2>3 DEF Types, BOOL, DOUBLE, DATA
    <3> QED BY <1>3, <1>11, <1>12, <1>16, <2>3, <3>1, <3>2, <3>3
  <2>4. CASE /\ KeyFits(s.off + 2, klen, payload)
             /\ ~(type \in BOOL..DOUBLE /\ v + width <= payload)
             /\ type \in ByteTypes /\ v + 4 <= payload /\ v + 4 + vlen <= payload
    <3>1. GetEntry(f, payload, s) = SetRead(s, v + 4 + vlen, key, type, bytes)
      BY <1>8, <1>16, <2>1, <2>4
    <3>2. v + 4 + vlen \in 0..payload
      BY <1>9, <2>4
    <3>3. type \in Types
      BY <2>4 DEF Types, ByteTypes, BOOL, STRING_TYPE, DATA
    <3> QED BY <1>3, <1>11, <1>13, <1>16, <2>4, <3>1, <3>2, <3>3
  <2>5. CASE /\ KeyFits(s.off + 2, klen, payload)
             /\ ~(type \in BOOL..DOUBLE /\ v + width <= payload)
             /\ ~(type \in ByteTypes /\ v + 4 <= payload /\ v + 4 + vlen <= payload)
    <3>1. GetEntry(f, payload, s) = Bad([s EXCEPT !.off = v])
      BY <1>8, <1>16, <2>1, <2>5
    <3>2. v \in 0..payload
      BY <1>4, <1>9, <2>5 DEF KeyFits
    <3> QED BY <1>1, <1>2, <3>1, <3>2
  <2> QED BY <2>2, <2>3, <2>4, <2>5
<1> QED
  <2>1. s.ok \in BOOLEAN /\ (s.off + 2 > payload \/ s.off + 2 <= payload)
    BY <1>4 DEF Within
  <2> QED BY <1>14, <1>15, <1>16, <2>1

(* The loop of catbsd_xpc_deserialize: what each round finds and what the   *)
(* last one leaves.                                                         *)
ReadLoop(f, run, rounds) ==
  LET ok == HasHeader(f) /\ Payload(f) + HeaderSize <= Len(f)
  IN /\ rounds = IF ~ok THEN 0
                 ELSE IF Get(f, 20, 4) <= Payload(f) THEN Get(f, 20, 4) ELSE Payload(f) + 1
     /\ rounds \in Nat
     /\ run[0] = [ok |-> ok, off |-> 0, es |-> <<>>]
     /\ \A n \in Nat : n + 1 <= rounds => run[n + 1] = GetEntry(f, Payload(f), run[n])
     /\ catbsd_xpc_deserialize(f) =
          [ok |-> run[rounds].ok, off |-> run[rounds].off, es |-> run[rounds].es,
           msg_id |-> Get(f, 8, 8), is_reply |-> Get(f, 16, 4) % 2 = 1]

LEMMA ReadLoopIs ==
  ASSUME NEW f \in Seq(Bytes)
  PROVE  \E run, rounds : ReadLoop(f, run, rounds)
<1>1. PICK payload \in Nat : payload = Payload(f)
  BY GetType DEF Payload
<1>2. PICK count \in Nat : count = Get(f, 20, 4)
  BY GetType
<1> DEFINE ok == HasHeader(f) /\ payload + HeaderSize <= Len(f)
           start == [ok |-> ok, off |-> 0, es |-> <<>>]
           rounds == IF ~ok THEN 0 ELSE IF count <= payload THEN count ELSE payload + 1
           Is(g, n) == g = [i \in 0..n |-> IF i = 0 THEN start
                                           ELSE GetEntry(f, payload, g[i - 1])]
           S == {n \in Nat : \E g : Is(g, n)}
           run == CHOOSE g : Is(g, rounds)
<1>3. rounds \in Nat
  OBVIOUS
<1>4. start.ok = ok
  OBVIOUS
<1>5. catbsd_xpc_deserialize(f) =
        [ok |-> run[rounds].ok, off |-> run[rounds].off, es |-> run[rounds].es,
         msg_id |-> Get(f, 8, 8), is_reply |-> Get(f, 16, 4) % 2 = 1]
  BY <1>1, <1>2, <1>4, Zenon DEF catbsd_xpc_deserialize
<1> HIDE DEF start, rounds
<1>6. 0 \in S
  <2>1. Is([i \in 0..0 |-> start], 0)
    OBVIOUS
  <2> HIDE DEF Is
  <2> QED BY <2>1
<1>7. ASSUME NEW n \in Nat, n \in S PROVE n + 1 \in S
  <2>1. PICK g : Is(g, n)
    BY <1>7
  <2> DEFINE h == [i \in 0..(n + 1) |-> IF i <= n THEN g[i] ELSE GetEntry(f, payload, g[n])]
  <2>2. ASSUME NEW i \in 0..(n + 1)
        PROVE  h[i] = IF i = 0 THEN start ELSE GetEntry(f, payload, h[i - 1])
    <3>1. CASE i = 0
      BY <2>1, <3>1
    <3>2. CASE i \in 1..n
      BY <2>1, <3>2
    <3>3. CASE i = n + 1
      BY <2>1, <3>3
    <3> QED BY <3>1, <3>2, <3>3
  <2>3. Is(h, n + 1)
    BY <2>2
  <2>4. n + 1 \in Nat
    OBVIOUS
  <2> HIDE DEF Is, h
  <2> QED BY <2>3, <2>4
<1>8. Is(run, rounds)
  <2>1. rounds \in S
    <3> HIDE DEF S
    <3> QED BY <1>3, <1>6, <1>7, SetInduction
  <2> HIDE DEF Is
  <2> QED BY <2>1
<1>9. PICK r : r = run
  OBVIOUS
<1> HIDE DEF run
<1>10. r[0] = start /\ \A n \in Nat : n + 1 <= rounds => r[n + 1] = GetEntry(f, payload, r[n])
  BY <1>3, <1>8, <1>9
<1>11. ReadLoop(f, r, rounds)
  BY <1>1, <1>2, <1>3, <1>5, <1>9, <1>10, Zenon DEF ReadLoop, rounds, start
<1> QED BY <1>11

(* Whatever bytes are given to catbsd_xpc_deserialize, it reads only what   *)
(* the header declares and the buffer has, and sets entries of known types, *)
(* which the setters could have made if it accepts the frame.               *)
LEMMA ReadsWithin ==
  ASSUME NEW f \in Seq(Bytes)
  PROVE  LET d == catbsd_xpc_deserialize(f)
         IN /\ d.off > 0 => d.off <= Payload(f) /\ HeaderSize + d.off <= Len(f)
            /\ \E X : /\ d.es \in Seq(X) /\ \A x \in X : x.type \in Types
                      /\ d.ok => \A x \in X : Fits(x)
            /\ d.msg_id \in 0..(Pow[8] - 1) /\ d.is_reply \in BOOLEAN
<1>1. PICK payload \in Nat : payload = Payload(f)
  BY GetType DEF Payload
<1>2. PICK run, rounds : ReadLoop(f, run, rounds)
  BY ReadLoopIs
<1> DEFINE ok == HasHeader(f) /\ payload + HeaderSize <= Len(f)
           T == {n \in Nat : n <= rounds => Within(run[n], payload)}
<1>3. /\ rounds \in Nat /\ (~ok => rounds = 0)
      /\ run[0] = [ok |-> ok, off |-> 0, es |-> <<>>]
      /\ \A n \in Nat : n + 1 <= rounds => run[n + 1] = GetEntry(f, payload, run[n])
  BY <1>1, <1>2 DEF ReadLoop
<1>4. ok \in BOOLEAN /\ Len(f) \in Nat /\ (ok => payload + HeaderSize <= Len(f))
  BY DEF HasHeader
<1> HIDE DEF ok
<1>5. Within(run[0], payload)
  <2>1. run[0] \in [ok : BOOLEAN, off : 0..payload, es : Seq({})]
    BY <1>3, <1>4
  <2> QED BY <2>1 DEF Within
<1>6. 0 \in T
  BY <1>5
<1>7. ASSUME NEW n \in Nat, n \in T PROVE n + 1 \in T
  <2> SUFFICES ASSUME n + 1 <= rounds PROVE Within(run[n + 1], payload)
    OBVIOUS
  <2>1. Within(run[n], payload)
    BY <1>3, <1>7
  <2> QED BY <1>3, <2>1, GetEntryKeeps
<1>8. Within(run[rounds], payload)
  <2>1. rounds \in T
    <3> HIDE DEF T
    <3> QED BY <1>3, <1>6, <1>7, SetInduction
  <2> QED BY <1>3, <2>1
<1>9. PICK off \in 0..payload : off = run[rounds].off
  BY <1>8 DEF Within
<1>10. PICK d : d = catbsd_xpc_deserialize(f)
  OBVIOUS
<1>11. /\ d.ok = run[rounds].ok /\ d.off = off /\ d.es = run[rounds].es
       /\ d.msg_id = Get(f, 8, 8) /\ d.is_reply = (Get(f, 16, 4) % 2 = 1)
  <2>1. d = [ok |-> run[rounds].ok, off |-> run[rounds].off, es |-> run[rounds].es,
             msg_id |-> Get(f, 8, 8), is_reply |-> Get(f, 16, 4) % 2 = 1]
    BY <1>2, <1>10, Zenon DEF ReadLoop
  <2> QED BY <1>9, <2>1
<1>12. off > 0 => off <= Payload(f) /\ HeaderSize + off <= Len(f)
  <2>1. CASE ok
    BY <1>1, <1>4, <2>1 DEF HeaderSize
  <2>2. CASE ~ok
    BY <1>3, <1>9, <2>2
  <2> QED BY <1>4, <2>1, <2>2
<1>13. \E X : /\ d.es \in Seq(X) /\ \A x \in X : x.type \in Types
              /\ d.ok => \A x \in X : Fits(x)
  BY <1>8, <1>11 DEF Within
<1>14. d.msg_id \in 0..(Pow[8] - 1) /\ d.is_reply \in BOOLEAN
  <2>1. 8 \in Nat /\ 8 \in 0..8
    OBVIOUS
  <2>2. Get(f, 8, 8) \in 0..(Pow[8] - 1)
    BY <2>1, GetBound
  <2> QED BY <1>11, <2>2
<1> QED BY <1>10, <1>11, <1>12, <1>13, <1>14

(* A received frame is one of the frames.                                   *)
BufInv == buf \in Frames \cup {NoFrame}

(* Only Arrive brings a frame, and Deserialize takes it.                    *)
LEMMA FrameInvariant == Spec => []BufInv
<1> USE DEF BufInv
<1>1. Init => BufInv
  BY DEF Init
<1>2. BufInv /\ [Next]_vars => BufInv'
  <2> SUFFICES ASSUME BufInv, [Next]_vars PROVE BufInv'
    OBVIOUS
  <2>1. ASSUME NEW f \in Frames, Arrive(f) PROVE BufInv'
    BY <2>1 DEF Arrive
  <2>2. ASSUME NEW t \in Threads, Deserialize(t) PROVE BufInv'
    <3>1. buf' = NoFrame
      BY <2>2, Zenon DEF Deserialize
    <3> QED BY <3>1
  <2>3. ASSUME NEW t \in Threads, NEW c \in Conns,
               SendMessage(t, c) \/ \E id \in 1..MaxSends : Reply(t, c, id)
        PROVE  BufInv'
    <3>1. buf' = buf
      BY <2>3, Zenon DEF SendMessage, Reply, Stamp
    <3> QED BY <3>1
  <2>4. ASSUME NEW t \in Threads, NEW k \in Keys,
               \/ catbsd_xpc_dictionary_remove(t, k)
               \/ \E v \in Values : catbsd_xpc_dictionary_set(t, k, v)
        PROVE  BufInv'
    <3>1. buf' = buf
      BY <2>4, Zenon DEF catbsd_xpc_dictionary_remove, catbsd_xpc_dictionary_set
    <3> QED BY <3>1
  <2>5. ASSUME NEW t \in Threads,
               \/ catbsd_xpc_dictionary_create(t) \/ catbsd_xpc_release(t) \/ Free(t)
               \/ \E u \in Threads : catbsd_xpc_retain(t, u)
               \/ catbsd_xpc_dictionary_apply(t) \/ ApplyReturns(t) \/ Serialize(t)
        PROVE  BufInv'
    <3>1. buf' = buf
      BY <2>5, Zenon DEF catbsd_xpc_dictionary_create, catbsd_xpc_release, Free,
         catbsd_xpc_retain, catbsd_xpc_dictionary_apply, ApplyReturns, Serialize
    <3> QED BY <3>1
  <2>6. CASE UNCHANGED vars
    BY <2>6 DEF vars
  <2> HIDE DEF BufInv
  <2> QED BY <2>1, <2>2, <2>3, <2>4, <2>5, <2>6, Zenon DEF Next
<1> QED BY <1>1, <1>2, PTL DEF Spec

(* xpc_shim.c, above catbsd_xpc_deserialize, promises bounds checks against *)
(* the declared payload: no frame, well-formed or not, makes the parser     *)
(* read past it or past the buffer.                                         *)
THEOREM FramesReadInBounds == Spec => []ReadsInBounds
<1>1. BufInv => ReadsInBounds
  <2> SUFFICES ASSUME BufInv, buf # NoFrame PROVE ReadsInBounds
    BY DEF ReadsInBounds
  <2>1. buf \in Seq(Bytes)
    BY DictionaryAssumption DEF BufInv
  <2> QED BY <2>1, ReadsWithin DEF ReadsInBounds
<1> QED BY <1>1, FrameInvariant, PTL

-----------------------------------------------------------------------------
(* The list of entries.                                                     *)

(* The memory of a dictionary whose entries are drawn from E.               *)
Heads(E) == [head : Nodes \cup {Nil}, tail : Nodes \cup {Nil}, count : Nat,
             node : [Nodes -> [next : Nodes \cup {Nil}, entry : E]]]

(* The nodes from the head on are those of l, each of them once.            *)
Linked(h, l) ==
  /\ l \in Seq(Nodes)
  /\ \A i, j \in 1..Len(l) : l[i] = l[j] => i = j
  /\ h.head = IF Len(l) = 0 THEN Nil ELSE l[1]
  /\ \A i \in 1..Len(l) : h.node[l[i]].next = IF i = Len(l) THEN Nil ELSE l[i + 1]

(* l is all there is: its last node is the tail, its length the count, the  *)
(* nodes on it are the ones in use, and their keys are different.           *)
Sound(h, l) ==
  /\ \E E : h \in Heads(E)
  /\ Linked(h, l)
  /\ h.tail = IF Len(l) = 0 THEN Nil ELSE l[Len(l)]
  /\ h.count = Len(l)
  /\ \A n \in Nodes : h.node[n].entry.type # 0 <=> \E i \in 1..Len(l) : l[i] = n
  /\ \A i, j \in 1..Len(l) :
       h.node[l[i]].entry.key = h.node[l[j]].entry.key => i = j

(* A list without a repetition is no longer than there are nodes.           *)
LEMMA LinkedLength ==
  ASSUME NEW l \in Seq(Nodes), \A i, j \in 1..Len(l) : l[i] = l[j] => i = j
  PROVE  Cardinality(Nodes) \in Nat /\ Len(l) <= Cardinality(Nodes)
<1>1. IsFiniteSet(Nodes)
  BY DictionaryAssumption
<1>2. Cardinality(1..Len(l)) = Len(l)
  BY FS_Interval
<1>3. l \in Injection(1..Len(l), Nodes)
  BY DEF Injection, IsInjective
<1> QED BY <1>1, <1>2, <1>3, FS_Injection, FS_CardinalityType

(* The walk from the head meets the nodes of l.                             *)
LEMMA ListIs ==
  ASSUME NEW h, NEW l, Linked(h, l)
  PROVE  List(h) = l
<1> DEFINE N == Cardinality(Nodes)
           W == [i \in 1..(N + 1) |-> IF i <= Len(l) THEN l[i] ELSE Nil]
           Is(w) == w = [i \in 1..(N + 1) |->
                           IF i = 1 THEN h.head
                           ELSE IF w[i - 1] = Nil THEN Nil ELSE h.node[w[i - 1]].next]
           w == CHOOSE w : Is(w)
           T == {n \in Nat : n \in 1..(N + 1) => w[n] = W[n]}
<1>1. l \in Seq(Nodes) /\ Len(l) \in Nat /\ \A i \in 1..Len(l) : l[i] \in Nodes
  BY DEF Linked
<1>2. N \in Nat /\ Len(l) <= N
  BY <1>1, LinkedLength DEF Linked
<1>3. Nil \notin Nodes
  BY DictionaryAssumption
<1> HIDE DEF N
<1>4. Is(W)
  <2>1. ASSUME NEW i \in 1..(N + 1)
        PROVE  W[i] = IF i = 1 THEN h.head
                      ELSE IF W[i - 1] = Nil THEN Nil ELSE h.node[W[i - 1]].next
    <3>1. CASE i = 1
      BY <1>1, <1>2, <3>1 DEF Linked
    <3>2. CASE i > 1 /\ i - 1 <= Len(l)
      <4>1. PICK j \in 1..Len(l) : j = i - 1
        BY <1>1, <3>2
      <4>2. W[i - 1] = l[j] /\ W[i - 1] # Nil
        BY <1>1, <1>2, <1>3, <4>1
      <4>3. h.node[l[j]].next = IF j = Len(l) THEN Nil ELSE l[j + 1]
        BY DEF Linked
      <4>4. W[i] = IF j = Len(l) THEN Nil ELSE l[j + 1]
        BY <1>1, <1>2, <4>1
      <4> QED BY <3>2, <4>2, <4>3, <4>4
    <3>3. CASE i > 1 /\ i - 1 > Len(l)
      BY <1>1, <1>2, <3>3
    <3> QED BY <1>1, <3>1, <3>2, <3>3
  <2> QED BY <2>1
<1>5. Is(w)
  <2> HIDE DEF Is, W
  <2> QED BY <1>4
<1>6. Walk(h) = w
  BY Zenon DEF Walk, N
<1> HIDE DEF w
<1>7. 0 \in T
  OBVIOUS
<1>8. ASSUME NEW n \in Nat, n \in T PROVE n + 1 \in T
  <2> SUFFICES ASSUME n + 1 \in 1..(N + 1) PROVE w[n + 1] = W[n + 1]
    OBVIOUS
  <2>1. n = 0 \/ w[n] = W[n]
    BY <1>2, <1>8
  <2>2. ASSUME NEW g, Is(g)
        PROVE  g[n + 1] = IF n = 0 THEN h.head
                          ELSE IF g[n] = Nil THEN Nil ELSE h.node[g[n]].next
    <3>1. PICK m \in 1..(N + 1) : m = n + 1
      OBVIOUS
    <3>2. m - 1 = n /\ (m = 1 <=> n = 0)
      BY <3>1
    <3>3. g[m] = IF m = 1 THEN h.head
                 ELSE IF g[m - 1] = Nil THEN Nil ELSE h.node[g[m - 1]].next
      BY <2>2
    <3> HIDE DEF Is
    <3> QED BY <3>1, <3>2, <3>3
  <2> HIDE DEF W, Is
  <2>3. w[n + 1] = IF n = 0 THEN h.head
                   ELSE IF w[n] = Nil THEN Nil ELSE h.node[w[n]].next
    BY <1>5, <2>2
  <2>4. W[n + 1] = IF n = 0 THEN h.head
                   ELSE IF W[n] = Nil THEN Nil ELSE h.node[W[n]].next
    BY <1>4, <2>2
  <2> QED BY <2>1, <2>3, <2>4
<1>9. \A n \in 1..(N + 1) : w[n] = W[n]
  <2>1. Nat \subseteq T
    <3> HIDE DEF T
    <3> QED BY <1>7, <1>8, SetInduction
  <2>2. ASSUME NEW n \in 1..(N + 1) PROVE n \in T
    <3> HIDE DEF T
    <3> QED BY <1>2, <2>1
  <2> HIDE DEF W
  <2> QED BY <2>2
<1>10. w = W
  <2>1. DOMAIN w = 1..(N + 1) /\ w = [i \in 1..(N + 1) |-> w[i]]
    BY <1>5
  <2>2. W = [i \in 1..(N + 1) |-> W[i]]
    OBVIOUS
  <2> HIDE DEF W, Is
  <2> QED BY <1>9, <2>1, <2>2
<1>11. {i \in DOMAIN W : W[i] # Nil} = 1..Len(l)
  BY <1>1, <1>2, <1>3
<1>12. Cardinality(1..Len(l)) = Len(l)
  <2>1. PICK n \in Nat : n = Len(l)
    BY <1>1
  <2>2. Cardinality(1..n) = n
    BY FS_Interval
  <2> QED BY <2>1, <2>2
<1>13. List(h) = SubSeq(W, 1, Len(l))
  <2> HIDE DEF W
  <2> QED BY <1>6, <1>10, <1>11, <1>12 DEF List
<1>14. SubSeq(W, 1, Len(l)) = [i \in 1..Len(l) |-> W[i]]
  BY <1>1, <1>2
<1>15. \A i \in 1..Len(l) : W[i] = l[i]
  BY <1>1, <1>2
<1>16. l = [i \in 1..Len(l) |-> l[i]]
  BY <1>1
<1> HIDE DEF W
<1> QED BY <1>13, <1>14, <1>15, <1>16

(* entry_find finds the entry with a key, if there is one.                  *)
LEMMA FindIs ==
  ASSUME NEW h, NEW l, Sound(h, l), NEW k
  PROVE  /\ \A i \in 1..Len(l) : h.node[l[i]].entry.key = k => entry_find(h, k) = l[i]
         /\ (\A i \in 1..Len(l) : h.node[l[i]].entry.key # k) => entry_find(h, k) = Nil
<1> DEFINE hits == {i \in 1..Len(l) : h.node[l[i]].entry.key = k}
<1>1. l \in Seq(Nodes) /\ DOMAIN l = 1..Len(l)
  BY DEF Sound, Linked
<1>2. entry_find(h, k) = IF hits = {} THEN Nil ELSE l[Min(hits)]
  <2> DEFINE hs == {i \in DOMAIN List(h) : h.node[List(h)[i]].entry.key = k}
  <2>1. List(h) = l
    BY ListIs DEF Sound
  <2>2. entry_find(h, k) = IF hs = {} THEN Nil ELSE List(h)[Min(hs)]
    BY DEF entry_find
  <2>3. hs = hits
    BY <1>1, <2>1
  <2> HIDE DEF hs, hits
  <2> QED BY <2>1, <2>2, <2>3
<1>3. ASSUME NEW i \in 1..Len(l), h.node[l[i]].entry.key = k PROVE hits = {i}
  BY <1>3 DEF Sound
<1>4. ASSUME NEW i \in Int PROVE Min({i}) = i
  BY DEF Min
<1>5. (\A i \in 1..Len(l) : h.node[l[i]].entry.key # k) => hits = {}
  OBVIOUS
<1> HIDE DEF hits
<1> QED BY <1>2, <1>3, <1>4, <1>5

(* Setting a key that is there changes its entry and nothing else.          *)
LEMMA ResetReplaces ==
  ASSUME NEW h, NEW l, Sound(h, l), NEW e, e.type # 0,
         NEW i \in 1..Len(l), h.node[l[i]].entry.key = e.key
  PROVE  LET g == entry_reset(h, e)
         IN /\ Sound(g, l)
            /\ g.node[l[i]].entry = e
            /\ \A j \in 1..Len(l) : j # i => g.node[l[j]].entry = h.node[l[j]].entry
<1> DEFINE g == [h EXCEPT !.node[l[i]].entry = e]
<1>1. l \in Seq(Nodes) /\ l[i] \in Nodes /\ \A j \in 1..Len(l) : l[j] \in Nodes
  BY DEF Sound, Linked
<1>2. entry_reset(h, e) = g
  <2>1. entry_find(h, e.key) = l[i]
    BY FindIs
  <2>2. l[i] # Nil
    BY <1>1, DictionaryAssumption
  <2> QED BY <2>1, <2>2 DEF entry_reset
<1>3. PICK E : h \in Heads(E)
  BY DEF Sound
<1>4. g \in Heads(E \cup {e})
  BY <1>1, <1>3 DEF Heads
<1>5. /\ g.head = h.head /\ g.tail = h.tail /\ g.count = h.count
      /\ \A n \in Nodes : /\ g.node[n].next = h.node[n].next
                          /\ g.node[n].entry = IF n = l[i] THEN e ELSE h.node[n].entry
  BY <1>1, <1>3 DEF Heads
<1> HIDE DEF g
<1>6. \A j \in 1..Len(l) : l[j] = l[i] <=> j = i
  BY DEF Sound, Linked
<1>7. Linked(g, l)
  <2>1. Linked(h, l)
    BY DEF Sound
  <2>2. \A j \in 1..Len(l) : g.node[l[j]].next = h.node[l[j]].next
    BY <1>1, <1>5
  <2> QED BY <1>5, <2>1, <2>2 DEF Linked
<1>8. \A n \in Nodes : g.node[n].entry.type # 0 <=> \E j \in 1..Len(l) : l[j] = n
  BY <1>1, <1>5 DEF Sound
<1>9. \A j \in 1..Len(l) : g.node[l[j]].entry.key = h.node[l[j]].entry.key
  BY <1>1, <1>5
<1>10. Sound(g, l)
  <2>1. \A a, b \in 1..Len(l) : g.node[l[a]].entry.key = g.node[l[b]].entry.key => a = b
    BY <1>9 DEF Sound
  <2> QED BY <1>4, <1>5, <1>7, <1>8, <2>1 DEF Sound
<1> QED BY <1>1, <1>2, <1>5, <1>6, <1>10

(* Setting a new key, with memory for it, puts an entry behind the others.  *)
LEMMA ResetAppends ==
  ASSUME NEW h, NEW l, Sound(h, l), NEW e, e.type # 0, FreeNodes(h) # {},
         \A i \in 1..Len(l) : h.node[l[i]].entry.key # e.key
  PROVE  LET g == entry_reset(h, e)
         IN \E new \in Nodes :
              /\ Sound(g, Append(l, new))
              /\ g.node[new].entry = e
              /\ \A j \in 1..Len(l) : g.node[l[j]].entry = h.node[l[j]].entry
<1> DEFINE new  == CHOOSE n \in FreeNodes(h) : TRUE
           node0 == [h.node EXCEPT ![new] = [next |-> Nil, entry |-> e]]
           node == IF h.tail = Nil THEN node0 ELSE [node0 EXCEPT ![h.tail].next = new]
           g    == [head  |-> IF h.tail = Nil THEN new ELSE h.head,
                    tail  |-> new,
                    count |-> h.count + 1,
                    node  |-> node]
           m    == Append(l, new)
<1>1. l \in Seq(Nodes) /\ Len(l) \in Nat /\ \A j \in 1..Len(l) : l[j] \in Nodes
  BY DEF Sound, Linked
<1>2. Nil \notin Nodes
  BY DictionaryAssumption
<1>3. entry_reset(h, e) = g
  <2>1. entry_find(h, e.key) = Nil
    BY FindIs
  <2>2. entry_reset(h, e) =
          IF entry_find(h, e.key) # Nil THEN [h EXCEPT !.node[entry_find(h, e.key)].entry = e]
          ELSE [head  |-> IF h.tail = Nil THEN new ELSE h.head,
                tail  |-> new,
                count |-> h.count + 1,
                node  |-> IF h.tail = Nil THEN node0
                          ELSE [node0 EXCEPT ![h.tail].next = new]]
    BY Zenon DEF entry_reset
  <2> HIDE DEF node0, new
  <2> QED BY <2>1, <2>2, Zenon
<1>4. new \in Nodes /\ h.node[new].entry.type = 0
  BY DEF FreeNodes
<1> HIDE DEF new
<1>5. PICK E : h \in Heads(E)
  BY DEF Sound
<1>6. h.tail \in Nodes \cup {Nil} /\ h.count \in Nat /\ h.count = Len(l)
      /\ h.node \in [Nodes -> [next : Nodes \cup {Nil}, entry : E]]
      /\ h.head \in Nodes \cup {Nil}
  BY <1>5 DEF Heads, Sound
<1>7. \A j \in 1..Len(l) : l[j] # new
  BY <1>1, <1>4 DEF Sound
<1>8. h.tail # new /\ (h.tail = Nil <=> Len(l) = 0)
      /\ (Len(l) # 0 => h.tail = l[Len(l)] /\ l[Len(l)] \in Nodes)
  BY <1>1, <1>2, <1>4, <1>7 DEF Sound
<1>9. node0 \in [Nodes -> [next : Nodes \cup {Nil}, entry : E \cup {e}]]
      /\ \A n \in Nodes :
           /\ node0[n].next = IF n = new THEN Nil ELSE h.node[n].next
           /\ node0[n].entry = IF n = new THEN e ELSE h.node[n].entry
  BY <1>4, <1>6
<1> HIDE DEF node0
<1>10. node \in [Nodes -> [next : Nodes \cup {Nil}, entry : E \cup {e}]]
       /\ \A n \in Nodes :
           /\ node[n].next = IF n = new THEN Nil
                             ELSE IF n = h.tail THEN new ELSE h.node[n].next
           /\ node[n].entry = IF n = new THEN e ELSE h.node[n].entry
  <2>1. CASE h.tail = Nil
    BY <1>2, <1>9, <2>1
  <2>2. CASE h.tail # Nil
    BY <1>4, <1>6, <1>8, <1>9, <2>2
  <2> QED BY <2>1, <2>2
<1> HIDE DEF node
<1>11. /\ g \in Heads(E \cup {e})
       /\ g.head = (IF h.tail = Nil THEN new ELSE h.head)
       /\ g.tail = new /\ g.count = Len(l) + 1 /\ g.node = node
  BY <1>4, <1>6, <1>10 DEF Heads
<1> HIDE DEF g
<1>12. /\ m \in Seq(Nodes) /\ Len(m) = Len(l) + 1
       /\ m[Len(l) + 1] = new /\ \A j \in 1..Len(l) : m[j] = l[j]
  BY <1>1, <1>4
<1> HIDE DEF m
<1>13. \A j \in 1..Len(m) : j = Len(m) \/ j \in 1..Len(l)
  BY <1>1, <1>12
<1>14. Linked(g, m)
  <2>0. Linked(h, l)
    BY DEF Sound
  <2>1. \A i, j \in 1..Len(m) : m[i] = m[j] => i = j
    <3> SUFFICES ASSUME NEW i \in 1..Len(m), NEW j \in 1..Len(m), m[i] = m[j]
                 PROVE  i = j
      OBVIOUS
    <3>1. CASE i \in 1..Len(l) /\ j \in 1..Len(l)
      BY <1>12, <2>0, <3>1 DEF Linked
    <3>2. CASE i = Len(m) \/ j = Len(m)
      BY <1>7, <1>12, <1>13, <3>2
    <3> QED BY <1>13, <3>1, <3>2
  <2>2. g.head = IF Len(m) = 0 THEN Nil ELSE m[1]
    <3>1. CASE Len(l) = 0
      BY <1>8, <1>11, <1>12, <3>1
    <3>2. CASE Len(l) # 0
      BY <1>1, <1>8, <1>11, <1>12, <2>0, <3>2 DEF Linked
    <3> QED BY <3>1, <3>2
  <2>3. ASSUME NEW i \in 1..Len(m)
        PROVE  g.node[m[i]].next = IF i = Len(m) THEN Nil ELSE m[i + 1]
    <3>1. CASE i = Len(m)
      BY <1>4, <1>10, <1>11, <1>12, <3>1
    <3>2. CASE i # Len(m) /\ i = Len(l)
      BY <1>1, <1>7, <1>8, <1>10, <1>11, <1>12, <3>2
    <3>3. CASE i # Len(m) /\ i # Len(l)
      <4>1. i \in 1..Len(l) /\ i + 1 \in 1..Len(l) /\ Len(l) \in 1..Len(l)
        BY <1>1, <1>13, <3>3
      <4>2. l[i] # h.tail
        BY <1>8, <2>0, <3>3, <4>1 DEF Linked
      <4>3. g.node[m[i]].next = h.node[l[i]].next
        BY <1>1, <1>7, <1>10, <1>11, <1>12, <4>1, <4>2
      <4> QED BY <1>12, <2>0, <3>3, <4>1, <4>3 DEF Linked
    <3> QED BY <3>1, <3>2, <3>3
  <2> QED BY <1>12, <2>1, <2>2, <2>3 DEF Linked
<1>15. ASSUME NEW n \in Nodes
       PROVE  g.node[n].entry.type # 0 <=> \E i \in 1..Len(m) : m[i] = n
  <2>1. CASE n = new
    <3>1. g.node[n].entry = e
      BY <1>10, <1>11, <2>1
    <3>2. Len(m) \in 1..Len(m) /\ m[Len(m)] = n
      BY <1>1, <1>12, <2>1
    <3> QED BY <3>1, <3>2
  <2>2. CASE n # new
    <3>1. g.node[n].entry = h.node[n].entry
      BY <1>10, <1>11, <2>2
    <3>2. (\E i \in 1..Len(m) : m[i] = n) <=> \E i \in 1..Len(l) : l[i] = n
      BY <1>1, <1>12, <1>13, <2>2
    <3> QED BY <3>1, <3>2 DEF Sound
  <2> QED BY <2>1, <2>2
<1>16. \A j \in 1..Len(l) : g.node[l[j]].entry = h.node[l[j]].entry
  BY <1>1, <1>7, <1>10, <1>11
<1>17. g.node[new].entry = e
  BY <1>4, <1>10, <1>11
<1>18. ASSUME NEW i \in 1..Len(m), NEW j \in 1..Len(m),
              g.node[m[i]].entry.key = g.node[m[j]].entry.key
       PROVE  i = j
  <2>1. \A a \in 1..Len(l) : g.node[m[a]].entry.key = h.node[l[a]].entry.key
                             /\ g.node[m[a]].entry.key # e.key
    BY <1>12, <1>16
  <2>2. g.node[m[Len(m)]].entry.key = e.key
    BY <1>12, <1>17
  <2>3. CASE i \in 1..Len(l) /\ j \in 1..Len(l)
    BY <1>18, <2>1, <2>3 DEF Sound
  <2>4. CASE i = Len(m) \/ j = Len(m)
    BY <1>13, <1>18, <2>1, <2>2, <2>4
  <2> QED BY <1>13, <2>3, <2>4
<1>19. Sound(g, m)
  <2>1. g.tail = IF Len(m) = 0 THEN Nil ELSE m[Len(m)]
    BY <1>1, <1>11, <1>12
  <2>2. g.count = Len(m)
    BY <1>11, <1>12
  <2> QED BY <1>11, <1>14, <1>15, <1>18, <2>1, <2>2 DEF Sound
<1> QED BY <1>3, <1>4, <1>16, <1>17, <1>19 DEF m

(* A sequence without its element i.                                        *)
Without(l, i) == [j \in 1..(Len(l) - 1) |-> IF j < i THEN l[j] ELSE l[j + 1]]

(* Removing a key takes its node out and finds the tail again.              *)
LEMMA UnlinkRemoves ==
  ASSUME NEW h, NEW l, Sound(h, l), NEW i \in 1..Len(l)
  PROVE  LET g == Unlink(h, l[i])
         IN /\ Sound(g, Without(l, i))
            /\ \A j \in 1..Len(l) : j # i => g.node[l[j]].entry = h.node[l[j]].entry
<1> DEFINE e == l[i]
           m == Without(l, i)
           node == [n \in Nodes |->
                      IF n = e THEN Blank
                      ELSE IF h.node[n].next = e
                      THEN [h.node[n] EXCEPT !.next = h.node[e].next] ELSE h.node[n]]
           head == IF h.head = e THEN h.node[e].next ELSE h.head
           rest == List([h EXCEPT !.head = head, !.node = node])
           g == [head  |-> head,
                 tail  |-> IF h.tail # e THEN h.tail
                           ELSE IF rest = <<>> THEN Nil ELSE Last(rest),
                 count |-> h.count - 1,
                 node  |-> node]
<1>1. /\ l \in Seq(Nodes) /\ Len(l) \in Nat \ {0} /\ e \in Nodes
      /\ \A j \in 1..Len(l) : l[j] \in Nodes
  BY DEF Sound, Linked
<1>2. Nil \notin Nodes
  BY DictionaryAssumption
<1>3. Linked(h, l)
  BY DEF Sound
<1>4. Unlink(h, e) = g
  BY Zenon DEF Unlink
<1>5. PICK E : h \in Heads(E)
  BY DEF Sound
<1>6. /\ h.tail \in Nodes \cup {Nil} /\ h.count = Len(l)
      /\ h.node \in [Nodes -> [next : Nodes \cup {Nil}, entry : E]]
      /\ h.head \in Nodes \cup {Nil}
  BY <1>5 DEF Heads, Sound
<1>7. /\ node \in [Nodes -> [next : Nodes \cup {Nil}, entry : E \cup {NoEntry}]]
      /\ \A n \in Nodes :
           /\ node[n].entry = IF n = e THEN NoEntry ELSE h.node[n].entry
           /\ n # e => node[n].next = IF h.node[n].next = e THEN h.node[e].next
                                      ELSE h.node[n].next
  BY <1>1, <1>6 DEF Blank
<1>8. head \in Nodes \cup {Nil}
  BY <1>1, <1>6
<1>9. h.head = e <=> i = 1
  BY <1>1, <1>3 DEF Linked
<1>10. \A j \in 1..Len(l) : l[j] = e <=> j = i
  BY <1>3 DEF Linked
<1>11. \A j \in 1..Len(l) : h.node[l[j]].next = e <=> j + 1 = i
  BY <1>1, <1>2, <1>3 DEF Linked
<1>12. \A j \in 1..Len(l) : h.node[l[j]].next = IF j = Len(l) THEN Nil ELSE l[j + 1]
  BY <1>3 DEF Linked
<1>13. \A j, k \in 1..Len(l) : l[j] = l[k] => j = k
  BY <1>3 DEF Linked
<1>14. /\ m \in Seq(Nodes) /\ Len(m) = Len(l) - 1
       /\ \A j \in 1..Len(m) : m[j] = IF j < i THEN l[j] ELSE l[j + 1]
  BY <1>1 DEF Without
<1>15. h.head = l[1]
  BY <1>1, <1>3 DEF Linked
<1>16. \A j \in 1..Len(m) : m[j] \in Nodes /\ m[j] # e
  BY <1>1, <1>10, <1>14
<1>17. head = IF Len(m) = 0 THEN Nil ELSE m[1]
  <2>1. CASE i = 1
    BY <1>1, <1>9, <1>12, <1>14, <2>1
  <2>2. CASE i # 1
    BY <1>1, <1>9, <1>14, <1>15, <2>2
  <2> QED BY <2>1, <2>2
<1> HIDE DEF m, node, head
<1>18. ASSUME NEW j \in 1..Len(m)
       PROVE  node[m[j]].next = IF j = Len(m) THEN Nil ELSE m[j + 1]
  <2>1. CASE j + 1 = i
    <3>1. j \in 1..Len(l) /\ m[j] = l[j]
      BY <1>1, <1>14, <2>1
    <3>2. node[m[j]].next = h.node[e].next
      BY <1>7, <1>11, <1>16, <2>1, <3>1
    <3>3. j # Len(m) => m[j + 1] = l[i + 1]
      BY <1>1, <1>14, <2>1
    <3>4. j = Len(m) <=> i = Len(l)
      BY <1>1, <1>14, <2>1
    <3> QED BY <1>12, <3>2, <3>3, <3>4
  <2>2. CASE j + 1 < i
    <3>1. j \in 1..Len(l) /\ m[j] = l[j] /\ j # Len(m) /\ j # Len(l)
          /\ m[j + 1] = l[j + 1] /\ j + 1 # i
      BY <1>1, <1>14, <2>2
    <3>2. node[m[j]].next = h.node[l[j]].next
      BY <1>7, <1>11, <1>16, <3>1
    <3> QED BY <1>12, <3>1, <3>2
  <2>3. CASE j >= i
    <3>1. PICK k \in 1..Len(l) : k = j + 1
      BY <1>1, <1>14
    <3>2. m[j] = l[k] /\ k + 1 # i /\ (j = Len(m) <=> k = Len(l))
      BY <1>1, <1>14, <2>3, <3>1
    <3>3. j # Len(m) => m[j + 1] = l[k + 1]
      BY <1>1, <1>14, <2>3, <3>1
    <3>4. node[m[j]].next = h.node[l[k]].next
      BY <1>7, <1>11, <1>16, <3>2
    <3> QED BY <1>12, <3>2, <3>3, <3>4
  <2>4. j + 1 = i \/ j + 1 < i \/ j >= i
    BY <1>1
  <2> QED BY <2>1, <2>2, <2>3, <2>4
<1>19. \A j, k \in 1..Len(m) : m[j] = m[k] => j = k
  <2> SUFFICES ASSUME NEW j \in 1..Len(m), NEW k \in 1..Len(m), m[j] = m[k]
               PROVE  j = k
    OBVIOUS
  <2>1. PICK a \in 1..Len(l) : a = (IF j < i THEN j ELSE j + 1) /\ m[j] = l[a]
    BY <1>1, <1>14
  <2>2. PICK b \in 1..Len(l) : b = (IF k < i THEN k ELSE k + 1) /\ m[k] = l[b]
    BY <1>1, <1>14
  <2>3. a = b
    BY <1>13, <2>1, <2>2
  <2> QED BY <2>1, <2>2, <2>3
<1>20. ASSUME NEW x, x.head = head, x.node = node PROVE Linked(x, m)
  BY <1>14, <1>17, <1>18, <1>19, <1>20 DEF Linked
<1>21. rest = m
  <2> DEFINE x == [h EXCEPT !.head = head, !.node = node]
  <2>1. x.head = head /\ x.node = node
    BY <1>5 DEF Heads
  <2> HIDE DEF x
  <2>2. Linked(x, m)
    BY <1>20, <2>1
  <2> QED BY <2>2, ListIs DEF x
<1>22. g.tail = IF Len(m) = 0 THEN Nil ELSE m[Len(m)]
  <2>1. g.tail = IF h.tail # e THEN h.tail
                 ELSE IF rest = <<>> THEN Nil ELSE Last(rest)
    OBVIOUS
  <2>2. h.tail = l[Len(l)] /\ (h.tail = e <=> i = Len(l))
    BY <1>1, <1>10 DEF Sound
  <2>3. m = <<>> <=> Len(m) = 0
    BY <1>14
  <2>4. Last(m) = m[Len(m)]
    BY DEF Last
  <2>5. i # Len(l) => Len(m) # 0 /\ m[Len(m)] = l[Len(l)]
    BY <1>1, <1>14
  <2> HIDE DEF g, rest
  <2> QED BY <1>21, <2>1, <2>2, <2>3, <2>4, <2>5
<1>23. g.tail \in Nodes \cup {Nil}
  BY <1>1, <1>14, <1>16, <1>22
<1>24. /\ g \in Heads(E \cup {NoEntry})
       /\ g.head = head /\ g.node = node /\ g.count = Len(m)
  <2>1. PICK t \in Nodes \cup {Nil} : t = g.tail
    BY <1>23
  <2>2. g = [head |-> head, tail |-> t, count |-> h.count - 1, node |-> node]
    BY <2>1
  <2>3. h.count - 1 \in Nat /\ h.count - 1 = Len(m)
    BY <1>1, <1>6, <1>14
  <2> HIDE DEF g
  <2> QED BY <1>7, <1>8, <2>2, <2>3 DEF Heads
<1> HIDE DEF g
<1>25. ASSUME NEW n \in Nodes
       PROVE  g.node[n].entry.type # 0 <=> \E j \in 1..Len(m) : m[j] = n
  <2>1. CASE n = e
    BY <1>7, <1>16, <1>24, <2>1 DEF NoEntry
  <2>2. CASE n # e
    <3>1. g.node[n].entry = h.node[n].entry
      BY <1>7, <1>24, <2>2
    <3>2. ASSUME NEW a \in 1..Len(l), l[a] = n PROVE \E j \in 1..Len(m) : m[j] = n
      <4>1. a # i
        BY <2>2, <3>2
      <4>2. CASE a < i
        BY <1>1, <1>14, <3>2, <4>2
      <4>3. CASE a > i
        <5>1. PICK j \in 1..Len(m) : j + 1 = a
          BY <1>1, <1>14, <4>3
        <5>2. m[j] = l[a]
          BY <1>1, <1>14, <4>3, <5>1
        <5> QED BY <3>2, <5>2
      <4> QED BY <4>1, <4>2, <4>3
    <3>3. ASSUME NEW j \in 1..Len(m), m[j] = n PROVE \E a \in 1..Len(l) : l[a] = n
      <4>1. PICK a \in 1..Len(l) : a = (IF j < i THEN j ELSE j + 1) /\ m[j] = l[a]
        BY <1>1, <1>14
      <4> QED BY <3>3, <4>1
    <3> QED BY <3>1, <3>2, <3>3 DEF Sound
  <2> QED BY <2>1, <2>2
<1>26. \A j \in 1..Len(l) : j # i => g.node[l[j]].entry = h.node[l[j]].entry
  BY <1>1, <1>7, <1>10, <1>24
<1>27. ASSUME NEW j \in 1..Len(m), NEW k \in 1..Len(m),
              g.node[m[j]].entry.key = g.node[m[k]].entry.key
       PROVE  j = k
  <2>1. PICK a \in 1..Len(l) : a = (IF j < i THEN j ELSE j + 1) /\ m[j] = l[a]
    BY <1>1, <1>14
  <2>2. PICK b \in 1..Len(l) : b = (IF k < i THEN k ELSE k + 1) /\ m[k] = l[b]
    BY <1>1, <1>14
  <2>3. a # i /\ b # i
    BY <2>1, <2>2
  <2>4. h.node[l[a]].entry.key = h.node[l[b]].entry.key
    BY <1>26, <1>27, <2>1, <2>2, <2>3
  <2>5. a = b
    BY <2>4 DEF Sound
  <2> QED BY <2>1, <2>2, <2>5
<1>28. Sound(g, m)
  BY <1>20, <1>22, <1>24, <1>25, <1>27 DEF Sound
<1> QED BY <1>4, <1>26, <1>28 DEF m

(* The keys of the list l.                                                  *)
KeysOn(h, l) == {h.node[l[i]].entry.key : i \in 1..Len(l)}

(* g has the keys of h, which are on l, and the key k.                      *)
Grown(h, l, k, g) == \E m : Sound(g, m) /\ KeysOn(g, m) = KeysOn(h, l) \cup {k}

(* entry_reset with a new key adds that key to the list, and no other.      *)
LEMMA AppendsOne ==
  ASSUME NEW h, NEW l, Sound(h, l), NEW e, e.type # 0, FreeNodes(h) # {},
         e.key \notin KeysOn(h, l),
         NEW g, g = entry_reset(h, e)
  PROVE  Grown(h, l, e.key, g)
<1>0. \A i \in 1..Len(l) : h.node[l[i]].entry.key # e.key
  BY DEF KeysOn
<1>1. PICK new \in Nodes :
        /\ Sound(g, Append(l, new))
        /\ g.node[new].entry = e
        /\ \A j \in 1..Len(l) : g.node[l[j]].entry = h.node[l[j]].entry
  BY <1>0, ResetAppends
<1>2. PICK m : m = Append(l, new)
  OBVIOUS
<1>3. l \in Seq(Nodes)
  BY DEF Sound, Linked
<1>4. /\ Len(m) = Len(l) + 1 /\ m[Len(l) + 1] = new
      /\ \A j \in 1..Len(l) : m[j] = l[j]
  BY <1>2, <1>3
<1>5. 1..Len(m) = (1..Len(l)) \cup {Len(l) + 1}
  BY <1>3, <1>4
<1>6. /\ g.node[m[Len(l) + 1]].entry.key = e.key
      /\ \A j \in 1..Len(l) : g.node[m[j]].entry.key = h.node[l[j]].entry.key
  BY <1>1, <1>4
<1>7. ASSUME NEW k \in KeysOn(g, m) PROVE k \in KeysOn(h, l) \cup {e.key}
  <2>1. PICK i \in 1..Len(m) : k = g.node[m[i]].entry.key
    BY DEF KeysOn
  <2> QED BY <1>5, <1>6, <2>1 DEF KeysOn
<1>8. ASSUME NEW k \in KeysOn(h, l) PROVE k \in KeysOn(g, m)
  <2>1. PICK i \in 1..Len(l) : k = h.node[l[i]].entry.key
    BY DEF KeysOn
  <2> QED BY <1>5, <1>6, <2>1 DEF KeysOn
<1>9. e.key \in KeysOn(g, m)
  BY <1>5, <1>6 DEF KeysOn
<1>10. KeysOn(g, m) = KeysOn(h, l) \cup {e.key}
  BY <1>7, <1>8, <1>9
<1> QED BY <1>1, <1>2, <1>10, Zenon DEF Grown

(* A dictionary without entries.                                            *)
LEMMA EmptySound == Sound(Empty, <<>>) /\ KeysOn(Empty, <<>>) = {}
<1>1. Empty \in Heads({NoEntry})
  BY DEF Empty, Heads, Blank
<1>2. Len(<<>>) = 0 /\ <<>> \in Seq(Nodes) /\ 1..0 = {}
  OBVIOUS
<1>3. Empty.head = Nil /\ Empty.tail = Nil /\ Empty.count = 0
  BY DEF Empty
<1>4. \A n \in Nodes : Empty.node[n].entry.type = 0
  BY DEF Empty, Blank, NoEntry
<1> QED BY <1>1, <1>2, <1>3, <1>4 DEF Sound, Linked, KeysOn

(* There are as many keys as entries.                                       *)
LEMMA KeyCount ==
  ASSUME NEW h, NEW l, Sound(h, l)
  PROVE  IsFiniteSet(KeysOn(h, l)) /\ Cardinality(KeysOn(h, l)) = Len(l)
<1> DEFINE f == [i \in 1..Len(l) |-> h.node[l[i]].entry.key]
<1>1. PICK n \in Nat : n = Len(l)
  BY DEF Sound, Linked
<1>2. f \in Bijection(1..Len(l), KeysOn(h, l))
  BY DEF Bijection, Injection, IsInjective, Surjection, KeysOn, Sound
<1>3. ExistsBijection(1..n, KeysOn(h, l))
  <2> HIDE DEF f
  <2> QED BY <1>1, <1>2 DEF ExistsBijection
<1>4. Cardinality(KeysOn(h, l)) = n
  BY <1>3, FS_CountingElements
<1>5. IsFiniteSet(KeysOn(h, l))
  BY <1>3, FS_NatBijection
<1> QED BY <1>1, <1>4, <1>5

(* As long as the list is shorter than there are nodes, one is free.        *)
LEMMA HasRoom ==
  ASSUME NEW h, NEW l, Sound(h, l), Len(l) # Cardinality(Nodes)
  PROVE  FreeNodes(h) # {}
<1> SUFFICES ASSUME FreeNodes(h) = {} PROVE FALSE
  OBVIOUS
<1>1. l \in Seq(Nodes) /\ Len(l) \in Nat
  BY DEF Sound, Linked
<1>2. \A m \in Nodes : \E i \in 1..Len(l) : l[i] = m
  BY DEF FreeNodes, Sound
<1>3. l \in Bijection(1..Len(l), Nodes)
  <2>1. \A i, j \in 1..Len(l) : l[i] = l[j] => i = j
    BY DEF Sound, Linked
  <2>2. l \in [1..Len(l) -> Nodes] /\ DOMAIN l = 1..Len(l)
    BY <1>1
  <2> QED BY <1>2, <2>1, <2>2 DEF Bijection, Injection, IsInjective, Surjection
<1>4. Cardinality(Nodes) = Len(l)
  BY <1>1, <1>3, FS_CountingElements DEF ExistsBijection
<1> QED BY <1>4

(* Load, entry by entry.                                                    *)
LoadLoop(es, h) ==
  /\ Load(es) = h[Len(es)] /\ h[0] = Empty
  /\ \A n \in Nat : n + 1 <= Len(es) => h[n + 1] = entry_reset(h[n], es[n + 1])

LEMMA LoadLoopIs ==
  ASSUME NEW X, NEW es \in Seq(X)
  PROVE  \E h : LoadLoop(es, h)
<1> DEFINE N == Len(es)
           Is(g, n) == g = [i \in 0..n |-> IF i = 0 THEN Empty
                                           ELSE entry_reset(g[i - 1], es[i])]
           S == {n \in Nat : \E g : Is(g, n)}
           h == CHOOSE g : Is(g, N)
<1>1. N \in Nat
  OBVIOUS
<1>2. Load(es) = h[N]
  BY Zenon DEF Load
<1>3. 0 \in S
  <2>1. Is([i \in 0..0 |-> Empty], 0)
    OBVIOUS
  <2> HIDE DEF Is
  <2> QED BY <2>1
<1>4. ASSUME NEW n \in Nat, n \in S PROVE n + 1 \in S
  <2>1. PICK g : Is(g, n)
    BY <1>4
  <2> DEFINE k == [i \in 0..(n + 1) |-> IF i <= n THEN g[i] ELSE entry_reset(g[n], es[i])]
  <2>2. ASSUME NEW i \in 0..(n + 1)
        PROVE  k[i] = IF i = 0 THEN Empty ELSE entry_reset(k[i - 1], es[i])
    <3>1. CASE i = 0
      BY <2>1, <3>1
    <3>2. CASE i \in 1..n
      BY <2>1, <3>2
    <3>3. CASE i = n + 1
      BY <2>1, <3>3
    <3> QED BY <3>1, <3>2, <3>3
  <2>3. Is(k, n + 1)
    BY <2>2
  <2>4. n + 1 \in Nat
    OBVIOUS
  <2> HIDE DEF Is, k
  <2> QED BY <2>3, <2>4
<1>5. Is(h, N)
  <2>1. N \in S
    <3> HIDE DEF N, S
    <3> QED BY <1>1, <1>3, <1>4, SetInduction
  <2> HIDE DEF Is
  <2> QED BY <2>1
<1> HIDE DEF h
<1>6. h[0] = Empty
      /\ \A n \in Nat : n + 1 <= N => h[n + 1] = entry_reset(h[n], es[n + 1])
  <2> HIDE DEF N
  <2> QED BY <1>1, <1>5
<1>7. LoadLoop(es, h)
  BY <1>2, <1>6, Zenon DEF LoadLoop
<1> QED BY <1>7

(* The entries of the dictionary are among X.                               *)
From(h, X) == \A n \in Nodes : h.node[n].entry.type # 0 => h.node[n].entry \in X

(* entry_reset brings in the entry it is given, and no other.               *)
LEMMA ResetFrom ==
  ASSUME NEW h, NEW l, Sound(h, l), NEW X, From(h, X), NEW e \in X
  PROVE  From(entry_reset(h, e), X)
<1>1. PICK E : h \in Heads(E)
  BY DEF Sound
<1> DEFINE found == entry_find(h, e.key)
           new == CHOOSE n \in FreeNodes(h) : TRUE
           a == [h.node EXCEPT ![new] = [next |-> Nil, entry |-> e]]
<1>2. PICK g : g = entry_reset(h, e)
  OBVIOUS
<1>3. g = IF found # Nil THEN [h EXCEPT !.node[found].entry = e]
          ELSE [head  |-> IF h.tail = Nil THEN new ELSE h.head,
                tail  |-> new,
                count |-> h.count + 1,
                node  |-> IF h.tail = Nil THEN a ELSE [a EXCEPT ![h.tail].next = new]]
  BY <1>2, Zenon DEF entry_reset
<1> HIDE DEF found, new
<1>4. ASSUME NEW n \in Nodes
      PROVE  g.node[n].entry = e \/ g.node[n].entry = h.node[n].entry
  <2>1. CASE found # Nil
    <3>1. g.node = [h.node EXCEPT ![found] = [h.node[found] EXCEPT !.entry = e]]
      BY <1>1, <1>3, <2>1 DEF Heads
    <3>2. CASE n = found
      <4>1. h.node[n] \in [next : Nodes \cup {Nil}, entry : E]
        BY <1>1 DEF Heads
      <4>2. g.node[n] = [h.node[n] EXCEPT !.entry = e]
        BY <1>1, <3>1, <3>2 DEF Heads
      <4> QED BY <4>1, <4>2
    <3>3. CASE n # found
      BY <1>1, <3>1, <3>3 DEF Heads
    <3> QED BY <3>2, <3>3
  <2>2. CASE found = Nil
    <3>1. g.node = IF h.tail = Nil THEN a ELSE [a EXCEPT ![h.tail].next = new]
      BY <1>3, <2>2
    <3>2. /\ DOMAIN a = Nodes
          /\ \A m \in Nodes : a[m].entry = e \/ a[m].entry = h.node[m].entry
          /\ \A m \in Nodes : DOMAIN a[m] = {"next", "entry"}
      BY <1>1 DEF Heads
    <3>3. g.node[n].entry = a[n].entry
      <4> HIDE DEF a
      <4> QED BY <3>1, <3>2
    <3> QED BY <3>2, <3>3
  <2> QED BY <2>1, <2>2
<1>5. From(g, X)
  BY <1>4 DEF From
<1> QED BY <1>2, <1>5

(* The entries of a frame can be set one after the other as long as there   *)
(* is memory for their keys, and make a list.                               *)
LEMMA LoadSound ==
  ASSUME NEW X, NEW es \in Seq(X), \A x \in X : x.type # 0,
         Cardinality({es[i].key : i \in DOMAIN es}) <= Cardinality(Nodes)
  PROVE  \E l : Sound(Load(es), l) /\ From(Load(es), X)
<1> DEFINE N == Len(es)
           All == {es[i].key : i \in DOMAIN es}
           Done(n) == {es[i].key : i \in 1..n}
<1>1. N \in Nat /\ DOMAIN es = 1..N /\ \A i \in 1..N : es[i].type # 0 /\ es[i] \in X
  OBVIOUS
<1>2. PICK h : LoadLoop(es, h)
  BY LoadLoopIs
<1> DEFINE T == {n \in Nat : n <= N => \E l : /\ Sound(h[n], l) /\ From(h[n], X)
                                              /\ KeysOn(h[n], l) = Done(n)}
<1>3. /\ Load(es) = h[N] /\ h[0] = Empty
      /\ \A n \in Nat : n + 1 <= N => h[n + 1] = entry_reset(h[n], es[n + 1])
  BY <1>2 DEF LoadLoop
<1> HIDE DEF N
<1>4. IsFiniteSet(All) /\ Cardinality(All) \in Nat /\ Cardinality(Nodes) \in Nat
      /\ Cardinality(All) <= Cardinality(Nodes)
  <2> DEFINE f == [i \in 1..N |-> es[i].key]
  <2>1. f \in Surjection(1..N, All)
    BY <1>1 DEF Surjection
  <2>2. IsFiniteSet(1..N)
    BY <1>1, FS_Interval
  <2> HIDE DEF f, All
  <2>3. IsFiniteSet(All)
    BY <2>1, <2>2, FS_Surjection
  <2>4. Cardinality(All) <= Cardinality(Nodes)
    BY DEF All
  <2> QED BY <2>3, <2>4, FS_CardinalityType, DictionaryAssumption
<1>5. 0 \in T
  <2>1. Done(0) = {}
    OBVIOUS
  <2>2. From(Empty, X)
    BY DEF From, Empty, Blank, NoEntry
  <2> HIDE DEF Done
  <2> QED BY <1>3, <2>1, <2>2, EmptySound
<1>6. ASSUME NEW n \in Nat, n \in T PROVE n + 1 \in T
  <2> SUFFICES ASSUME n + 1 <= N
               PROVE  \E l : /\ Sound(h[n + 1], l) /\ From(h[n + 1], X)
                             /\ KeysOn(h[n + 1], l) = Done(n + 1)
    OBVIOUS
  <2>1. PICK l : Sound(h[n], l) /\ From(h[n], X) /\ KeysOn(h[n], l) = Done(n)
    BY <1>1, <1>6
  <2>2. PICK e \in X : e = es[n + 1] /\ e.type # 0
    BY <1>1
  <2>3. h[n + 1] = entry_reset(h[n], e)
    BY <1>3, <2>2
  <2>4. Done(n + 1) = Done(n) \cup {e.key}
    <3>1. \A i \in 1..(n + 1) : i \in 1..n \/ i = n + 1
      OBVIOUS
    <3>2. 1..n \subseteq 1..(n + 1) /\ n + 1 \in 1..(n + 1)
      OBVIOUS
    <3> QED BY <2>2, <3>1, <3>2
  <2>5. PICK a, b : a = h[n] /\ b = entry_reset(a, e)
    OBVIOUS
  <2>6. From(b, X)
    BY <2>1, <2>5, ResetFrom
  <2>7. CASE \E i \in 1..Len(l) : a.node[l[i]].entry.key = e.key
    <3>1. PICK i \in 1..Len(l) : a.node[l[i]].entry.key = e.key
      BY <2>7
    <3>2. /\ Sound(b, l) /\ b.node[l[i]].entry = e
          /\ \A j \in 1..Len(l) : j # i => b.node[l[j]].entry = a.node[l[j]].entry
      BY <2>1, <2>2, <2>5, <3>1, ResetReplaces
    <3>3. KeysOn(b, l) = KeysOn(a, l)
      BY <3>1, <3>2 DEF KeysOn
    <3>4. e.key \in KeysOn(a, l)
      BY <3>1 DEF KeysOn
    <3> HIDE DEF Done
    <3> QED BY <2>1, <2>3, <2>4, <2>5, <2>6, <3>2, <3>3, <3>4
  <2>8. CASE \A i \in 1..Len(l) : a.node[l[i]].entry.key # e.key
    <3>0. l \in Seq(Nodes) /\ Len(l) \in Nat
      BY <2>1 DEF Sound, Linked
    <3>1. FreeNodes(a) # {}
      <4>1. IsFiniteSet(KeysOn(a, l)) /\ Cardinality(KeysOn(a, l)) = Len(l)
        BY <2>1, <2>5, KeyCount
      <4>2. e.key \notin KeysOn(a, l)
        BY <2>8 DEF KeysOn
      <4>3. Cardinality(KeysOn(a, l) \cup {e.key}) = Len(l) + 1
        BY <4>1, <4>2, FS_AddElement
      <4>4. KeysOn(a, l) \cup {e.key} \in SUBSET All
        <5>1. Done(n + 1) \subseteq All
          BY <1>1
        <5> HIDE DEF Done, All
        <5> QED BY <2>1, <2>4, <2>5, <5>1
      <4>5. Cardinality(KeysOn(a, l) \cup {e.key}) <= Cardinality(All)
        <5> HIDE DEF All
        <5> QED BY <1>4, <4>4, FS_Subset
      <4>6. Len(l) # Cardinality(Nodes)
        <5> HIDE DEF All
        <5> QED BY <1>4, <3>0, <4>3, <4>5
      <4> QED BY <2>1, <2>5, <4>6, HasRoom
    <3>2. Sound(a, l) /\ e.type # 0 /\ b = entry_reset(a, e)
      BY <2>1, <2>2, <2>5, Zenon
    <3>3. e.key \notin KeysOn(a, l)
      BY <2>8 DEF KeysOn
    <3>4. Grown(a, l, e.key, b)
      <4> HIDE DEF N, All, Done, T
      <4> QED BY <3>1, <3>2, <3>3, AppendsOne
    <3> HIDE DEF Done
    <3> QED BY <2>1, <2>3, <2>4, <2>5, <2>6, <3>4 DEF Grown
  <2> QED BY <2>7, <2>8
<1>7. N \in T
  <2> HIDE DEF T
  <2> QED BY <1>1, <1>5, <1>6, SetInduction
<1> QED BY <1>1, <1>3, <1>7

-----------------------------------------------------------------------------
(* The list, and the map it stands for, under the operations.               *)

ListInv == \E l : Sound(dict, l)

(* What serialize and apply see.                                            *)
LEMMA ContentsIs ==
  ASSUME NEW h, NEW l, Sound(h, l)
  PROVE  Contents(h) = [i \in 1..Len(l) |-> h.node[l[i]].entry]
<1>1. List(h) = l
  BY ListIs DEF Sound
<1>2. DOMAIN l = 1..Len(l)
  BY DEF Sound, Linked
<1>3. Contents(h) = [i \in DOMAIN List(h) |-> h.node[List(h)[i]].entry]
  BY Zenon DEF Contents
<1> QED BY <1>1, <1>2, <1>3

(* The map a becomes b by setting a key: a new one, or one that is there.   *)
SetTo(a, b) ==
  \/ /\ Len(b) = Len(a) + 1
     /\ SubSeq(b, 1, Len(a)) = a
     /\ b[Len(b)].key \notin {a[i].key : i \in DOMAIN a}
  \/ \E i \in DOMAIN a :
       /\ DOMAIN b = DOMAIN a
       /\ b[i].key = a[i].key
       /\ \A j \in DOMAIN a \ {i} : b[j] = a[j]

(* entry_reset sets a key of the map.                                       *)
LEMMA ResetIsSet ==
  ASSUME NEW h, NEW l, Sound(h, l), NEW e, e.type # 0, Room(h, e)
  PROVE  LET g == entry_reset(h, e)
         IN (\E m : Sound(g, m)) /\ SetTo(Contents(h), Contents(g))
<1>1. PICK g : g = entry_reset(h, e)
  OBVIOUS
<1>2. PICK a : a = Contents(h)
  OBVIOUS
<1>3. PICK b : b = Contents(g)
  OBVIOUS
<1>4. a = [i \in 1..Len(l) |-> h.node[l[i]].entry]
  BY <1>2, ContentsIs
<1>5. PICK n \in Nat : n = Len(l) /\ l \in Seq(Nodes)
  BY DEF Sound, Linked
<1>6. Len(a) = n /\ DOMAIN a = 1..n /\ \A i \in 1..n : a[i] = h.node[l[i]].entry
  BY <1>4, <1>5
<1>7. CASE \E i \in 1..Len(l) : h.node[l[i]].entry.key = e.key
  <2>1. PICK i \in 1..Len(l) : h.node[l[i]].entry.key = e.key
    BY <1>7
  <2>2. /\ Sound(g, l) /\ g.node[l[i]].entry = e
        /\ \A j \in 1..Len(l) : j # i => g.node[l[j]].entry = h.node[l[j]].entry
    BY <1>1, <2>1, ResetReplaces
  <2>3. b = [j \in 1..Len(l) |-> g.node[l[j]].entry]
    BY <1>3, <2>2, ContentsIs
  <2>4. DOMAIN b = DOMAIN a /\ b[i].key = a[i].key /\ i \in DOMAIN a
    BY <1>5, <1>6, <2>1, <2>2, <2>3
  <2>5. \A j \in DOMAIN a \ {i} : b[j] = a[j]
    BY <1>5, <1>6, <2>2, <2>3
  <2>6. SetTo(a, b)
    BY <2>4, <2>5 DEF SetTo
  <2> QED BY <1>1, <1>2, <1>3, <2>2, <2>6
<1>8. CASE \A i \in 1..Len(l) : h.node[l[i]].entry.key # e.key
  <2>1. FreeNodes(h) # {}
    BY <1>8, FindIs DEF Room
  <2>2. PICK new \in Nodes :
          /\ Sound(g, Append(l, new)) /\ g.node[new].entry = e
          /\ \A j \in 1..Len(l) : g.node[l[j]].entry = h.node[l[j]].entry
    BY <1>1, <1>8, <2>1, ResetAppends
  <2>3. PICK m : m = Append(l, new)
    OBVIOUS
  <2>4. Len(m) = n + 1 /\ m[n + 1] = new /\ \A j \in 1..n : m[j] = l[j]
    BY <1>5, <2>3
  <2>5. b = [j \in 1..Len(m) |-> g.node[m[j]].entry]
    <3>1. Sound(g, m)
      BY <2>2, <2>3
    <3> QED BY <1>3, <3>1, ContentsIs
  <2>6. Len(b) = n + 1 /\ b[n + 1] = e /\ \A j \in 1..n : b[j] = a[j]
    <3>1. b = [j \in 1..(n + 1) |-> g.node[m[j]].entry]
      BY <2>4, <2>5
    <3>2. Len(b) = n + 1 /\ \A j \in 1..(n + 1) : b[j] = g.node[m[j]].entry
      BY <3>1
    <3>3. b[n + 1] = e
      BY <2>2, <2>4, <3>2
    <3>4. ASSUME NEW j \in 1..n PROVE b[j] = a[j]
      <4>1. j \in 1..(n + 1) /\ j \in 1..Len(l)
        BY <1>5
      <4> QED BY <1>6, <2>2, <2>4, <3>2, <4>1
    <3> QED BY <3>2, <3>3, <3>4
  <2>7. SubSeq(b, 1, n) = [j \in 1..n |-> b[j]]
    BY <2>4, <2>5
  <2>8. SubSeq(b, 1, n) = a
    BY <1>4, <1>5, <1>6, <2>6, <2>7
  <2>9. b[Len(b)].key \notin {a[i].key : i \in DOMAIN a}
    BY <1>5, <1>6, <1>8, <2>6
  <2>10. SetTo(a, b)
    BY <1>6, <2>6, <2>8, <2>9 DEF SetTo
  <2> QED BY <1>1, <1>2, <1>3, <2>2, <2>10
<1> QED BY <1>7, <1>8

(* The map a becomes b by removing a key.                                   *)
RemoveTo(a, b) ==
  \E i \in DOMAIN a : b = SubSeq(a, 1, i - 1) \o SubSeq(a, i + 1, Len(a))

(* Unlink removes a key from the map.                                       *)
LEMMA UnlinkIsRemove ==
  ASSUME NEW h, NEW l, Sound(h, l), NEW k, entry_find(h, k) # Nil
  PROVE  LET g == Unlink(h, entry_find(h, k))
         IN (\E m : Sound(g, m)) /\ RemoveTo(Contents(h), Contents(g))
<1>1. PICK i \in 1..Len(l) : entry_find(h, k) = l[i]
  BY FindIs
<1>2. PICK g : g = Unlink(h, l[i])
  OBVIOUS
<1>3. PICK m : m = Without(l, i)
  OBVIOUS
<1>4. /\ Sound(g, m)
      /\ \A j \in 1..Len(l) : j # i => g.node[l[j]].entry = h.node[l[j]].entry
  BY <1>2, <1>3, UnlinkRemoves
<1>5. PICK n \in Nat : n = Len(l) /\ l \in Seq(Nodes) /\ i \in 1..n
  BY DEF Sound, Linked
<1>6. Len(m) = n - 1 /\ \A j \in 1..(n - 1) : m[j] = IF j < i THEN l[j] ELSE l[j + 1]
  BY <1>3, <1>5 DEF Without
<1>7. PICK a : a = Contents(h)
  OBVIOUS
<1>8. PICK b : b = Contents(g)
  OBVIOUS
<1>9. a = [j \in 1..n |-> h.node[l[j]].entry]
  BY <1>5, <1>7, ContentsIs
<1>10. b = [j \in 1..(n - 1) |-> g.node[m[j]].entry]
  BY <1>4, <1>6, <1>8, ContentsIs
<1>11. \A j \in 1..(n - 1) : b[j] = IF j < i THEN a[j] ELSE a[j + 1]
  <2> SUFFICES ASSUME NEW j \in 1..(n - 1) PROVE b[j] = IF j < i THEN a[j] ELSE a[j + 1]
    OBVIOUS
  <2>1. CASE j < i
    BY <1>4, <1>5, <1>6, <1>9, <1>10, <2>1
  <2>2. CASE ~(j < i)
    <3>1. PICK q \in 1..n : q = j + 1 /\ q # i
      BY <1>5, <2>2
    <3> QED BY <1>4, <1>5, <1>6, <1>9, <1>10, <2>2, <3>1
  <2> QED BY <2>1, <2>2
<1>12. Len(a) = n /\ DOMAIN a = 1..n
  BY <1>9
<1> DEFINE p == SubSeq(a, 1, i - 1)
           q == SubSeq(a, i + 1, n)
<1>13. Len(p) = i - 1 /\ DOMAIN p = 1..(i - 1) /\ \A j \in 1..(i - 1) : p[j] = a[j]
  BY <1>5, <1>9
<1>14. Len(q) = n - i /\ DOMAIN q = 1..(n - i) /\ \A j \in 1..(n - i) : q[j] = a[i + j]
  BY <1>5, <1>9
<1> HIDE DEF p, q
<1>15. p \o q = [j \in 1..(n - 1) |-> IF j < i THEN a[j] ELSE a[j + 1]]
  <2>1. p \o q = [j \in 1..(Len(p) + Len(q)) |->
                    IF j <= Len(p) THEN p[j] ELSE q[j - Len(p)]]
    <3> DEFINE A == {a[j] : j \in 1..n}
    <3>1. a \in Seq(A)
      BY <1>9, <1>12
    <3> HIDE DEF A
    <3>2. p \in Seq(A) /\ q \in Seq(A)
      BY <1>5, <1>12, <3>1 DEF p, q
    <3>3. PICK r \in Seq(A) : r = p \o q
      BY <3>2, ConcatProperties
    <3>4. /\ Len(r) = Len(p) + Len(q)
          /\ \A j \in 1..(Len(p) + Len(q)) :
               r[j] = IF j <= Len(p) THEN p[j] ELSE q[j - Len(p)]
      BY <3>2, <3>3, ConcatProperties
    <3>5. r = [j \in 1..Len(r) |-> r[j]]
      OBVIOUS
    <3> QED BY <3>3, <3>4, <3>5
  <2>2. Len(p) + Len(q) = n - 1
    BY <1>5, <1>13, <1>14
  <2>3. ASSUME NEW j \in 1..(n - 1)
        PROVE  (IF j <= Len(p) THEN p[j] ELSE q[j - Len(p)])
                 = IF j < i THEN a[j] ELSE a[j + 1]
    <3>1. CASE j < i
      BY <1>5, <1>13, <3>1
    <3>2. CASE ~(j < i)
      <4>1. PICK r \in 1..(n - i) : r = j - Len(p) /\ i + r = j + 1
        BY <1>5, <1>13, <3>2
      <4> QED BY <1>5, <1>13, <1>14, <3>2, <4>1
    <3> QED BY <3>1, <3>2
  <2> QED BY <2>1, <2>2, <2>3
<1>16. b = p \o q
  BY <1>10, <1>11, <1>15
<1>17. RemoveTo(a, b)
  BY <1>5, <1>12, <1>16 DEF RemoveTo, p, q
<1> QED BY <1>1, <1>2, <1>4, <1>7, <1>8, <1>17

(* A setter that finds its memory sets a key.                               *)
LEMMA SetEffect ==
  ASSUME ListInv, NEW t \in Threads, NEW k \in Keys, NEW v \in Values,
         catbsd_xpc_dictionary_set(t, k, v)
  PROVE  ListInv' /\ SetTo(Contents(dict), Contents(dict'))
<1>1. PICK e : e = [key |-> k, type |-> v.type, value |-> v.value]
  OBVIOUS
<1>2. Room(dict, e) /\ dict' = entry_reset(dict, e)
  BY <1>1 DEF catbsd_xpc_dictionary_set
<1>3. e.type # 0
  <2>1. v.type \in Types
    BY DictionaryAssumption
  <2>2. e.type = v.type
    BY <1>1
  <2> QED BY <2>1, <2>2 DEF Types, BOOL, DATA
<1>4. PICK l : Sound(dict, l)
  BY DEF ListInv
<1>5. PICK g : g = entry_reset(dict, e)
  OBVIOUS
<1>6. (\E m : Sound(g, m)) /\ SetTo(Contents(dict), Contents(g))
  BY <1>2, <1>3, <1>4, <1>5, ResetIsSet
<1> QED BY <1>2, <1>5, <1>6 DEF ListInv

(* remove removes a key.                                                    *)
LEMMA RemoveEffect ==
  ASSUME ListInv, NEW t \in Threads, NEW k \in Keys,
         catbsd_xpc_dictionary_remove(t, k)
  PROVE  ListInv' /\ RemoveTo(Contents(dict), Contents(dict'))
<1>1. PICK l : Sound(dict, l)
  BY DEF ListInv
<1>2. entry_find(dict, k) # Nil /\ dict' = Unlink(dict, entry_find(dict, k))
  BY DEF catbsd_xpc_dictionary_remove
<1>3. PICK g : g = Unlink(dict, entry_find(dict, k))
  OBVIOUS
<1>4. (\E m : Sound(g, m)) /\ RemoveTo(Contents(dict), Contents(g))
  BY <1>1, <1>2, <1>3, UnlinkIsRemove
<1> QED BY <1>2, <1>3, <1>4 DEF ListInv

(* A frame becomes a list of entries, or nothing is left of it.             *)
LEMMA DeserializeEffect ==
  ASSUME BufInv, NEW t \in Threads, Deserialize(t)
  PROVE  \/ UNCHANGED <<dict, obj>>
         \/ ListInv' /\ obj'.live = TRUE
<1>1. buf \in Seq(Bytes)
  BY DictionaryAssumption DEF BufInv, Deserialize
<1>2. PICK d : d = catbsd_xpc_deserialize(buf)
  OBVIOUS
<1>3. \/ /\ Cardinality({d.es[i].key : i \in DOMAIN d.es}) <= Cardinality(Nodes)
         /\ dict' = Load(d.es)
         /\ obj' = [live |-> TRUE, refcount |-> 1, msg_id |-> d.msg_id,
                    is_reply |-> d.is_reply]
      \/ UNCHANGED <<dict, obj, th>>
  BY <1>2, Zenon DEF Deserialize
<1>4. PICK X : d.es \in Seq(X) /\ \A x \in X : x.type \in Types
  BY <1>1, <1>2, ReadsWithin
<1>5. \A x \in X : x.type # 0
  BY <1>4 DEF Types, BOOL, DATA
<1>6. CASE /\ Cardinality({d.es[i].key : i \in DOMAIN d.es}) <= Cardinality(Nodes)
           /\ dict' = Load(d.es)
           /\ obj' = [live |-> TRUE, refcount |-> 1, msg_id |-> d.msg_id,
                      is_reply |-> d.is_reply]
  <2>1. PICK es \in Seq(X) : es = d.es
    BY <1>4
  <2>2. \E l : Sound(Load(es), l)
    BY <1>5, <1>6, <2>1, LoadSound
  <2>3. obj'.live = TRUE
    BY <1>6
  <2> QED BY <1>6, <2>1, <2>2, <2>3 DEF ListInv
<1>7. CASE UNCHANGED <<dict, obj, th>>
  BY <1>7
<1> QED BY <1>3, <1>6, <1>7

(* The steps that leave the entries alone.                                  *)
Idle(t) ==
  \/ catbsd_xpc_release(t)
  \/ \E u \in Threads : catbsd_xpc_retain(t, u)
  \/ catbsd_xpc_dictionary_apply(t) \/ ApplyReturns(t)
  \/ \E c \in Conns : \/ SendMessage(t, c)
                      \/ \E id \in 1..MaxSends : Reply(t, c, id)
  \/ Serialize(t)

(* They neither make nor free the dictionary.                               *)
LEMMA IdleEffect ==
  ASSUME DictTypes, NEW t \in Threads, Idle(t)
  PROVE  dict' = dict /\ obj'.live = obj.live
<1>1. dict' = dict
  BY Zenon DEF Idle, catbsd_xpc_release, catbsd_xpc_retain, catbsd_xpc_dictionary_apply,
         ApplyReturns, SendMessage, Reply, Stamp, Serialize
<1>2. PICK n, id, r : \/ obj' = obj
                      \/ obj' = [obj EXCEPT !.refcount = n]
                      \/ obj' = [obj EXCEPT !.msg_id = id, !.is_reply = r]
  BY DEF Idle, catbsd_xpc_release, catbsd_xpc_retain, catbsd_xpc_dictionary_apply,
         ApplyReturns, SendMessage, Reply, Stamp, Serialize
<1>3. DOMAIN obj = {"live", "refcount", "msg_id", "is_reply"}
  BY DEF DictTypes
<1>4. obj'.live = obj.live
  BY <1>2, <1>3
<1> QED BY <1>1, <1>4

(* Every step is one of these.                                              *)
LEMMA NextCases ==
  ASSUME Next
  PROVE  \/ \E t \in Threads :
              \/ Idle(t) \/ catbsd_xpc_dictionary_create(t) \/ Free(t) \/ Deserialize(t)
              \/ \E k \in Keys : \/ catbsd_xpc_dictionary_remove(t, k)
                                 \/ \E v \in Values : catbsd_xpc_dictionary_set(t, k, v)
         \/ \E f \in Frames : Arrive(f)
BY Zenon DEF Next, Idle

(* Every operation leaves a list.                                           *)
LEMMA ListInvariant == Spec => []ListInv
<1>1. Init => ListInv
  BY EmptySound DEF Init, ListInv
<1>2. DictTypes /\ BufInv /\ ListInv /\ [Next]_vars => ListInv'
  <2> SUFFICES ASSUME DictTypes, BufInv, ListInv, [Next]_vars PROVE ListInv'
    OBVIOUS
  <2>1. ASSUME dict' = dict PROVE ListInv'
    BY <2>1 DEF ListInv
  <2>2. ASSUME dict' = Empty PROVE ListInv'
    BY <2>2, EmptySound DEF ListInv
  <2>3. CASE UNCHANGED vars
    BY <2>1, <2>3 DEF vars
  <2>4. ASSUME NEW t \in Threads, Idle(t) PROVE ListInv'
    BY <2>1, <2>4, IdleEffect
  <2>5. ASSUME NEW t \in Threads, catbsd_xpc_dictionary_create(t) \/ Free(t) PROVE ListInv'
    BY <2>2, <2>5 DEF catbsd_xpc_dictionary_create, Free
  <2>6. ASSUME NEW t \in Threads, Deserialize(t) PROVE ListInv'
    BY <2>1, <2>6, DeserializeEffect
  <2>7. ASSUME NEW t \in Threads, NEW k \in Keys, catbsd_xpc_dictionary_remove(t, k)
        PROVE  ListInv'
    BY <2>7, RemoveEffect
  <2>8. ASSUME NEW t \in Threads, NEW k \in Keys, NEW v \in Values,
               catbsd_xpc_dictionary_set(t, k, v)
        PROVE  ListInv'
    BY <2>8, SetEffect
  <2>9. ASSUME NEW f \in Frames, Arrive(f) PROVE ListInv'
    BY <2>1, <2>9 DEF Arrive
  <2> QED BY <2>3, <2>4, <2>5, <2>6, <2>7, <2>8, <2>9, NextCases, Zenon
<1>3. DictInv => DictTypes
  BY DEF DictInv
<1> QED BY <1>1, <1>2, <1>3, DictInvariant, FrameInvariant, PTL DEF Spec

(* Head, tail, count and allocated entries always agree, so that serialize  *)
(* and apply fill exactly what they allocate.                               *)
THEOREM ViewsAgree == Spec => []ListAgrees
<1>1. ListInv => ListAgrees
  <2> SUFFICES ASSUME NEW l, Sound(dict, l) PROVE ListAgrees
    BY DEF ListInv
  <2>1. List(dict) = l
    BY ListIs DEF Sound
  <2>2. l \in Seq(Nodes) /\ DOMAIN l = 1..Len(l) /\ (l = <<>> <=> Len(l) = 0)
    BY DEF Sound, Linked
  <2>3. dict.count = Len(l)
    BY DEF Sound
  <2>4. dict.tail = IF l = <<>> THEN Nil ELSE Last(l)
    BY <2>2 DEF Sound, Last
  <2>5. {l[i] : i \in DOMAIN l} = Nodes \ FreeNodes(dict)
    <3>1. \A i \in DOMAIN l : l[i] \in Nodes
      BY <2>2
    <3>2. \A n \in Nodes : n \notin FreeNodes(dict) <=> \E i \in DOMAIN l : l[i] = n
      BY <2>2 DEF Sound, FreeNodes
    <3> QED BY <3>1, <3>2
  <2>6. \A i, j \in DOMAIN l :
          dict.node[l[i]].entry.key = dict.node[l[j]].entry.key => i = j
    BY <2>2 DEF Sound
  <2> QED BY <2>1, <2>3, <2>4, <2>5, <2>6 DEF ListAgrees
<1> QED BY <1>1, ListInvariant, PTL

-----------------------------------------------------------------------------
(* The list implements the map.                                             *)

(* Gone is told apart from every map.                                       *)
GoneIsNoMap == \A X : Gone \notin Seq(X)

AsMap == IF obj.live THEN Contents(dict) ELSE Gone

(* The contents of a list are a map.                                        *)
LEMMA ContentsIsMap ==
  ASSUME NEW h, NEW l, Sound(h, l)
  PROVE  /\ \A i, j \in DOMAIN Contents(h) :
              Contents(h)[i].key = Contents(h)[j].key => i = j
         /\ GoneIsNoMap => Contents(h) # Gone
<1>1. PICK c : c = Contents(h)
  OBVIOUS
<1>2. c = [i \in 1..Len(l) |-> h.node[l[i]].entry]
  BY <1>1, ContentsIs
<1>3. \A i, j \in DOMAIN c : c[i].key = c[j].key => i = j
  BY <1>2 DEF Sound
<1>4. Len(l) \in Nat
  BY DEF Sound, Linked
<1>5. c \in Seq({c[i] : i \in 1..Len(l)})
  BY <1>2, <1>4
<1> QED BY <1>1, <1>3, <1>5 DEF GoneIsNoMap

(* Every step of the list is a step of the map, or none.                    *)
LEMMA MapStep ==
  ASSUME GoneIsNoMap, DictInv, BufInv, ListInv, ListInv', [Next]_vars
  PROVE  Map!Next \/ AsMap' = AsMap
<1>1. PICK l : Sound(dict, l)
  BY DEF ListInv
<1>2. PICK m : Sound(dict', m)
  BY DEF ListInv
<1>3. Contents(dict) # Gone
  BY <1>1, ContentsIsMap
<1>4. Contents(dict') # Gone
  BY <1>2, ContentsIsMap
<1>5. DictTypes /\ RefInv /\ obj.live \in BOOLEAN
  BY DEF DictInv, DictTypes
<1>6. ASSUME dict' = dict, obj'.live = obj.live PROVE AsMap' = AsMap
  BY <1>6 DEF AsMap
<1>7. CASE UNCHANGED vars
  BY <1>6, <1>7 DEF vars
<1>8. ASSUME NEW t \in Threads, Idle(t) PROVE AsMap' = AsMap
  BY <1>5, <1>6, <1>8, IdleEffect
<1>9. ASSUME NEW f \in Frames, Arrive(f) PROVE AsMap' = AsMap
  BY <1>6, <1>9 DEF Arrive
<1>10. ASSUME ~obj.live, obj'.live = TRUE PROVE Map!Create
  <2>1. Map!IsMap(Contents(dict'))
    BY <1>2, ContentsIsMap DEF Map!IsMap
  <2> QED BY <1>4, <1>10, <2>1 DEF Map!Create
<1>11. ASSUME NEW t \in Threads, catbsd_xpc_dictionary_create(t) PROVE Map!Next
  <2>1. ~obj.live /\ obj'.live = TRUE
    BY <1>11 DEF catbsd_xpc_dictionary_create, NoObj
  <2> QED BY <1>10, <2>1 DEF Map!Next
<1>12. ASSUME NEW t \in Threads, Deserialize(t) PROVE Map!Next \/ AsMap' = AsMap
  <2>1. ~obj.live
    BY <1>5, <1>12 DEF Deserialize, RefInv
  <2>2. CASE UNCHANGED <<dict, obj>>
    BY <1>6, <2>2
  <2>3. CASE obj'.live = TRUE
    BY <1>10, <2>1, <2>3 DEF Map!Next
  <2> QED BY <1>12, <2>2, <2>3, DeserializeEffect
<1>13. ASSUME NEW t \in Threads, Free(t) PROVE Map!Next
  <2>1. obj.live
    BY <1>5, <1>13 DEF Free, RefInv
  <2>2. obj'.live = FALSE
    BY <1>13 DEF Free, NoObj
  <2> QED BY <1>3, <2>1, <2>2 DEF Map!Next, Map!Free
<1>14. ASSUME NEW t \in Threads, CanCall(t), obj' = obj PROVE obj.live /\ obj'.live
  <2>1. th[t].refs > 0
    BY <1>14 DEF CanCall
  <2> QED BY <1>5, <1>14, <2>1, InUse
<1>15. ASSUME NEW t \in Threads, NEW k \in Keys, catbsd_xpc_dictionary_remove(t, k)
       PROVE  Map!Next
  <2>1. obj.live /\ obj'.live
    BY <1>14, <1>15 DEF catbsd_xpc_dictionary_remove
  <2>2. RemoveTo(Contents(dict), Contents(dict'))
    BY <1>15, RemoveEffect
  <2> QED BY <1>3, <2>1, <2>2 DEF RemoveTo, Map!Next, Map!Remove
<1>16. ASSUME NEW t \in Threads, NEW k \in Keys, NEW v \in Values,
              catbsd_xpc_dictionary_set(t, k, v)
       PROVE  Map!Next
  <2>1. obj.live /\ obj'.live
    BY <1>14, <1>16 DEF catbsd_xpc_dictionary_set
  <2>2. SetTo(Contents(dict), Contents(dict'))
    BY <1>16, SetEffect
  <2>3. Map!Set
    BY <1>3, <1>4, <2>1, <2>2 DEF SetTo, Map!Set, Map!KeysOf
  <2> QED BY <2>3 DEF Map!Next
<1> QED BY <1>7, <1>8, <1>9, <1>11, <1>12, <1>13, <1>15, <1>16, NextCases, Zenon

(* The list with its setters, remove, release and deserialize implements    *)
(* the ordered map that xpc_shim.h promises, for any number of entries.     *)
THEOREM ListImplementsMap == GoneIsNoMap /\ Spec => IsOrderedMap
<1>1. Init => Map!Init
  BY DEF Init, NoObj, Map!Init
<1>2. ASSUME GoneIsNoMap
      PROVE  DictInv /\ BufInv /\ ListInv /\ ListInv' /\ [Next]_vars
               => [Map!Next]_AsMap
  BY <1>2, MapStep
<1>3. ASSUME GoneIsNoMap PROVE Spec => IsOrderedMap
  <2>1. DictInv /\ BufInv /\ ListInv /\ ListInv' /\ [Next]_vars => [Map!Next]_AsMap
    BY <1>2, <1>3
  <2> QED BY <1>1, <2>1, DictInvariant, FrameInvariant, ListInvariant, PTL
          DEF Spec, IsOrderedMap, Map!Spec, AsMap
<1> QED BY <1>3

-----------------------------------------------------------------------------
(* Writing a frame.                                                         *)

(* A byte is its own value.                                                 *)
LEMMA GetOne ==
  ASSUME NEW f \in Seq(Bytes), NEW off \in Nat, off + 1 <= Len(f)
  PROVE  Get(f, off, 1) = f[off + 1]
<1>1. PICK g : GetLoop(f, off, 1, g)
  <2>1. 1 \in Nat
    OBVIOUS
  <2> QED BY <2>1, GetIs, Zenon
<1>2. g[0 + 1] = B * g[0] + ByteAt(f, off + 1 + 1 - (0 + 1))
  BY <1>1 DEF GetLoop
<1>3. off + 1 + 1 - (0 + 1) = off + 1 /\ 0 + 1 = 1 /\ B * 0 = 0
  BY WireAssumption
<1>4. f[off + 1] \in Nat
  BY WireAssumption DEF Bytes
<1> QED BY <1>1, <1>2, <1>3, <1>4 DEF ByteAt, GetLoop

(* What put_u16, put_u32 and put_u64 write: bytes, as many as the width.    *)
LEMMA PutType ==
  ASSUME NEW v \in Nat, NEW w \in 0..8
  PROVE  Put(v, w) \in Seq(Bytes) /\ Len(Put(v, w)) = w
<1>1. \A i \in 1..w : (v \div Pow[i - 1]) % B \in Bytes
  <2> SUFFICES ASSUME NEW i \in 1..w PROVE (v \div Pow[i - 1]) % B \in Bytes
    OBVIOUS
  <2>1. i - 1 \in 0..7
    OBVIOUS
  <2> QED BY <2>1, DivStep
<1>2. PICK s : s = Put(v, w)
  OBVIOUS
<1>3. s = [i \in 1..w |-> (v \div Pow[i - 1]) % B]
  BY <1>2 DEF Put
<1>4. s \in [1..w -> Bytes]
  BY <1>1, <1>3
<1> QED BY <1>2, <1>4

(* s lies in f behind the first off bytes.                                  *)
Holds(f, off, s) ==
  off + Len(s) <= Len(f) /\ \A j \in 1..Len(s) : f[off + j] = s[j]

(* What is written with a width is read with it, as long as it fits.        *)
LEMMA GetPut ==
  ASSUME NEW f \in Seq(Bytes), NEW off \in Nat, NEW w \in 0..8,
         NEW v \in 0..(Pow[w] - 1), Holds(f, off, Put(v, w))
  PROVE  Get(f, off, w) = v
<1>0. PICK p \in Nat : p = Pow[w] /\ p > 0 /\ v < p /\ v \in Nat
  <2>1. Pow[w] \in Nat /\ Pow[w] > 0
    BY PowType
  <2> QED BY <2>1
<1>1. PICK g : GetLoop(f, off, w, g)
  <2>1. w \in Nat
    OBVIOUS
  <2> QED BY <2>1, GetIs, Zenon
<1>2. off + w <= Len(f) /\ \A j \in 1..w : f[off + j] = (v \div Pow[j - 1]) % B
  <2>1. Len(Put(v, w)) = w
    BY <1>0, PutType
  <2>2. \A j \in 1..w : Put(v, w)[j] = (v \div Pow[j - 1]) % B
    BY DEF Put
  <2> QED BY <2>1, <2>2 DEF Holds
<1> DEFINE T == {n \in Nat : n <= w => g[n] = v \div Pow[w - n]}
<1>3. 0 \in T
  <2>1. v \div p = 0
    BY <1>0
  <2> QED BY <1>0, <1>1, <2>1 DEF GetLoop
<1>4. ASSUME NEW n \in Nat, n \in T PROVE n + 1 \in T
  <2> SUFFICES ASSUME n + 1 <= w PROVE g[n + 1] = v \div Pow[w - (n + 1)]
    OBVIOUS
  <2>1. PICK k \in 0..7 : k = w - (n + 1) /\ k + 1 = w - n /\ off + w + 1 - (n + 1) = off + (k + 1)
    OBVIOUS
  <2>2. g[n] = v \div Pow[k + 1]
    BY <1>4, <2>1
  <2>3. ByteAt(f, off + (k + 1)) = (v \div Pow[k]) % B
    <3>1. k + 1 \in 1..w /\ (k + 1) - 1 = k /\ off + (k + 1) \in 1..Len(f)
      BY <1>2, <2>1
    <3> QED BY <1>2, <3>1 DEF ByteAt
  <2>4. g[n + 1] = B * (v \div Pow[k + 1]) + ((v \div Pow[k]) % B)
    BY <1>1, <2>1, <2>2, <2>3 DEF GetLoop
  <2>5. v \div Pow[k] = B * (v \div Pow[k + 1]) + ((v \div Pow[k]) % B)
    BY <1>0, DivStep
  <2> QED BY <2>1, <2>4, <2>5
<1>5. w \in T
  <2> HIDE DEF T
  <2> QED BY <1>3, <1>4, SetInduction
<1>6. g[w] = v \div 1
  BY <1>5, PowIs
<1> QED BY <1>0, <1>1, <1>6 DEF GetLoop

(* Behind one another.                                                      *)
LEMMA Cat ==
  ASSUME NEW a \in Seq(Bytes), NEW b \in Seq(Bytes)
  PROVE  \E c \in Seq(Bytes) : /\ c = a \o b /\ Len(c) = Len(a) + Len(b)
                               /\ Holds(c, 0, a) /\ Holds(c, Len(a), b)
<1>1. PICK c \in Seq(Bytes) : c = a \o b
  BY ConcatProperties
<1>2. /\ Len(c) = Len(a) + Len(b)
      /\ \A j \in 1..(Len(a) + Len(b)) : c[j] = IF j <= Len(a) THEN a[j] ELSE b[j - Len(a)]
  BY <1>1, ConcatProperties
<1>3. PICK m, n \in Nat : m = Len(a) /\ n = Len(b)
  OBVIOUS
<1>4. \A j \in 1..m : c[0 + j] = a[j]
  BY <1>2, <1>3
<1>5. ASSUME NEW j \in 1..n PROVE c[m + j] = b[j]
  <2>1. m + j \in 1..(m + n) /\ ~(m + j <= m) /\ (m + j) - m = j
    BY <1>3
  <2> QED BY <1>2, <1>3, <2>1
<1>6. Len(c) = m + n
  BY <1>2, <1>3
<1>7. Holds(c, 0, a)
  BY <1>3, <1>4, <1>6 DEF Holds
<1>8. Holds(c, Len(a), b)
  BY <1>3, <1>5, <1>6 DEF Holds
<1>9. Len(c) = Len(a) + Len(b)
  BY <1>2
<1> QED BY <1>1, <1>7, <1>8, <1>9, Zenon

(* What lies in s lies in whatever s lies in.                               *)
LEMMA Inside ==
  ASSUME NEW f \in Seq(Bytes), NEW s \in Seq(Bytes), NEW t \in Seq(Bytes),
         NEW off \in Nat, NEW o \in Nat, Holds(f, off, s), Holds(s, o, t)
  PROVE  Holds(f, off + o, t)
<1>1. PICK l, m, n \in Nat : l = Len(f) /\ m = Len(s) /\ n = Len(t)
  OBVIOUS
<1>2. off + m <= l /\ o + n <= m
  BY <1>1 DEF Holds
<1>3. (off + o) + n <= l
  BY <1>2
<1>4. ASSUME NEW j \in 1..n PROVE f[(off + o) + j] = t[j]
  <2>1. PICK i \in 1..m : i = o + j /\ off + i = (off + o) + j
    BY <1>2
  <2>2. s[i] = t[j] /\ f[off + i] = s[i]
    BY <1>1, <2>1 DEF Holds
  <2> QED BY <2>1, <2>2
<1> QED BY <1>1, <1>3, <1>4 DEF Holds

(* The value of an entry takes the room payload_size counts for it.         *)
LEMMA PutValueType ==
  ASSUME NEW e, Fits(e)
  PROVE  /\ PutValue(e) \in Seq(Bytes) /\ Len(PutValue(e)) = ValueSize(e)
         /\ ValueSize(e) \in Nat
<1>1. PICK y \in 1..6 : y = e.type
  BY DEF Fits, Types, BOOL, DATA
<1> DEFINE p1 == <<e.value>>
           p2 == Put(e.value % Pow[8], 8)
           p3 == Put(Len(e.value), 4) \o e.value
<1>0. PutValue(e) = CASE e.type = BOOL          -> p1
                      [] e.type \in INT64..DOUBLE -> p2
                      [] e.type \in ByteTypes     -> p3
  BY Zenon DEF PutValue
<1> HIDE DEF p1, p2, p3
<1>2. CASE y = BOOL
  <2>1. e.value \in {0, 1} /\ ValueSize(e) = 1 /\ PutValue(e) = p1
    BY <1>0, <1>1, <1>2 DEF Fits, ValuesOf, ValueSize, BOOL, INT64, UINT64, DOUBLE,
                            ByteTypes, STRING_TYPE, DATA
  <2>2. e.value \in Bytes
    BY <2>1, WireAssumption DEF Bytes
  <2>3. p1 \in Seq(Bytes) /\ Len(p1) = 1
    BY <2>2 DEF p1
  <2> QED BY <2>1, <2>3
<1>3. CASE y \in INT64..DOUBLE
  <2>1. ValueSize(e) = 8 /\ PutValue(e) = p2
    BY <1>0, <1>1, <1>3 DEF ValueSize, BOOL, INT64, DOUBLE, ByteTypes, STRING_TYPE, DATA
  <2>2. Pow[8] \in Nat /\ Pow[8] > 0
    BY PowType
  <2>3. e.value \in Int
    BY <1>1, <1>3, <2>2 DEF Fits, ValuesOf, BOOL, INT64, UINT64, DOUBLE, ByteTypes,
                      STRING_TYPE, DATA
  <2>4. PICK v \in Nat : v = e.value % Pow[8]
    BY <2>2, <2>3
  <2>5. 8 \in 0..8
    OBVIOUS
  <2> QED BY <2>1, <2>4, <2>5, PutType DEF p2
<1>4. CASE y \in ByteTypes
  <2>1. PICK s \in Seq(Bytes) : s = e.value
    BY <1>1, <1>4 DEF Fits, ValuesOf, BOOL, INT64, UINT64, DOUBLE, ByteTypes, STRING_TYPE, DATA
  <2>2. ValueSize(e) = 4 + Len(s) /\ PutValue(e) = p3
    BY <1>0, <1>1, <1>4, <2>1 DEF ValueSize, BOOL, INT64, DOUBLE, ByteTypes, STRING_TYPE, DATA
  <2>3. 4 \in 0..8 /\ Len(s) \in Nat
    OBVIOUS
  <2>4. PICK a \in Seq(Bytes) : a = Put(Len(s), 4) /\ Len(a) = 4
    BY <2>3, PutType
  <2>5. PICK c \in Seq(Bytes) : c = a \o s /\ Len(c) = Len(a) + Len(s)
    BY Cat
  <2>6. p3 = c
    BY <2>1, <2>4, <2>5 DEF p3
  <2>7. Len(c) = 4 + Len(s) /\ 4 + Len(s) \in Nat
    <3>1. Len(c) = Len(a) + Len(s) /\ Len(a) = 4
      BY <2>4, <2>5, Zenon
    <3> QED BY <2>3, <3>1
  <2> QED BY <2>2, <2>6, <2>7, Zenon
<1> QED BY <1>1, <1>2, <1>3, <1>4 DEF BOOL, INT64, DOUBLE, ByteTypes, STRING_TYPE, DATA

(* So does the whole entry, and its parts lie where they are looked for.    *)
LEMMA PutEntryType ==
  ASSUME NEW e, Fits(e)
  PROVE  LET p == PutEntry(e)
             n == Len(e.key)
         IN /\ p \in Seq(Bytes) /\ Len(p) = EntrySize(e)
            /\ EntrySize(e) \in Nat /\ EntrySize(e) > 0
            /\ Holds(p, 0, Put(n, 2)) /\ Holds(p, 2, e.key)
            /\ Holds(p, 2 + n, <<e.type>>) /\ Holds(p, 3 + n, PutValue(e))
<1>1. PICK k \in Seq(Bytes) : k = e.key
  <2>1. e.key \in Seq(Bytes \ {0})
    BY DEF Fits
  <2> QED BY <2>1
<1>2. PICK n \in Nat : n = Len(k)
  OBVIOUS
<1>3. PICK a \in Seq(Bytes) : a = Put(n, 2) /\ Len(a) = 2
  <2>1. 2 \in 0..8
    OBVIOUS
  <2> QED BY <2>1, PutType
<1>4. PICK y \in Seq(Bytes) : y = <<e.type>> /\ Len(y) = 1
  <2>1. e.type \in Bytes
    BY WireAssumption DEF Fits, Types, BOOL, DATA, Bytes
  <2>2. PICK y : y = <<e.type>>
    OBVIOUS
  <2>3. y \in Seq(Bytes) /\ Len(y) = 1
    BY <2>1, <2>2
  <2> QED BY <2>2, <2>3
<1>5. PICK v \in Seq(Bytes) : v = PutValue(e) /\ Len(v) = ValueSize(e)
  BY PutValueType
<1>6. PICK m \in Nat : m = Len(v)
  OBVIOUS
<1>7. PICK b \in Seq(Bytes) : /\ b = a \o k /\ Len(b) = 2 + n
                             /\ Holds(b, 0, a) /\ Holds(b, 2, k)
  <2>1. PICK b \in Seq(Bytes) : /\ b = a \o k /\ Len(b) = Len(a) + Len(k)
                             /\ Holds(b, 0, a) /\ Holds(b, Len(a), k)
    BY Cat
  <2> QED BY <1>2, <1>3, <2>1
<1>8. PICK c \in Seq(Bytes) : /\ c = b \o y /\ Len(c) = 2 + n + 1
                             /\ Holds(c, 0, b) /\ Holds(c, 2 + n, y)
  <2>1. PICK c \in Seq(Bytes) : /\ c = b \o y /\ Len(c) = Len(b) + Len(y)
                             /\ Holds(c, 0, b) /\ Holds(c, Len(b), y)
    BY Cat
  <2> QED BY <1>4, <1>7, <2>1
<1>9. PICK p \in Seq(Bytes) : /\ p = c \o v /\ Len(p) = 2 + n + 1 + m
                             /\ Holds(p, 0, c) /\ Holds(p, 2 + n + 1, v)
  <2>1. PICK p \in Seq(Bytes) : /\ p = c \o v /\ Len(p) = Len(c) + Len(v)
                             /\ Holds(p, 0, c) /\ Holds(p, Len(c), v)
    BY Cat
  <2> QED BY <1>6, <1>8, <2>1
<1>10. p = PutEntry(e)
  BY <1>1, <1>2, <1>3, <1>4, <1>5, <1>7, <1>8, <1>9 DEF PutEntry
<1>11. EntrySize(e) = 2 + n + 1 + m
  BY <1>1, <1>2, <1>5, <1>6 DEF EntrySize
<1>12. Holds(p, 0, b)
  <2>1. 0 \in Nat /\ 0 + 0 = 0
    OBVIOUS
  <2>2. Holds(p, 0 + 0, b)
    BY <1>8, <1>9, <2>1, Inside
  <2> QED BY <2>1, <2>2
<1>13. Holds(p, 0, a)
  <2>1. 0 \in Nat /\ 0 + 0 = 0
    OBVIOUS
  <2>2. Holds(p, 0 + 0, a)
    BY <1>7, <1>12, <2>1, Inside
  <2> QED BY <2>1, <2>2
<1>14. Holds(p, 2, k)
  <2>1. 0 \in Nat /\ 2 \in Nat /\ 0 + 2 = 2
    OBVIOUS
  <2>2. Holds(p, 0 + 2, k)
    BY <1>7, <1>12, <2>1, Inside
  <2> QED BY <2>1, <2>2
<1>15. Holds(p, 2 + n, y)
  <2>1. 0 \in Nat /\ 2 + n \in Nat /\ 0 + (2 + n) = 2 + n
    OBVIOUS
  <2>2. Holds(p, 0 + (2 + n), y)
    BY <1>8, <1>9, <2>1, Inside
  <2> QED BY <2>1, <2>2
<1>16. 2 + n + 1 = 3 + n /\ 2 + n + 1 + m \in Nat /\ 2 + n + 1 + m > 0
  OBVIOUS
<1> QED BY <1>1, <1>2, <1>3, <1>4, <1>5, <1>9, <1>10, <1>11, <1>13, <1>14, <1>15, <1>16

(* The loop of payload_size_locked.                                         *)
Sizes(es, n) ==
  /\ payload_size(es) = n[Len(es)] /\ n[0] = 0
  /\ \A i \in 1..Len(es) : n[i] = n[i - 1] + EntrySize(es[i])

LEMMA SizesIs ==
  ASSUME NEW X, NEW es \in Seq(X)
  PROVE  \E n : Sizes(es, n)
<1> DEFINE N == Len(es)
           Is(g, n) == g = [i \in 0..n |-> IF i = 0 THEN 0 ELSE g[i - 1] + EntrySize(es[i])]
           S == {n \in Nat : \E g : Is(g, n)}
           h == CHOOSE g : Is(g, N)
<1>1. N \in Nat
  OBVIOUS
<1>2. payload_size(es) = h[N]
  BY Zenon DEF payload_size
<1> HIDE DEF N
<1>3. 0 \in S
  <2>1. Is([i \in 0..0 |-> 0], 0)
    OBVIOUS
  <2> HIDE DEF Is
  <2> QED BY <2>1
<1>4. ASSUME NEW n \in Nat, n \in S PROVE n + 1 \in S
  <2>1. PICK g : Is(g, n)
    BY <1>4
  <2> DEFINE k == [i \in 0..(n + 1) |-> IF i <= n THEN g[i] ELSE g[n] + EntrySize(es[i])]
  <2>2. ASSUME NEW i \in 0..(n + 1)
        PROVE  k[i] = IF i = 0 THEN 0 ELSE k[i - 1] + EntrySize(es[i])
    <3>1. CASE i = 0
      BY <2>1, <3>1
    <3>2. CASE i \in 1..n
      BY <2>1, <3>2
    <3>3. CASE i = n + 1
      BY <2>1, <3>3
    <3> QED BY <3>1, <3>2, <3>3
  <2>3. Is(k, n + 1)
    BY <2>2
  <2> HIDE DEF Is, k
  <2> QED BY <2>3
<1>5. Is(h, N)
  <2>1. N \in S
    <3> HIDE DEF S
    <3> QED BY <1>1, <1>3, <1>4, SetInduction
  <2> HIDE DEF Is
  <2> QED BY <2>1
<1> HIDE DEF h
<1>6. h[0] = 0 /\ \A i \in 1..N : h[i] = h[i - 1] + EntrySize(es[i])
  BY <1>1, <1>5
<1> QED BY <1>2, <1>6 DEF Sizes, N

(* The loop of catbsd_xpc_serialize.                                        *)
Written(es, out) ==
  /\ PutEntries(es) = out[Len(es)] /\ out[0] = <<>>
  /\ \A i \in 1..Len(es) : out[i] = out[i - 1] \o PutEntry(es[i])

LEMMA WrittenIs ==
  ASSUME NEW X, NEW es \in Seq(X)
  PROVE  \E out : Written(es, out)
<1> DEFINE N == Len(es)
           Is(g, n) == g = [i \in 0..n |-> IF i = 0 THEN <<>> ELSE g[i - 1] \o PutEntry(es[i])]
           S == {n \in Nat : \E g : Is(g, n)}
           h == CHOOSE g : Is(g, N)
<1>1. N \in Nat
  OBVIOUS
<1>2. PutEntries(es) = h[N]
  BY Zenon DEF PutEntries
<1> HIDE DEF N
<1>3. 0 \in S
  <2>1. Is([i \in 0..0 |-> <<>>], 0)
    OBVIOUS
  <2> HIDE DEF Is
  <2> QED BY <2>1
<1>4. ASSUME NEW n \in Nat, n \in S PROVE n + 1 \in S
  <2>1. PICK g : Is(g, n)
    BY <1>4
  <2> DEFINE k == [i \in 0..(n + 1) |-> IF i <= n THEN g[i] ELSE g[n] \o PutEntry(es[i])]
  <2>2. ASSUME NEW i \in 0..(n + 1)
        PROVE  k[i] = IF i = 0 THEN <<>> ELSE k[i - 1] \o PutEntry(es[i])
    <3>1. CASE i = 0
      BY <2>1, <3>1
    <3>2. CASE i \in 1..n
      BY <2>1, <3>2
    <3>3. CASE i = n + 1
      BY <2>1, <3>3
    <3> QED BY <3>1, <3>2, <3>3
  <2>3. Is(k, n + 1)
    BY <2>2
  <2> HIDE DEF Is, k
  <2> QED BY <2>3
<1>5. Is(h, N)
  <2>1. N \in S
    <3> HIDE DEF S
    <3> QED BY <1>1, <1>3, <1>4, SetInduction
  <2> HIDE DEF Is
  <2> QED BY <2>1
<1> HIDE DEF h
<1>6. h[0] = <<>> /\ \A i \in 1..N : h[i] = h[i - 1] \o PutEntry(es[i])
  BY <1>1, <1>5
<1> QED BY <1>2, <1>6 DEF Written, N

(* The entries fill the payload exactly, each where the sizes of those      *)
(* before it say.                                                           *)
Laid(es, n) ==
  /\ Sizes(es, n) /\ \A i \in 0..Len(es) : n[i] \in Nat
  /\ PutEntries(es) \in Seq(Bytes) /\ Len(PutEntries(es)) = n[Len(es)]
  /\ \A i \in 1..Len(es) : Holds(PutEntries(es), n[i - 1], PutEntry(es[i]))
  /\ Len(es) <= n[Len(es)]

LEMMA EntriesFill ==
  ASSUME NEW X, NEW es \in Seq(X), \A x \in X : Fits(x)
  PROVE  \E n : Laid(es, n)
<1>1. PICK n : Sizes(es, n)
  BY SizesIs
<1>2. PICK out : Written(es, out)
  BY WrittenIs
<1>3. PICK N \in Nat : N = Len(es) /\ \A i \in 1..N : Fits(es[i])
  OBVIOUS
<1> DEFINE P(k) == /\ n[k] \in Nat /\ k <= n[k]
                   /\ out[k] \in Seq(Bytes) /\ Len(out[k]) = n[k]
                   /\ \A i \in 1..k : Holds(out[k], n[i - 1], PutEntry(es[i]))
                   /\ \A i \in 0..k : n[i] \in Nat
           T == {k \in Nat : k <= N => P(k)}
<1>4. 0 \in T
  <2>1. n[0] = 0 /\ out[0] = <<>>
    BY <1>1, <1>2 DEF Sizes, Written
  <2>2. <<>> \in Seq(Bytes) /\ Len(<<>>) = 0 /\ 1..0 = {} /\ \A i \in 0..0 : i = 0
    OBVIOUS
  <2>3. P(0)
    BY <2>1, <2>2
  <2> HIDE DEF P
  <2> QED BY <2>3
<1>5. ASSUME NEW k \in Nat, k \in T PROVE k + 1 \in T
  <2> SUFFICES ASSUME k + 1 <= N PROVE P(k + 1)
    OBVIOUS
  <2>1. P(k)
    <3> HIDE DEF P
    <3> QED BY <1>3, <1>5
  <2>2. k + 1 \in 1..N /\ (k + 1) - 1 = k
    BY <1>3
  <2>3. PICK e : e = es[k + 1] /\ Fits(e)
    BY <1>3, <2>2
  <2>4. PICK p \in Seq(Bytes) : p = PutEntry(e) /\ Len(p) = EntrySize(e)
    BY <2>3, PutEntryType
  <2>5. EntrySize(e) \in Nat /\ EntrySize(e) > 0
    BY <2>3, PutEntryType
  <2>6. PICK a \in Seq(Bytes) : a = out[k] /\ Len(a) = n[k]
    BY <2>1
  <2>7. PICK c \in Seq(Bytes) : /\ c = a \o p /\ Len(c) = Len(a) + Len(p)
                               /\ Holds(c, 0, a) /\ Holds(c, Len(a), p)
    BY Cat
  <2>8. out[k + 1] = c
    BY <1>2, <1>3, <2>2, <2>3, <2>4, <2>6, <2>7 DEF Written
  <2>9. n[k + 1] = n[k] + EntrySize(e)
    BY <1>1, <1>3, <2>2, <2>3 DEF Sizes
  <2>10. PICK m, z \in Nat : m = n[k] /\ z = EntrySize(e) /\ z > 0 /\ k <= m
    BY <2>1, <2>5
  <2>11. n[k + 1] \in Nat /\ k + 1 <= n[k + 1] /\ Len(c) = n[k + 1]
    <3>1. Len(c) = m + z /\ n[k + 1] = m + z
      <4>1. Len(c) = Len(a) + Len(p)
        BY <2>7, Zenon
      <4> QED BY <2>4, <2>6, <2>9, <2>10, <4>1
    <3>2. m + z \in Nat /\ k + 1 <= m + z
      BY <2>10
    <3> QED BY <3>1, <3>2
  <2>12. ASSUME NEW i \in 1..(k + 1) PROVE Holds(c, n[i - 1], PutEntry(es[i]))
    <3>1. CASE i = k + 1
      <4>1. Holds(c, n[k], p)
        BY <2>6, <2>7, Zenon
      <4> QED BY <2>2, <2>3, <2>4, <3>1, <4>1
    <3>2. CASE i \in 1..k
      <4>1. PICK q \in Seq(Bytes) : q = PutEntry(es[i])
        <5>1. i \in 1..N
          BY <3>2, <2>2
        <5>2. PICK x : x = es[i] /\ Fits(x)
          BY <1>3, <5>1
        <5> QED BY <5>2, PutEntryType
      <4>2. PICK o \in Nat : o = n[i - 1]
        <5>1. i - 1 \in 0..k
          BY <3>2
        <5> QED BY <2>1, <5>1
      <4>3. Holds(a, o, q) /\ Holds(c, 0, a)
        BY <2>1, <2>6, <2>7, <3>2, <4>1, <4>2
      <4>4. 0 \in Nat /\ 0 + o = o
        OBVIOUS
      <4>5. Holds(c, 0 + o, q)
        BY <4>3, <4>4, Inside
      <4> QED BY <4>1, <4>2, <4>4, <4>5
    <3> QED BY <3>1, <3>2
  <2>13. \A i \in 0..(k + 1) : n[i] \in Nat
    <3>1. \A i \in 0..(k + 1) : i \in 0..k \/ i = k + 1
      OBVIOUS
    <3> QED BY <2>1, <2>11, <3>1
  <2> QED BY <2>8, <2>11, <2>12, <2>13
<1>6. P(N)
  <2>1. N \in T
    <3> HIDE DEF T
    <3> QED BY <1>3, <1>4, <1>5, SetInduction
  <2> HIDE DEF P
  <2> QED BY <2>1
<1>7. PutEntries(es) = out[N]
  BY <1>2, <1>3 DEF Written
<1>8. Laid(es, n)
  BY <1>1, <1>3, <1>6, <1>7 DEF Laid
<1> QED BY <1>8

(* f is a frame with these entries, id and flag.                            *)
IsFrame(f, es, n, id, flag) ==
  /\ f \in Seq(Bytes) /\ Len(f) = HeaderSize + n[Len(es)] /\ Len(f) <= MaxMessage
  /\ HasHeader(f) /\ Payload(f) = n[Len(es)]
  /\ Get(f, 8, 8) = id /\ Get(f, 16, 4) = flag /\ Get(f, 20, 4) = Len(es)
  /\ \A i \in 1..Len(es) : Holds(f, HeaderSize + n[i - 1], PutEntry(es[i]))

(* Every field of the header is read as it was written.                     *)
LEMMA SerializeIs ==
  ASSUME NEW X, NEW es \in Seq(X), \A x \in X : Fits(x), NEW n, Laid(es, n),
         NEW id \in 0..(Pow[8] - 1), NEW r \in BOOLEAN,
         catbsd_xpc_serialize(es, Len(es), id, r) # <<>>
  PROVE  \E f : /\ catbsd_xpc_serialize(es, Len(es), id, r) = <<f>>
                /\ IsFrame(f, es, n, id, IF r THEN 1 ELSE 0)
<1>1. PICK N \in Nat : N = Len(es)
  OBVIOUS
<1>2. PICK m \in Nat : m = n[N] /\ m = payload_size(es) /\ N <= m
  BY <1>1 DEF Laid, Sizes
<1>3. PICK body \in Seq(Bytes) : body = PutEntries(es) /\ Len(body) = m
  BY <1>1, <1>2 DEF Laid
<1>4. PICK flag \in 0..1 : flag = IF r THEN 1 ELSE 0
  OBVIOUS
<1> DEFINE F == Magic \o Put(m, 4) \o Put(id, 8) \o Put(flag, 4) \o Put(N, 4) \o body
<1>5. HeaderSize + m <= MaxMessage /\ catbsd_xpc_serialize(es, Len(es), id, r) = <<F>>
  <2>1. catbsd_xpc_serialize(es, Len(es), id, r)
          = IF HeaderSize + m > MaxMessage THEN <<>> ELSE <<F>>
    BY <1>1, <1>2, <1>3, <1>4, Zenon DEF catbsd_xpc_serialize
  <2> HIDE DEF F
  <2>2. HeaderSize + m \in Nat /\ MaxMessage \in Int
    BY WireAssumption DEF HeaderSize
  <2>3. ~(HeaderSize + m > MaxMessage)
    BY <2>1
  <2>4. catbsd_xpc_serialize(es, Len(es), id, r) = <<F>>
    BY <2>1, <2>3
  <2> QED BY <2>2, <2>3, <2>4
<1>6. /\ m \in 0..(Pow[4] - 1) /\ flag \in 0..(Pow[4] - 1) /\ N \in 0..(Pow[4] - 1)
      /\ id \in Nat
  <2>1. PICK p, q \in Nat : p = Pow[4] /\ q = Pow[8]
    BY PowType
  <2>2. MaxMessage \in 1..(p - 1) /\ 24 + m <= MaxMessage
    BY <1>5, <2>1, WireAssumption DEF HeaderSize
  <2>3. m \in 0..(p - 1) /\ flag \in 0..(p - 1) /\ N \in 0..(p - 1)
    BY <1>2, <2>2
  <2>4. id \in Nat
    BY <2>1
  <2> QED BY <2>1, <2>3, <2>4
<1>7. PICK magic \in Seq(Bytes) : magic = Magic /\ Len(magic) = 4
  <2>1. Magic \in [1..4 -> Bytes]
    BY WireAssumption
  <2>2. PICK c \in [1..4 -> Bytes] : c = Magic
    BY <2>1
  <2>3. PICK k \in Nat : k = 4
    OBVIOUS
  <2>4. c \in [1..k -> Bytes]
    BY <2>3
  <2>5. c \in Seq(Bytes) /\ Len(c) = k
    BY <2>4
  <2> QED BY <2>2, <2>3, <2>5, Zenon
<1>8. PICK p1 \in Seq(Bytes) : p1 = Put(m, 4) /\ Len(p1) = 4
  <2>1. 4 \in 0..8
    OBVIOUS
  <2> QED BY <2>1, PutType
<1>9. PICK p2 \in Seq(Bytes) : p2 = Put(id, 8) /\ Len(p2) = 8
  <2>1. 8 \in 0..8
    OBVIOUS
  <2> QED BY <1>6, <2>1, PutType
<1>10. PICK p3 \in Seq(Bytes) : p3 = Put(flag, 4) /\ Len(p3) = 4
  <2>1. 4 \in 0..8 /\ flag \in Nat
    OBVIOUS
  <2> QED BY <2>1, PutType
<1>11. PICK p4 \in Seq(Bytes) : p4 = Put(N, 4) /\ Len(p4) = 4
  <2>1. 4 \in 0..8
    OBVIOUS
  <2> QED BY <2>1, PutType
<1>12. PICK h1 \in Seq(Bytes) : /\ h1 = magic \o p1 /\ Len(h1) = 8
                             /\ Holds(h1, 0, magic) /\ Holds(h1, 4, p1)
  <2>1. PICK x \in Seq(Bytes) : /\ x = magic \o p1 /\ Len(x) = Len(magic) + Len(p1)
                             /\ Holds(x, 0, magic) /\ Holds(x, Len(magic), p1)
    BY Cat
  <2>2. Len(magic) = 4 /\ Len(p1) = 4
    BY <1>7, <1>8, Zenon
  <2>3. Len(magic) + Len(p1) = 8
    BY <2>2
  <2> QED BY <2>1, <2>2, <2>3, Zenon
<1>13. Len(h1) = 8
  BY <1>12, Zenon
<1>14. PICK h2 \in Seq(Bytes) : /\ h2 = h1 \o p2 /\ Len(h2) = 16
                             /\ Holds(h2, 0, h1) /\ Holds(h2, 8, p2)
  <2>1. PICK x \in Seq(Bytes) : /\ x = h1 \o p2 /\ Len(x) = Len(h1) + Len(p2)
                             /\ Holds(x, 0, h1) /\ Holds(x, Len(h1), p2)
    BY Cat
  <2>2. Len(h1) = 8 /\ Len(p2) = 8
    BY <1>9, <1>13, Zenon
  <2>3. Len(h1) + Len(p2) = 16
    BY <2>2
  <2> QED BY <2>1, <2>2, <2>3, Zenon
<1>15. Len(h2) = 16
  BY <1>14, Zenon
<1>16. PICK h3 \in Seq(Bytes) : /\ h3 = h2 \o p3 /\ Len(h3) = 20
                             /\ Holds(h3, 0, h2) /\ Holds(h3, 16, p3)
  <2>1. PICK x \in Seq(Bytes) : /\ x = h2 \o p3 /\ Len(x) = Len(h2) + Len(p3)
                             /\ Holds(x, 0, h2) /\ Holds(x, Len(h2), p3)
    BY Cat
  <2>2. Len(h2) = 16 /\ Len(p3) = 4
    BY <1>10, <1>15, Zenon
  <2>3. Len(h2) + Len(p3) = 20
    BY <2>2
  <2> QED BY <2>1, <2>2, <2>3, Zenon
<1>17. Len(h3) = 20
  BY <1>16, Zenon
<1>18. PICK h4 \in Seq(Bytes) : /\ h4 = h3 \o p4 /\ Len(h4) = 24
                             /\ Holds(h4, 0, h3) /\ Holds(h4, 20, p4)
  <2>1. PICK x \in Seq(Bytes) : /\ x = h3 \o p4 /\ Len(x) = Len(h3) + Len(p4)
                             /\ Holds(x, 0, h3) /\ Holds(x, Len(h3), p4)
    BY Cat
  <2>2. Len(h3) = 20 /\ Len(p4) = 4
    BY <1>11, <1>17, Zenon
  <2>3. Len(h3) + Len(p4) = 24
    BY <2>2
  <2> QED BY <2>1, <2>2, <2>3, Zenon
<1>19. Len(h4) = 24
  BY <1>18, Zenon
<1>20. PICK f \in Seq(Bytes) : /\ f = h4 \o body /\ Len(f) = 24 + m
                             /\ Holds(f, 0, h4) /\ Holds(f, 24, body)
  <2>1. PICK x \in Seq(Bytes) : /\ x = h4 \o body /\ Len(x) = Len(h4) + Len(body)
                             /\ Holds(x, 0, h4) /\ Holds(x, Len(h4), body)
    BY Cat
  <2>2. Len(h4) = 24 /\ Len(body) = m
    BY <1>3, <1>19, Zenon
  <2>3. Len(h4) + Len(body) = 24 + m
    BY <2>2
  <2> QED BY <2>1, <2>2, <2>3, Zenon
<1>21. Len(f) = 24 + m
  BY <1>20, Zenon
<1>22. F = f
  BY <1>7, <1>8, <1>9, <1>10, <1>11, <1>12, <1>14, <1>16, <1>18, <1>20, <1>3, Zenon
<1> HIDE DEF F
<1>23. Holds(f, 0, h4) /\ Holds(h4, 0, h3) /\ Holds(h3, 0, h2) /\ Holds(h2, 0, h1)
  BY <1>14, <1>16, <1>18, <1>20, Zenon
<1>24. /\ Holds(f, 24, body) /\ Holds(h4, 20, p4) /\ Holds(h3, 16, p3)
       /\ Holds(h2, 8, p2) /\ Holds(h1, 4, p1) /\ Holds(h1, 0, magic)
  BY <1>12, <1>14, <1>16, <1>18, <1>20, Zenon
<1>25. ASSUME NEW s \in Seq(Bytes), NEW t \in Seq(Bytes), NEW o \in Nat,
              Holds(f, 0, s), Holds(s, o, t)
       PROVE  Holds(f, o, t)
  <2>1. 0 \in Nat /\ 0 + o = o
    OBVIOUS
  <2>2. Holds(f, 0 + o, t)
    BY <1>25, <2>1, Inside
  <2> QED BY <2>1, <2>2
<1>26. 0 \in Nat /\ 4 \in Nat /\ 8 \in Nat /\ 16 \in Nat /\ 20 \in Nat /\ 4 \in 0..8 /\ 8 \in 0..8
  OBVIOUS
<1>27. Holds(f, 0, h3) /\ Holds(f, 0, h2) /\ Holds(f, 0, h1)
  BY <1>23, <1>25, <1>26
<1>28. /\ Holds(f, 0, magic) /\ Holds(f, 4, p1) /\ Holds(f, 8, p2) /\ Holds(f, 16, p3)
       /\ Holds(f, 20, p4)
  <2>1. Holds(f, 0, magic) /\ Holds(f, 4, p1)
    BY <1>24, <1>25, <1>26, <1>27
  <2>2. Holds(f, 8, p2)
    BY <1>24, <1>25, <1>26, <1>27
  <2>3. Holds(f, 16, p3)
    BY <1>24, <1>25, <1>26, <1>27
  <2>4. Holds(f, 20, p4)
    BY <1>23, <1>24, <1>25, <1>26
  <2> QED BY <2>1, <2>2, <2>3, <2>4
<1>29. /\ Get(f, 4, 4) = m /\ Get(f, 8, 8) = id /\ Get(f, 16, 4) = flag
       /\ Get(f, 20, 4) = N
  <2>1. Get(f, 4, 4) = m
    BY <1>6, <1>8, <1>26, <1>28, GetPut
  <2>2. Get(f, 8, 8) = id
    BY <1>6, <1>9, <1>26, <1>28, GetPut
  <2>3. Get(f, 16, 4) = flag
    BY <1>6, <1>10, <1>26, <1>28, GetPut
  <2>4. Get(f, 20, 4) = N
    BY <1>6, <1>11, <1>26, <1>28, GetPut
  <2> QED BY <2>1, <2>2, <2>3, <2>4
<1>30. HasHeader(f)
  <2>1. \A j \in 1..4 : f[j] = Magic[j]
    <3>1. \A j \in 1..4 : f[0 + j] = magic[j]
      BY <1>7, <1>28 DEF Holds
    <3>2. \A j \in 1..4 : 0 + j = j
      OBVIOUS
    <3>3. magic = Magic
      BY <1>7, Zenon
    <3> QED BY ONLY <3>1, <3>2, <3>3
  <2>2. Len(f) >= 24
    BY <1>21
  <2>3. SubSeq(f, 1, 4) = Magic
    <3>1. SubSeq(f, 1, 4) = [j \in 1..4 |-> f[j]]
      BY <2>2
    <3>2. Magic = [j \in 1..4 |-> Magic[j]]
      BY WireAssumption
    <3> QED BY <2>1, <3>1, <3>2
  <2> QED BY <2>2, <2>3 DEF HasHeader, HeaderSize
<1>31. ASSUME NEW i \in 1..N PROVE Holds(f, HeaderSize + n[i - 1], PutEntry(es[i]))
  <2>1. PICK o \in Nat : o = n[i - 1]
    <3>1. i - 1 \in 0..N
      OBVIOUS
    <3> QED BY <1>1, <3>1 DEF Laid
  <2>2. PICK q \in Seq(Bytes) : q = PutEntry(es[i])
    <3>1. PICK x : x = es[i] /\ Fits(x)
      BY <1>1
    <3> QED BY <3>1, PutEntryType
  <2>3. Holds(body, o, q)
    BY <1>1, <1>3, <2>1, <2>2 DEF Laid
  <2>4. 24 \in Nat
    OBVIOUS
  <2>5. Holds(f, 24 + o, q)
    BY <1>24, <2>3, <2>4, Inside
  <2> QED BY <2>1, <2>2, <2>5 DEF HeaderSize
<1>32. Len(f) = HeaderSize + n[Len(es)] /\ Len(f) <= MaxMessage /\ Payload(f) = n[Len(es)]
  BY <1>1, <1>2, <1>5, <1>21, <1>29 DEF HeaderSize, Payload
<1>33. IsFrame(f, es, n, id, flag)
  BY <1>1, <1>29, <1>30, <1>31, <1>32 DEF IsFrame
<1> QED BY <1>4, <1>5, <1>22, <1>33

(* The bytes that lie in f, one by one.                                     *)
LEMMA BytesBack ==
  ASSUME NEW f \in Seq(Bytes), NEW off \in Nat, NEW s \in Seq(Bytes), Holds(f, off, s)
  PROVE  [i \in 1..Len(s) |-> ByteAt(f, off + i)] = s
<1>1. PICK n \in Nat : n = Len(s)
  OBVIOUS
<1>2. ASSUME NEW i \in 1..n PROVE ByteAt(f, off + i) = s[i]
  <2>1. off + i \in 1..Len(f) /\ f[off + i] = s[i]
    BY <1>1 DEF Holds
  <2> QED BY <2>1 DEF ByteAt
<1>3. s = [i \in 1..n |-> s[i]]
  BY <1>1
<1> QED BY <1>1, <1>2, <1>3

(* Which bytes stand for a value.                                           *)
LEMMA PutValueIs ==
  ASSUME NEW e, NEW y \in 1..6, y = e.type
  PROVE  /\ y = 1 => PutValue(e) = <<e.value>>
         /\ y \in 2..4 => PutValue(e) = Put(e.value % Pow[8], 8)
         /\ y \in 5..6 => PutValue(e) = Put(Len(e.value), 4) \o e.value
<1> DEFINE p1 == <<e.value>>
           p2 == Put(e.value % Pow[8], 8)
           p3 == Put(Len(e.value), 4) \o e.value
<1>1. PutValue(e) = CASE y = BOOL          -> p1
                      [] y \in INT64..DOUBLE -> p2
                      [] y \in ByteTypes     -> p3
  BY Zenon DEF PutValue
<1> HIDE DEF p1, p2, p3
<1>2. /\ y = BOOL <=> y = 1
      /\ y \in INT64..DOUBLE <=> y \in 2..4
      /\ y \in ByteTypes <=> y \in 5..6
  BY DEF BOOL, INT64, DOUBLE, ByteTypes, STRING_TYPE, DATA
<1>3. y = 1 => PutValue(e) = p1
  BY <1>1, <1>2
<1>4. y \in 2..4 => PutValue(e) = p2
  BY <1>1, <1>2
<1>5. y \in 5..6 => PutValue(e) = p3
  BY <1>1, <1>2
<1> QED BY <1>3, <1>4, <1>5, Zenon DEF p1, p2, p3

(* Half of a number, rounded down.                                          *)
LEMMA Half == \A n \in Nat : n \div 2 \in Nat /\ 2 * (n \div 2) <= n
OBVIOUS

(* What remains of a number of the right size, and of a negative one.       *)
LEMMA ModIs ==
  ASSUME NEW P \in Nat, P > 0, NEW v \in Int
  PROVE  /\ v \in 0..(P - 1) => v % P = v
         /\ v + P \in 0..(P - 1) => v % P = v + P
<1>1. PICK q, r \in Int : v = (P * q) + r /\ r \in 0..(P - 1) /\ v % P = r
  <2>1. v = (P * (v \div P)) + (v % P) /\ v % P \in 0..(P - 1) /\ v \div P \in Int
    OBVIOUS
  <2> QED BY <2>1
<1>2. ASSUME v \in 0..(P - 1) PROVE r = v
  <2>1. q < 1
    <3> SUFFICES ASSUME q >= 1 PROVE FALSE
      OBVIOUS
    <3>1. P * q >= P
      OBVIOUS
    <3> QED BY <1>1, <1>2, <3>1
  <2>2. q > -1
    <3> SUFFICES ASSUME q <= -1 PROVE FALSE
      OBVIOUS
    <3>1. P * q <= -P
      OBVIOUS
    <3> QED BY <1>1, <1>2, <3>1
  <2>3. q = 0
    BY <2>1, <2>2
  <2> QED BY <1>1, <2>3
<1>3. ASSUME v + P \in 0..(P - 1) PROVE r = v + P
  <2>1. q < 0
    <3> SUFFICES ASSUME q >= 0 PROVE FALSE
      OBVIOUS
    <3>1. P * q >= 0
      OBVIOUS
    <3> QED BY <1>1, <1>3, <3>1
  <2>2. q > -2
    <3> SUFFICES ASSUME q <= -2 PROVE FALSE
      OBVIOUS
    <3>1. P * q <= -(2 * P)
      OBVIOUS
    <3> QED BY <1>1, <1>3, <3>1
  <2>3. q = -1
    BY <2>1, <2>2
  <2> QED BY <1>1, <2>3
<1> QED BY <1>1, <1>2, <1>3

(* A scalar comes back: two's complement is undone by the cast.             *)
LEMMA ScalarBack ==
  ASSUME NEW f \in Seq(Bytes), NEW off \in Nat, NEW e, Fits(e),
         e.type \in BOOL..DOUBLE, Holds(f, off, PutValue(e))
  PROVE  LET width == IF e.type = BOOL THEN 1 ELSE 8
         IN Scalar(e.type, Get(f, off, width)) = e.value /\ ValueSize(e) = width
<1>1. PICK y \in 1..4 : y = e.type
  BY DEF BOOL, DOUBLE
<1>2. PICK P \in Nat : P = Pow[8] /\ P > 0
  <2>1. 8 \in 0..8
    OBVIOUS
  <2> QED BY <2>1, PowType
<1>3. CASE y = 1
  <2>1. e.value \in {0, 1} /\ ValueSize(e) = 1
    BY <1>1, <1>3 DEF Fits, ValuesOf, ValueSize, BOOL, INT64, UINT64, DOUBLE,
                      ByteTypes, STRING_TYPE, DATA
  <2>2. PutValue(e) = <<e.value>>
    <3>1. y \in 1..6
      OBVIOUS
    <3> QED BY <1>1, <1>3, <3>1, PutValueIs, Zenon
  <2>3. off + 1 <= Len(f) /\ f[off + 1] = e.value
    <3>1. PICK s : s = <<e.value>>
      OBVIOUS
    <3>2. Len(s) = 1 /\ s[1] = e.value
      BY <3>1
    <3>3. off + Len(s) <= Len(f) /\ \A j \in 1..Len(s) : f[off + j] = s[j]
      BY <2>2, <3>1 DEF Holds
    <3> QED BY <3>2, <3>3
  <2>4. Get(f, off, 1) = e.value
    BY <2>3, GetOne
  <2>5. Scalar(e.type, Get(f, off, 1)) = e.value
    BY <1>1, <1>3, <2>1, <2>4 DEF Scalar, BOOL, INT64
  <2> QED BY <1>1, <1>3, <2>1, <2>5 DEF BOOL
<1>4. CASE y # 1
  <2>1. ValueSize(e) = 8
    BY <1>1, <1>4 DEF ValueSize, BOOL, INT64, DOUBLE, ByteTypes, STRING_TYPE, DATA
  <2>2. PutValue(e) = Put(e.value % Pow[8], 8)
    <3>1. y \in 1..6 /\ y \in 2..4
      BY <1>4
    <3> QED BY <1>1, <3>1, PutValueIs, Zenon
  <2>3. PICK v \in Int : v = e.value /\ IF y = 2 THEN v \in (-(P \div 2))..((P - 1) \div 2)
                                                ELSE v \in 0..(P - 1)
    <3>1. e.value \in IF y = 2 THEN (-(P \div 2))..((P - 1) \div 2) ELSE 0..(P - 1)
      BY <1>1, <1>2, <1>4 DEF Fits, ValuesOf, BOOL, INT64, UINT64, DOUBLE,
                      ByteTypes, STRING_TYPE, DATA
    <3>2. -(P \div 2) \in Int /\ (P - 1) \div 2 \in Int
      BY <1>2
    <3>3. e.value \in Int
      <4>1. PICK lo, hi \in Int : lo = -(P \div 2) /\ hi = (P - 1) \div 2
        BY <3>2
      <4>2. CASE y = 2
        <5>1. e.value \in lo..hi
          BY <3>1, <4>1, <4>2
        <5> QED BY <5>1
      <4>3. CASE y # 2
        <5>1. e.value \in 0..(P - 1)
          BY <3>1, <4>3
        <5> QED BY <1>2, <5>1
      <4> QED BY <4>2, <4>3
    <3> QED BY <3>1, <3>3
  <2>4. PICK u \in 0..(P - 1) : u = v % P
    BY <1>2
  <2>5. Get(f, off, 8) = u
    <3>1. 8 \in 0..8 /\ u \in 0..(Pow[8] - 1) /\ Holds(f, off, Put(u, 8))
      BY <1>2, <2>2, <2>3, <2>4
    <3> QED BY <3>1, GetPut
  <2>6. Scalar(y, u) = v
    <3>1. CASE y = 2
      <4>1. Scalar(y, u) = IF 2 * u < P THEN u ELSE u - P
        BY <1>2, <3>1 DEF Scalar, Signed, BOOL, INT64
      <4>2. /\ 2 * v < P /\ -P <= 2 * v
        <5>1. PICK a \in Nat : a = P \div 2 /\ 2 * a <= P
          BY <1>2, Half
        <5>2. P - 1 \in Nat
          BY <1>2
        <5>3. PICK b \in Nat : b = (P - 1) \div 2 /\ 2 * b <= P - 1
          BY <5>2, Half
        <5>4. v \in (-a)..b
          BY <2>3, <3>1, <5>1, <5>3
        <5>5. -a <= v /\ v <= b /\ 2 * a <= P /\ 2 * b <= P - 1
          BY <5>1, <5>3, <5>4
        <5> QED BY ONLY P \in Nat, v \in Int, a \in Nat, b \in Nat, <5>5
      <4>3. CASE v >= 0
        <5>1. u = v
          <6>1. v \in 0..(P - 1)
            BY ONLY P \in Nat, v \in Int, <4>2, <4>3
          <6>2. P \in Nat /\ P > 0 /\ v \in Int
            BY <1>2
          <6>3. v % P = v
            BY ONLY <6>1, <6>2, ModIs
          <6> QED BY <2>4, <6>3
        <5> QED BY <4>1, <4>2, <5>1
      <4>4. CASE v < 0
        <5>1. u = v + P
          <6>1. v + P \in 0..(P - 1)
            BY ONLY P \in Nat, v \in Int, <4>2, <4>4
          <6>2. P \in Nat /\ P > 0 /\ v \in Int
            BY <1>2
          <6>3. v % P = v + P
            BY ONLY <6>1, <6>2, ModIs
          <6> QED BY <2>4, <6>3
        <5>2. ~(2 * u < P)
          BY ONLY P \in Nat, v \in Int, <4>2, <5>1
        <5> QED BY <1>2, <4>1, <5>1, <5>2
      <4> QED BY <4>3, <4>4
    <3>2. CASE y # 2
      <4>1. v \in 0..(P - 1)
        BY <2>3, <3>2
      <4>2. u = v
        BY <1>2, <2>4, <4>1, ModIs
      <4>3. Scalar(y, u) = u
        BY <1>4, <3>2 DEF Scalar, BOOL, INT64
      <4> QED BY <4>2, <4>3
    <3> QED BY <3>1, <3>2
  <2>7. e.type # BOOL
    BY <1>1, <1>4 DEF BOOL
  <2> QED BY <1>1, <2>1, <2>3, <2>5, <2>6, <2>7
<1> QED BY <1>3, <1>4

(* What a round of the loop of catbsd_xpc_deserialize that is given an      *)
(* entry makes of it.                                                       *)
LEMMA SetReadIs ==
  ASSUME NEW X, NEW es \in Seq(X), NEW o, NEW off, NEW e, Fits(e), e.key # <<>>
  PROVE  SetRead([ok |-> TRUE, off |-> o, es |-> es], off, e.key, e.type, e.value)
           = [ok |-> TRUE, off |-> off, es |-> Append(es, e)]
<1>1. e = [key |-> e.key, type |-> e.type, value |-> e.value]
  BY DEF Fits
<1> DEFINE s == [ok |-> TRUE, off |-> o, es |-> es]
           t == [s EXCEPT !.off = off, !.es = Append(@, [key |-> e.key, type |-> e.type,
                                                         value |-> e.value])]
           rc == IF e.type \in ByteTypes THEN Len(e.value) <= MaxMessage ELSE e.key # <<>>
<1>2. SetRead(s, off, e.key, e.type, e.value) = IF rc THEN t ELSE Bad(t)
  BY Zenon DEF SetRead
<1>3. rc
  BY DEF Fits
<1>4. PICK l : l = Append(es, e)
  OBVIOUS
<1>5. t = [s EXCEPT !.off = off, !.es = l]
  <2>1. s.es = es
    OBVIOUS
  <2> HIDE DEF s
  <2> QED BY <1>1, <1>4, <2>1, Zenon
<1>6. t = [ok |-> TRUE, off |-> off, es |-> l]
  <2> HIDE DEF t
  <2> QED BY <1>5
<1> HIDE DEF t, rc
<1> QED BY <1>2, <1>3, <1>4, <1>6, Zenon

(* One round reads the entry that was written there.                        *)
LEMMA EntryBack ==
  ASSUME NEW f \in Seq(Bytes), NEW payload \in Nat, payload <= MaxMessage,
         NEW o \in Nat, NEW e, Fits(e), e.key # <<>>, o + EntrySize(e) <= payload,
         Holds(f, HeaderSize + o, PutEntry(e)),
         NEW X, NEW es \in Seq(X)
  PROVE  GetEntry(f, payload, [ok |-> TRUE, off |-> o, es |-> es])
           = [ok |-> TRUE, off |-> o + EntrySize(e), es |-> Append(es, e)]
<1>1. PICK k \in Seq(Bytes) : k = e.key
  <2>1. e.key \in Seq(Bytes \ {0})
    BY DEF Fits
  <2> QED BY <2>1
<1>2. PICK n \in Nat : n = Len(k) /\ n > 0
  BY <1>1
<1>3. PICK m \in Nat : m = ValueSize(e) /\ EntrySize(e) = 2 + n + 1 + m
  BY <1>1, <1>2, PutValueType DEF EntrySize
<1>4. PICK b \in Nat : b = HeaderSize + o /\ b = 24 + o
  BY DEF HeaderSize
<1>5. PICK p \in Seq(Bytes) :
        /\ p = PutEntry(e) /\ Holds(p, 0, Put(n, 2)) /\ Holds(p, 2, k)
        /\ Holds(p, 2 + n, <<e.type>>) /\ Holds(p, 3 + n, PutValue(e))
  BY <1>1, <1>2, PutEntryType
<1>6. Holds(f, b, p)
  BY <1>4, <1>5
<1>7. Get(f, HeaderSize + o, 2) = n
  <2>1. 2 \in 0..8 /\ 0 \in Nat /\ b + 0 = b
    OBVIOUS
  <2>2. Put(n, 2) \in Seq(Bytes)
    BY <2>1, PutType
  <2>3. Holds(f, b + 0, Put(n, 2))
    BY <1>5, <1>6, <2>1, <2>2, Inside
  <2>4. n \in 0..(Pow[2] - 1)
    <3>1. Pow[2] \in Nat
      BY <2>1, PowType
    <3> QED BY <1>1, <1>2, <3>1 DEF Fits
  <2> QED BY <1>4, <2>1, <2>3, <2>4, GetPut
<1>8. CString([i \in 1..n |-> ByteAt(f, HeaderSize + (o + 2) + i)]) = e.key
  <2>1. 2 \in Nat /\ b + 2 = HeaderSize + (o + 2) /\ b + 2 \in Nat
    BY <1>4 DEF HeaderSize
  <2>2. Holds(f, b + 2, k)
    BY <1>5, <1>6, <2>1, Inside
  <2>3. [i \in 1..n |-> ByteAt(f, HeaderSize + (o + 2) + i)] = k
    BY <1>2, <2>1, <2>2, BytesBack
  <2>4. \A i \in 1..Len(k) : k[i] # 0
    <3>1. k \in Seq(Bytes \ {0})
      BY <1>1 DEF Fits
    <3> QED BY <3>1
  <2>5. {i \in 1..Len(k) : k[i] = 0} = {}
    BY <2>4
  <2>6. CString(k) = k
    BY <2>5 DEF CString
  <2> QED BY <1>1, <2>3, <2>6
<1>9. Get(f, HeaderSize + (o + 2) + n, 1) = e.type
  <2>1. PICK c \in Nat : c = b + (2 + n) /\ c = HeaderSize + (o + 2) + n
    BY <1>4 DEF HeaderSize
  <2>2. PICK y \in Seq(Bytes) : y = <<e.type>> /\ Len(y) = 1 /\ y[1] = e.type
    <3>1. e.type \in Bytes
      <4>1. PICK y \in 1..6 : y = e.type
        BY DEF Fits, Types, BOOL, DATA
      <4>2. B \in Nat /\ B > 6
        BY WireAssumption
      <4>3. y \in Bytes
        BY <4>2 DEF Bytes
      <4> QED BY <4>1, <4>3
    <3>2. PICK y : y = <<e.type>>
      OBVIOUS
    <3>3. y \in Seq(Bytes) /\ Len(y) = 1 /\ y[1] = e.type
      BY <3>1, <3>2
    <3> QED BY <3>2, <3>3
  <2>3. 2 + n \in Nat
    OBVIOUS
  <2>4. Holds(p, 2 + n, y)
    BY <1>5, <2>2
  <2>5. Holds(f, b + (2 + n), y)
    BY <1>6, <2>3, <2>4, Inside
  <2>6. c + 1 <= Len(f) /\ f[c + 1] = e.type
    <3>1. c + Len(y) <= Len(f) /\ \A j \in 1..Len(y) : f[c + j] = y[j]
      BY <2>1, <2>5 DEF Holds
    <3>2. Len(y) = 1 /\ y[1] = e.type
      BY <2>2, Zenon
    <3> QED BY <3>1, <3>2
  <2> QED BY <2>1, <2>6, GetOne
<1>10. PICK v \in Nat : v = (o + 2) + n + 1 /\ HeaderSize + v = b + (3 + n)
  BY <1>4 DEF HeaderSize
<1>11. Holds(f, HeaderSize + v, PutValue(e))
  <2>1. 3 + n \in Nat /\ PutValue(e) \in Seq(Bytes)
    BY PutValueType
  <2>2. Holds(f, b + (3 + n), PutValue(e))
    BY <1>5, <1>6, <2>1, Inside
  <2> QED BY <1>10, <2>2
<1>12. v + m <= payload /\ v + m = o + EntrySize(e)
  <2>1. PICK z \in Nat : z = EntrySize(e) /\ z = 2 + n + 1 + m
    BY <1>3
  <2>2. o + z <= payload
    BY <2>1
  <2>3. v = (o + 2) + n + 1
    BY <1>10, Zenon
  <2>4. v + m = o + z
    BY <2>1, <2>3
  <2> QED BY <2>1, <2>2, <2>4
<1> DEFINE s == [ok |-> TRUE, off |-> o, es |-> es]
           type == e.type
           width == IF type = BOOL THEN 1 ELSE 8
           vlen == Get(f, HeaderSize + v, 4)
           scalar == Scalar(type, Get(f, HeaderSize + v, width))
           bytes == [i \in 1..vlen |-> ByteAt(f, HeaderSize + v + 4 + i)]
<1>13. GetEntry(f, payload, s) =
        CASE ~s.ok -> s
          [] s.ok /\ s.off + 2 > payload -> Bad(s)
          [] s.ok /\ s.off + 2 <= payload ->
               IF ~KeyFits(s.off + 2, n, payload) THEN Bad([s EXCEPT !.off = s.off + 2])
               ELSE IF type \in BOOL..DOUBLE /\ v + width <= payload
               THEN SetRead(s, v + width, e.key, type, scalar)
               ELSE IF type \in ByteTypes /\ v + 4 <= payload /\ v + 4 + vlen <= payload
               THEN SetRead(s, v + 4 + vlen, e.key, type, bytes)
               ELSE Bad([s EXCEPT !.off = v])
  <2>1. s.off = o
    OBVIOUS
  <2> HIDE DEF s
  <2> QED BY <1>7, <1>8, <1>9, <1>10, <2>1, Zenon DEF GetEntry
<1>14. s.ok = TRUE /\ s.off = o /\ o + 2 <= payload /\ ~(o + 2 > payload)
  BY <1>3
<1>15. KeyFits(o + 2, n, payload)
  BY <1>2, <1>10, <1>12 DEF KeyFits
<1>16. /\ type \in BOOL..DOUBLE \/ type \in ByteTypes
       /\ type \in ByteTypes => ~(type \in BOOL..DOUBLE)
  <2>1. PICK y \in 1..6 : y = type
    BY DEF Fits, Types, BOOL, DATA
  <2> QED BY <2>1 DEF BOOL, DOUBLE, ByteTypes, STRING_TYPE, DATA
<1> DEFINE end == [ok |-> TRUE, off |-> o + EntrySize(e), es |-> Append(es, e)]
<1>17. SetRead(s, o + EntrySize(e), e.key, e.type, e.value) = end
  <2>1. PICK z : z = o + EntrySize(e)
    OBVIOUS
  <2>2. SetRead([ok |-> TRUE, off |-> o, es |-> es], z, e.key, e.type, e.value)
           = [ok |-> TRUE, off |-> z, es |-> Append(es, e)]
    BY SetReadIs
  <2> QED BY <2>1, <2>2
<1> HIDE DEF end
<1>18. ASSUME type \in BOOL..DOUBLE
      PROVE  GetEntry(f, payload, s) = end
  <2>1. scalar = e.value /\ m = width
    <3>1. HeaderSize + v \in Nat
      BY DEF HeaderSize
    <3> QED BY <1>3, <1>11, <1>18, <3>1, ScalarBack
  <2>2. width \in Nat
    OBVIOUS
  <2> HIDE DEF scalar, vlen, bytes, width, s, type
  <2>3. v + width <= payload
    BY <1>12, <2>1
  <2>4. GetEntry(f, payload, s) = SetRead(s, v + width, e.key, type, scalar)
    BY <1>13, <1>14, <1>15, <1>18, <2>3
  <2>5. GetEntry(f, payload, s) = SetRead(s, o + EntrySize(e), e.key, type, e.value)
    BY <1>12, <2>1, <2>4
  <2> QED BY <1>17, <2>5 DEF type
<1>19. ASSUME type \in ByteTypes
      PROVE  GetEntry(f, payload, s) = end
  <2>1. PICK x \in Seq(Bytes) : x = e.value
    BY <1>19 DEF Fits, ValuesOf, BOOL, INT64, UINT64, DOUBLE, ByteTypes, STRING_TYPE, DATA
  <2>2. PICK l \in Nat : l = Len(x) /\ m = 4 + l
    <3>1. PICK y \in 5..6 : y = e.type
      BY <1>19 DEF ByteTypes, STRING_TYPE, DATA
    <3>2. ValueSize(e) = 4 + Len(e.value)
      BY <3>1 DEF ValueSize, BOOL, INT64, DOUBLE, ByteTypes, STRING_TYPE, DATA
    <3>3. m = 4 + Len(x)
      BY <1>3, <2>1, <3>2, Zenon
    <3>4. Len(x) \in Nat
      OBVIOUS
    <3> QED BY ONLY <3>3, <3>4
  <2>3. PICK a \in Seq(Bytes) : a = Put(l, 4) /\ Len(a) = 4
    <3>1. 4 \in 0..8
      OBVIOUS
    <3> QED BY <3>1, PutType
  <2>4. PICK c \in Seq(Bytes) : /\ c = a \o x /\ Holds(c, 0, a) /\ Holds(c, Len(a), x)
    BY Cat
  <2>5. PutValue(e) = c
    <3>1. PICK y \in 1..6 : y = e.type /\ y \in 5..6
      BY <1>19 DEF ByteTypes, STRING_TYPE, DATA
    <3>2. PutValue(e) = Put(Len(e.value), 4) \o e.value
      BY <3>1, PutValueIs, Zenon
    <3> QED BY <2>1, <2>2, <2>3, <2>4, <3>2, Zenon
  <2>6. HeaderSize + v \in Nat /\ 0 \in Nat /\ 4 \in Nat /\ HeaderSize + v + 0 = HeaderSize + v
        /\ HeaderSize + v + 4 \in Nat /\ 4 \in 0..8
    BY DEF HeaderSize
  <2>7. Holds(f, HeaderSize + v, c) /\ Holds(c, 0, a) /\ Holds(c, 4, x)
    BY <1>11, <2>3, <2>4, <2>5, Zenon
  <2>8. Holds(f, HeaderSize + v + 0, a) /\ Holds(f, HeaderSize + v + 4, x)
    <3>1. PICK z \in Nat : z = HeaderSize + v
      BY <2>6
    <3>2. Holds(f, z, c)
      BY <2>7, <3>1
    <3>3. Holds(f, z + 0, a)
      BY <2>6, <2>7, <3>2, Inside
    <3>4. Holds(f, z + 4, x)
      BY <2>6, <2>7, <3>2, Inside
    <3> QED BY <3>1, <3>3, <3>4
  <2>9. l \in 0..(Pow[4] - 1)
    <3>1. PICK q \in Nat : q = Pow[4]
      BY <2>6, PowType
    <3>2. MaxMessage <= q - 1 /\ MaxMessage \in Int
      BY <3>1, WireAssumption
    <3>3. l <= payload
      BY <1>12, <2>2
    <3> QED BY <3>1, <3>2, <3>3
  <2>10. vlen = l
    <3>1. Holds(f, HeaderSize + v, Put(l, 4))
      BY <2>3, <2>6, <2>8
    <3> QED BY <2>6, <2>9, <3>1, GetPut
  <2>11. bytes = x
    <3>1. PICK z \in Nat : z = HeaderSize + v + 4
      BY <2>6
    <3>2. Holds(f, z, x)
      BY <2>8, <3>1
    <3>3. [i \in 1..Len(x) |-> ByteAt(f, z + i)] = x
      BY <3>2, BytesBack
    <3>4. vlen = Len(x)
      BY <2>2, <2>10
    <3> HIDE DEF vlen
    <3> QED BY <3>1, <3>3, <3>4, Zenon
  <2> HIDE DEF scalar, vlen, bytes, width, s, type
  <2>12. v + 4 <= payload /\ v + 4 + l <= payload /\ v + 4 + l = o + EntrySize(e)
    <3>1. m = 4 + l /\ l \in Nat
      BY <2>2, Zenon
    <3> QED BY <1>12, <3>1
  <2>13. GetEntry(f, payload, s) = SetRead(s, v + 4 + vlen, e.key, type, bytes)
    BY <1>13, <1>14, <1>15, <1>16, <1>19, <2>10, <2>12
  <2>14. GetEntry(f, payload, s) = SetRead(s, o + EntrySize(e), e.key, type, e.value)
    BY <2>1, <2>10, <2>11, <2>12, <2>13
  <2> QED BY <1>17, <2>14 DEF type
<1>20. GetEntry(f, payload, s) = end
  BY <1>16, <1>18, <1>19
<1> QED BY <1>20 DEF end

(* d is what was read of a frame with these entries, id and flag.           *)
ReadAs(d, es, id, flag) ==
  d.ok = TRUE /\ d.es = es /\ d.msg_id = id /\ d.is_reply = (flag % 2 = 1)

(* The frame that catbsd_xpc_serialize makes of entries is read back as the *)
(* same entries.                                                            *)
LEMMA FrameBack ==
  ASSUME NEW X, NEW es \in Seq(X), \A x \in X : Fits(x) /\ x.key # <<>>,
         NEW n, Laid(es, n), NEW f, NEW id, NEW flag, IsFrame(f, es, n, id, flag)
  PROVE  ReadAs(catbsd_xpc_deserialize(f), es, id, flag)
<1>1. f \in Seq(Bytes)
  BY DEF IsFrame
<1>2. PICK run, rounds : ReadLoop(f, run, rounds)
  BY <1>1, ReadLoopIs
<1>3. PICK N \in Nat : N = Len(es)
  OBVIOUS
<1>4. PICK p \in Nat : p = n[N] /\ p = Payload(f) /\ Len(f) = HeaderSize + p
                       /\ p <= MaxMessage /\ N <= p
  <2>1. n[N] \in Nat /\ N <= n[N]
    BY <1>3 DEF Laid
  <2>2. Payload(f) = n[N] /\ Len(f) = HeaderSize + n[N] /\ Len(f) <= MaxMessage
    BY <1>3 DEF IsFrame
  <2>3. PICK p \in Nat : p = n[N]
    BY <2>1
  <2>4. p <= MaxMessage
    BY <2>2, <2>3, WireAssumption DEF HeaderSize
  <2> QED BY <2>1, <2>2, <2>3, <2>4
<1>5. HasHeader(f) /\ Payload(f) + HeaderSize <= Len(f)
  BY <1>4 DEF IsFrame, HeaderSize
<1>6. rounds = N
  <2>1. Get(f, 20, 4) = N
    BY <1>3 DEF IsFrame
  <2> QED BY <1>2, <1>4, <1>5, <2>1 DEF ReadLoop
<1>7. run[0] = [ok |-> TRUE, off |-> 0, es |-> <<>>]
  <2>1. run[0] = [ok |-> HasHeader(f) /\ Payload(f) + HeaderSize <= Len(f),
                  off |-> 0, es |-> <<>>]
    BY <1>2, Zenon DEF ReadLoop
  <2> QED BY <1>5, <2>1
<1>8. \A i \in Nat : i + 1 <= N => run[i + 1] = GetEntry(f, p, run[i])
  BY <1>2, <1>4, <1>6 DEF ReadLoop
<1>9. n[0] = 0 /\ (\A i \in 0..N : n[i] \in Nat)
      /\ \A i \in 1..N : n[i] = n[i - 1] + EntrySize(es[i])
  BY <1>3 DEF Laid, Sizes
<1>10. \A i \in 1..N : Fits(es[i]) /\ es[i].key # <<>> /\ EntrySize(es[i]) \in Nat
  <2> SUFFICES ASSUME NEW i \in 1..N
               PROVE  Fits(es[i]) /\ es[i].key # <<>> /\ EntrySize(es[i]) \in Nat
    OBVIOUS
  <2>1. es[i] \in X
    BY <1>3
  <2>2. Fits(es[i]) /\ es[i].key # <<>>
    BY <2>1
  <2> QED BY <2>2, PutEntryType
(* Every prefix ends within the payload.                                    *)
<1> DEFINE U == {k \in Nat : k <= N => n[N - k] <= p}
<1>11. \A i \in 0..N : n[i] <= p
  <2>1. 0 \in U
    <3>1. N - 0 = N /\ n[N] <= p
      BY <1>4
    <3> QED BY <3>1
  <2>2. ASSUME NEW k \in Nat, k \in U PROVE k + 1 \in U
    <3> SUFFICES ASSUME k + 1 <= N PROVE n[N - (k + 1)] <= p
      OBVIOUS
    <3>1. PICK i \in 1..N : i = N - k /\ N - (k + 1) = i - 1 /\ i - 1 \in 0..N
      OBVIOUS
    <3>2. n[i] <= p
      BY <2>2, <3>1
    <3>3. PICK a \in Nat : a = n[i - 1]
      BY <1>9, <3>1
    <3>4. PICK b \in Nat : b = EntrySize(es[i])
      BY <1>10
    <3>5. n[i] = a + b
      BY <1>9, <3>3, <3>4
    <3>6. a <= p
      BY <3>2, <3>5
    <3> QED BY <3>1, <3>3, <3>6
  <2>3. Nat \subseteq U
    <3> HIDE DEF U
    <3> QED BY <2>1, <2>2, SetInduction
  <2> QED
    <3> SUFFICES ASSUME NEW i \in 0..N PROVE n[i] <= p
      OBVIOUS
    <3>1. PICK k \in Nat : k = N - i /\ N - k = i /\ k <= N
      OBVIOUS
    <3> QED BY <2>3, <3>1
<1> DEFINE Upto(i) == [ok |-> TRUE, off |-> n[i], es |-> SubSeq(es, 1, i)]
           T == {i \in Nat : i <= N => run[i] = Upto(i)}
<1>12. 0 \in T
  <2>1. SubSeq(es, 1, 0) = <<>>
    OBVIOUS
  <2> QED BY <1>7, <1>9, <2>1
<1>13. ASSUME NEW i \in Nat, i \in T PROVE i + 1 \in T
  <2> SUFFICES ASSUME i + 1 <= N PROVE run[i + 1] = Upto(i + 1)
    OBVIOUS
  <2>1. PICK o \in Nat : o = n[i]
    BY <1>9
  <2>2. PICK j \in 1..N : j = i + 1 /\ j - 1 = i
    OBVIOUS
  <2>3. PICK e : e = es[j]
    OBVIOUS
  <2>4. PICK z \in Nat : z = EntrySize(e)
    BY <1>10, <2>2, <2>3
  <2>5. n[j] = o + z /\ o + z <= p
    <3>1. n[j] = o + z
      BY <1>9, <2>1, <2>2, <2>3, <2>4
    <3>2. n[j] <= p
      BY <1>11, <2>2
    <3> QED BY <3>1, <3>2
  <2>6. Fits(e) /\ e.key # <<>>
    BY <1>10, <2>2, <2>3
  <2>7. Holds(f, HeaderSize + o, PutEntry(e))
    BY <1>3, <2>1, <2>2, <2>3 DEF IsFrame
  <2>8. PICK s \in Seq(X) : s = SubSeq(es, 1, i)
    <3>1. i <= Len(es)
      BY <1>3
    <3>2. SubSeq(es, 1, i) = [k \in 1..i |-> es[k]]
      BY <3>1
    <3>3. [k \in 1..i |-> es[k]] \in Seq(X)
      BY <3>1
    <3> QED BY <3>2, <3>3
  <2>9. Append(s, e) = SubSeq(es, 1, j)
    BY <1>3, <2>2, <2>3, <2>8
  <2>10. o + EntrySize(e) <= p
    BY <2>4, <2>5
  <2>11. GetEntry(f, p, [ok |-> TRUE, off |-> o, es |-> s])
           = [ok |-> TRUE, off |-> o + EntrySize(e), es |-> Append(s, e)]
    <3> HIDE DEF T, U, Upto
    <3>1. p \in Nat /\ p <= MaxMessage
      BY <1>4
    <3>2. o \in Nat /\ s \in Seq(X)
      OBVIOUS
    <3> QED BY ONLY <1>1, <2>6, <2>7, <2>10, <3>1, <3>2, EntryBack
  <2>12. run[i] = [ok |-> TRUE, off |-> o, es |-> s]
    <3>1. i <= N
      OBVIOUS
    <3>2. run[i] = Upto(i)
      <4> HIDE DEF Upto
      <4> QED BY <1>13, <3>1
    <3> QED BY <2>1, <2>8, <3>2, Zenon
  <2>13. run[j] = [ok |-> TRUE, off |-> n[j], es |-> SubSeq(es, 1, j)]
    BY <1>8, <2>2, <2>4, <2>5, <2>9, <2>11, <2>12
  <2> QED BY <2>2, <2>13
<1>14. run[N] = [ok |-> TRUE, off |-> n[N], es |-> es]
  <2>1. N \in T
    <3> HIDE DEF T
    <3> QED BY <1>12, <1>13, SetInduction
  <2>2. SubSeq(es, 1, N) = es
    BY <1>3
  <2>3. N <= N
    OBVIOUS
  <2>4. run[N] = Upto(N)
    <3> HIDE DEF Upto
    <3> QED BY <2>1, <2>3
  <2> QED BY <2>2, <2>4, Zenon
<1>15. catbsd_xpc_deserialize(f) =
         [ok |-> run[N].ok, off |-> run[N].off, es |-> run[N].es,
          msg_id |-> id, is_reply |-> flag % 2 = 1]
  <2>1. Get(f, 8, 8) = id /\ Get(f, 16, 4) = flag
    BY DEF IsFrame
  <2> QED BY <1>2, <1>6, <2>1, Zenon DEF ReadLoop
<1>16. PICK d : d = catbsd_xpc_deserialize(f)
  OBVIOUS
<1>17. d.ok = TRUE /\ d.es = es /\ d.msg_id = id /\ d.is_reply = (flag % 2 = 1)
  BY <1>14, <1>15, <1>16
<1> QED BY <1>16, <1>17 DEF ReadAs

-----------------------------------------------------------------------------
(* The round trip.                                                          *)

(* The first n entries of es stand on the list l.                           *)
Copied(h, l, es, n) ==
  /\ Sound(h, l) /\ Len(l) = n
  /\ \A i \in 1..n : h.node[l[i]].entry = es[i]

(* Entries with keys of their own are loaded in their order.                *)
LEMMA LoadCopies ==
  ASSUME NEW X, NEW es \in Seq(X), \A x \in X : x.type # 0,
         \A i, j \in 1..Len(es) : es[i].key = es[j].key => i = j,
         Len(es) <= Cardinality(Nodes)
  PROVE  \E l : Copied(Load(es), l, es, Len(es))
<1>1. PICK h : LoadLoop(es, h)
  BY LoadLoopIs
<1>2. PICK N \in Nat : N = Len(es)
  OBVIOUS
<1> DEFINE T == {n \in Nat : n <= N => \E l : Copied(h[n], l, es, n)}
<1>3. /\ Load(es) = h[N] /\ h[0] = Empty
      /\ \A n \in Nat : n + 1 <= N => h[n + 1] = entry_reset(h[n], es[n + 1])
  BY <1>1, <1>2 DEF LoadLoop
<1>4. Cardinality(Nodes) \in Nat
  BY FS_CardinalityType, DictionaryAssumption
<1>5. 0 \in T
  <2>1. Copied(Empty, <<>>, es, 0)
    BY EmptySound DEF Copied
  <2> QED BY <1>3, <2>1
<1>6. ASSUME NEW n \in Nat, n \in T PROVE n + 1 \in T
  <2> SUFFICES ASSUME n + 1 <= N PROVE \E l : Copied(h[n + 1], l, es, n + 1)
    OBVIOUS
  <2>1. PICK l : Copied(h[n], l, es, n)
    <3>1. n <= N
      OBVIOUS
    <3> QED BY <1>6, <3>1
  <2>2. PICK a : a = h[n]
    OBVIOUS
  <2>3. Sound(a, l) /\ Len(l) = n /\ (\A i \in 1..n : a.node[l[i]].entry = es[i])
        /\ l \in Seq(Nodes)
    BY <2>1, <2>2 DEF Copied, Sound, Linked
  <2>4. PICK e : e = es[n + 1] /\ e.type # 0
    BY <1>2
  <2>5. h[n + 1] = entry_reset(a, e)
    BY <1>3, <2>2, <2>4
  <2>6. \A i \in 1..Len(l) : a.node[l[i]].entry.key # e.key
    <3> SUFFICES ASSUME NEW i \in 1..n PROVE es[i].key # e.key
      BY <2>3
    <3>1. i \in 1..N /\ n + 1 \in 1..N /\ i # n + 1
      OBVIOUS
    <3> QED BY <1>2, <2>4, <3>1
  <2>7. FreeNodes(a) # {}
    <3>1. Len(l) # Cardinality(Nodes)
      BY <1>2, <1>4, <2>3
    <3> QED BY <2>3, <3>1, HasRoom
  <2>8. PICK g : g = entry_reset(a, e)
    OBVIOUS
  <2>9. PICK new \in Nodes : /\ Sound(g, Append(l, new)) /\ g.node[new].entry = e
                             /\ \A j \in 1..Len(l) : g.node[l[j]].entry = a.node[l[j]].entry
    <3>1. Sound(a, l) /\ e.type # 0
      BY <2>3, <2>4
    <3> QED BY ONLY <2>6, <2>7, <2>8, <3>1, ResetAppends
  <2>10. PICK m : m = Append(l, new)
    OBVIOUS
  <2>11. Len(m) = n + 1 /\ m[n + 1] = new /\ \A i \in 1..n : m[i] = l[i]
    BY <2>3, <2>10
  <2>12. ASSUME NEW i \in 1..(n + 1) PROVE g.node[m[i]].entry = es[i]
    <3>1. CASE i = n + 1
      BY <2>4, <2>9, <2>11, <3>1
    <3>2. CASE i \in 1..n
      BY <2>3, <2>9, <2>11, <3>2
    <3> QED BY <3>1, <3>2
  <2>13. Copied(g, m, es, n + 1)
    BY <2>9, <2>10, <2>11, <2>12 DEF Copied
  <2> QED BY <2>5, <2>8, <2>13
<1>7. \E l : Copied(h[N], l, es, N)
  <2>1. N \in T
    <3> HIDE DEF T
    <3> QED BY <1>5, <1>6, SetInduction
  <2> QED BY <2>1
<1> QED BY <1>2, <1>3, <1>7

(* Getters see the contents of a list and nothing else.                     *)
LEMMA GetSame ==
  ASSUME NEW g, NEW m, NEW h, NEW l, Sound(g, m), Sound(h, l), Len(m) = Len(l),
         \A i \in 1..Len(l) : g.node[m[i]].entry = h.node[l[i]].entry, NEW k, NEW type
  PROVE  get(g, k, type) = get(h, k, type)
<1>1. l \in Seq(Nodes) /\ m \in Seq(Nodes)
  BY DEF Sound, Linked
<1>2. CASE \E i \in 1..Len(l) : h.node[l[i]].entry.key = k
  <2>1. PICK i \in 1..Len(l) : h.node[l[i]].entry.key = k
    BY <1>2
  <2>2. entry_find(h, k) = l[i] /\ entry_find(g, k) = m[i]
    BY <2>1, FindIs
  <2>3. l[i] # Nil /\ m[i] # Nil
    BY <1>1, DictionaryAssumption
  <2>4. g.node[m[i]].entry = h.node[l[i]].entry
    OBVIOUS
  <2> QED BY <2>2, <2>3, <2>4 DEF get
<1>3. CASE \A i \in 1..Len(l) : h.node[l[i]].entry.key # k
  <2>1. entry_find(h, k) = Nil /\ entry_find(g, k) = Nil
    BY <1>3, FindIs
  <2> QED BY <2>1 DEF get
<1> QED BY <1>2, <1>3

(* Every entry in use can be written.                                       *)
AllFit(h) == \A n \in Nodes : h.node[n].entry.type # 0 => Fits(h.node[n].entry)

(* Setting keeps this.                                                      *)
LEMMA ResetFits ==
  ASSUME NEW h, NEW l, Sound(h, l), AllFit(h), NEW e, Fits(e)
  PROVE  AllFit(entry_reset(h, e))
<1> DEFINE used == {n \in Nodes : h.node[n].entry.type # 0}
           X == {h.node[n].entry : n \in used} \cup {e}
<1>1. From(h, X) /\ e \in X
  BY DEF From
<1>2. \A x \in X : Fits(x)
  BY DEF AllFit
<1> HIDE DEF X
<1>3. From(entry_reset(h, e), X)
  BY <1>1, ResetFrom
<1> QED BY <1>2, <1>3 DEF From, AllFit

(* So does removing.                                                        *)
LEMMA UnlinkFits ==
  ASSUME NEW h, NEW l, Sound(h, l), AllFit(h), NEW e
  PROVE  AllFit(Unlink(h, e))
<1>1. PICK E : h \in Heads(E)
  BY DEF Sound
<1> DEFINE node == [n \in Nodes |->
                      IF n = e THEN Blank
                      ELSE IF h.node[n].next = e
                      THEN [h.node[n] EXCEPT !.next = h.node[e].next] ELSE h.node[n]]
<1>2. PICK g : g = Unlink(h, e)
  OBVIOUS
<1>3. g.node = node
  BY <1>2 DEF Unlink
<1>4. ASSUME NEW n \in Nodes
      PROVE  node[n].entry = NoEntry \/ node[n].entry = h.node[n].entry
  BY <1>1 DEF Heads, Blank
<1> HIDE DEF node
<1>5. NoEntry.type = 0
  BY DEF NoEntry
<1>6. AllFit(g)
  BY <1>3, <1>4, <1>5 DEF AllFit
<1> QED BY <1>2, <1>6

(* What the header of a frame says of the message, and the bounds on what   *)
(* the threads do.                                                          *)
StampTypes ==
  /\ obj.msg_id \in 0..(Pow[8] - 1) /\ obj.is_reply \in BOOLEAN
  /\ obj.refcount <= MaxRefs
  /\ \A c \in Conns : conn[c].next_id \in 1..(MaxSends + 1)

(* The bounds fit the fields.                                               *)
LEMMA Bounds ==
  /\ Pow[8] \in Nat /\ Pow[8] > 0
  /\ MaxRefs \in Nat /\ MaxRefs >= 1
  /\ MaxSends \in Nat /\ MaxSends <= Pow[8] - 1
  /\ 0 \in 0..(Pow[8] - 1) /\ 1 \in 1..(MaxSends + 1)
<1>1. 8 \in 0..8
  OBVIOUS
<1>2. Pow[8] \in Nat /\ Pow[8] > 0
  BY <1>1, PowType
<1>3. MaxRefs \in Nat \ {0} /\ MaxSends \in 0..(Pow[8] - 1)
  BY DictionaryAssumption
<1>4. PICK p \in Nat : p = Pow[8] /\ p > 0
  BY <1>2
<1>5. 0 \in 0..(p - 1) /\ \A n \in Nat : 1 \in 1..(n + 1)
  BY <1>4
<1> QED BY <1>2, <1>3, <1>4, <1>5

(* A frame that is accepted gives the object a stamp that fits, and entries *)
(* that fit.                                                                *)
LEMMA DeserializeFits ==
  ASSUME BufInv, StampTypes, AllFit(dict), NEW t \in Threads, Deserialize(t)
  PROVE  StampTypes' /\ AllFit(dict')
<1>1. buf \in Seq(Bytes)
  BY DictionaryAssumption DEF BufInv, Deserialize
<1>2. PICK d : d = catbsd_xpc_deserialize(buf)
  OBVIOUS
<1>3. conn' = conn
  BY Zenon DEF Deserialize
<1>4. \/ /\ d.ok
         /\ Cardinality({d.es[i].key : i \in DOMAIN d.es}) <= Cardinality(Nodes)
         /\ dict' = Load(d.es)
         /\ obj' = [live |-> TRUE, refcount |-> 1, msg_id |-> d.msg_id,
                    is_reply |-> d.is_reply]
      \/ UNCHANGED <<dict, obj, th>>
  BY <1>2, Zenon DEF Deserialize
<1>5. PICK X : /\ d.es \in Seq(X) /\ \A x \in X : x.type \in Types
               /\ d.ok => \A x \in X : Fits(x)
  BY <1>1, <1>2, ReadsWithin
<1>6. d.msg_id \in 0..(Pow[8] - 1) /\ d.is_reply \in BOOLEAN
  BY <1>1, <1>2, ReadsWithin
<1>7. CASE UNCHANGED <<dict, obj, th>>
  BY <1>3, <1>7 DEF StampTypes
<1>8. CASE /\ d.ok
           /\ Cardinality({d.es[i].key : i \in DOMAIN d.es}) <= Cardinality(Nodes)
           /\ dict' = Load(d.es)
           /\ obj' = [live |-> TRUE, refcount |-> 1, msg_id |-> d.msg_id,
                      is_reply |-> d.is_reply]
  <2>1. PICK es \in Seq(X) : es = d.es
    BY <1>5
  <2>2. \A x \in X : x.type # 0 /\ Fits(x)
    BY <1>5, <1>8 DEF Types, BOOL, DATA
  <2>3. From(Load(es), X)
    BY <1>8, <2>1, <2>2, LoadSound
  <2>4. AllFit(dict')
    BY <1>8, <2>1, <2>2, <2>3 DEF From, AllFit
  <2>5. obj'.msg_id = d.msg_id /\ obj'.is_reply = d.is_reply /\ obj'.refcount = 1
    BY <1>8
  <2>6. StampTypes'
    BY <1>3, <1>6, <2>5, Bounds DEF StampTypes
  <2> QED BY <2>4, <2>6
<1> QED BY <1>4, <1>7, <1>8

(* The steps that leave the entries alone.                                  *)
LEMMA IdleFits ==
  ASSUME DictTypes, StampTypes, NEW t \in Threads, Idle(t)
  PROVE  StampTypes'
<1>1. DOMAIN obj = {"live", "refcount", "msg_id", "is_reply"} /\ obj.refcount \in Nat
      /\ conn \in [Conns -> [lock : Threads \cup {NoThread}, next_id : Nat]]
  BY DEF DictTypes
<1>2. CASE catbsd_xpc_release(t)
  <2>1. obj' = [obj EXCEPT !.refcount = @ - 1] /\ conn' = conn
    BY <1>2, Zenon DEF catbsd_xpc_release
  <2> QED BY <1>1, <2>1, Bounds DEF StampTypes
<1>3. ASSUME NEW u \in Threads, catbsd_xpc_retain(t, u) PROVE StampTypes'
  <2>1. obj' = [obj EXCEPT !.refcount = @ + 1] /\ conn' = conn /\ obj.refcount < MaxRefs
    BY <1>3, Zenon DEF catbsd_xpc_retain
  <2> QED BY <1>1, <2>1, Bounds DEF StampTypes
<1>4. CASE catbsd_xpc_dictionary_apply(t) \/ ApplyReturns(t)
  BY <1>4 DEF catbsd_xpc_dictionary_apply, ApplyReturns, StampTypes
<1>5. ASSUME NEW c \in Conns, SendMessage(t, c) PROVE StampTypes'
  <2>1. PICK n \in Nat : n = conn[c].next_id /\ n <= MaxSends /\ n >= 1
    BY <1>1, <1>5 DEF SendMessage, StampTypes
  <2>2. obj' = [obj EXCEPT !.msg_id = n, !.is_reply = FALSE]
    BY <1>5, <2>1, Zenon DEF SendMessage, Stamp
  <2>3. conn' = [conn EXCEPT ![c] = [lock |-> t, next_id |-> @.next_id + 1]]
    BY <1>5, Zenon DEF SendMessage
  <2>4. n \in 0..(Pow[8] - 1) /\ n + 1 \in 1..(MaxSends + 1)
    BY <2>1, Bounds
  <2>5. ASSUME NEW b \in Conns PROVE conn'[b].next_id \in 1..(MaxSends + 1)
    <3>1. CASE b = c
      BY <1>1, <2>1, <2>3, <2>4, <3>1
    <3>2. CASE b # c
      BY <1>1, <2>3, <3>2 DEF StampTypes
    <3> QED BY <3>1, <3>2
  <2>6. obj'.msg_id = n /\ obj'.is_reply = FALSE /\ obj'.refcount = obj.refcount
    BY <1>1, <2>2
  <2> QED BY <2>4, <2>5, <2>6 DEF StampTypes
<1>6. ASSUME NEW c \in Conns, NEW id \in 1..MaxSends, Reply(t, c, id) PROVE StampTypes'
  <2>1. obj' = [obj EXCEPT !.msg_id = id, !.is_reply = TRUE]
    BY <1>6, Zenon DEF Reply, Stamp
  <2>2. conn' = [conn EXCEPT ![c].lock = t]
    BY <1>6, Zenon DEF Reply
  <2>3. id \in 0..(Pow[8] - 1)
    BY Bounds
  <2>4. \A b \in Conns : conn'[b].next_id = conn[b].next_id
    BY <1>1, <2>2
  <2>5. obj'.msg_id = id /\ obj'.is_reply = TRUE /\ obj'.refcount = obj.refcount
    BY <1>1, <2>1
  <2> QED BY <2>3, <2>4, <2>5 DEF StampTypes
<1>7. CASE Serialize(t)
  <2>1. obj' = obj /\ conn' = [conn EXCEPT ![th[t].conn].lock = NoThread]
    BY <1>7, Zenon DEF Serialize
  <2>2. \A b \in Conns : conn'[b].next_id = conn[b].next_id
    BY <1>1, <2>1
  <2> QED BY <2>1, <2>2 DEF StampTypes
<1> QED BY <1>2, <1>3, <1>4, <1>5, <1>6, <1>7, Zenon DEF Idle

(* The setters refuse what could not be written.                            *)
LEMMA SetFits ==
  ASSUME ListInv, AllFit(dict), NEW t \in Threads, NEW k \in Keys, NEW v \in Values,
         catbsd_xpc_dictionary_set(t, k, v)
  PROVE  AllFit(dict')
<1>1. PICK e : e = [key |-> k, type |-> v.type, value |-> v.value]
  OBVIOUS
<1>2. /\ dict' = entry_reset(dict, e) /\ KeyAccepted(k) /\ ValueAccepted(v)
  BY <1>1 DEF catbsd_xpc_dictionary_set
<1>3. k \in Seq(Bytes \ {0}) /\ v.type \in Types /\ v.value \in ValuesOf(v.type)
  BY DictionaryAssumption
<1>4. Fits(e)
  BY <1>1, <1>2, <1>3 DEF Fits, KeyAccepted, ValueAccepted
<1>5. PICK l : Sound(dict, l)
  BY DEF ListInv
<1>6. AllFit(entry_reset(dict, e))
  BY <1>4, <1>5, ResetFits
<1> QED BY <1>2, <1>6

(* Whatever was set, replaced, removed or received, the dictionary can be   *)
(* written.                                                                 *)
LEMMA FitInvariant == Spec => [](AllFit(dict) /\ StampTypes)
<1> DEFINE Inv == AllFit(dict) /\ StampTypes
<1>1. AllFit(Empty)
  BY DEF AllFit, Empty, Blank, NoEntry
<1>2. Init => Inv
  <2> SUFFICES ASSUME Init PROVE Inv
    OBVIOUS
  <2>1. dict = Empty /\ obj = NoObj
        /\ conn = [c \in Conns |-> [lock |-> NoThread, next_id |-> 1]]
    BY DEF Init
  <2>2. obj.msg_id = 0 /\ obj.is_reply = FALSE /\ obj.refcount = 0
    BY <2>1 DEF NoObj
  <2>3. \A c \in Conns : conn[c].next_id = 1
    BY <2>1
  <2>4. StampTypes
    <3>1. obj.refcount <= MaxRefs
      BY <2>2, Bounds
    <3>2. \A c \in Conns : conn[c].next_id \in 1..(MaxSends + 1)
      BY <2>3, Bounds
    <3> QED BY <2>2, <3>1, <3>2, Bounds DEF StampTypes
  <2> QED BY <1>1, <2>1, <2>4
<1>3. DictTypes /\ BufInv /\ ListInv /\ Inv /\ [Next]_vars => Inv'
  <2> SUFFICES ASSUME DictTypes, BufInv, ListInv, Inv, [Next]_vars PROVE Inv'
    OBVIOUS
  <2>1. CASE UNCHANGED vars
    BY <2>1 DEF vars, AllFit, StampTypes
  <2>2. ASSUME NEW t \in Threads, Idle(t) PROVE Inv'
    <3>1. dict' = dict
      BY <2>2, IdleEffect
    <3>2. StampTypes'
      BY <2>2, IdleFits
    <3> QED BY <3>1, <3>2 DEF AllFit
  <2>3. ASSUME NEW t \in Threads, catbsd_xpc_dictionary_create(t) PROVE Inv'
    <3>1. dict' = Empty /\ obj' = [NoObj EXCEPT !.live = TRUE, !.refcount = 1] /\ conn' = conn
      BY <2>3, Zenon DEF catbsd_xpc_dictionary_create
    <3>2. obj'.msg_id = 0 /\ obj'.is_reply = FALSE /\ obj'.refcount = 1
      BY <3>1 DEF NoObj
    <3>3. StampTypes'
      <4>1. obj'.refcount <= MaxRefs
        BY <3>2, Bounds
      <4>2. obj'.msg_id \in 0..(Pow[8] - 1)
        BY <3>2, Bounds
      <4>3. \A c \in Conns : conn'[c].next_id \in 1..(MaxSends + 1)
        BY <3>1 DEF StampTypes
      <4> QED BY <3>2, <4>1, <4>2, <4>3 DEF StampTypes
    <3> QED BY <1>1, <3>1, <3>3 DEF AllFit
  <2>4. ASSUME NEW t \in Threads, Free(t) PROVE Inv'
    <3>1. dict' = Empty /\ obj' = NoObj /\ conn' = conn
      BY <2>4, Zenon DEF Free
    <3>2. obj'.msg_id = 0 /\ obj'.is_reply = FALSE /\ obj'.refcount = 0
      BY <3>1 DEF NoObj
    <3>3. StampTypes'
      <4>1. obj'.refcount <= MaxRefs
        BY <3>2, Bounds
      <4>2. obj'.msg_id \in 0..(Pow[8] - 1)
        BY <3>2, Bounds
      <4>3. \A c \in Conns : conn'[c].next_id \in 1..(MaxSends + 1)
        BY <3>1 DEF StampTypes
      <4> QED BY <3>2, <4>1, <4>2, <4>3 DEF StampTypes
    <3> QED BY <1>1, <3>1, <3>3 DEF AllFit
  <2>5. ASSUME NEW t \in Threads, Deserialize(t) PROVE Inv'
    BY <2>5, DeserializeFits DEF AllFit
  <2>6. ASSUME NEW t \in Threads, NEW k \in Keys, catbsd_xpc_dictionary_remove(t, k)
        PROVE  Inv'
    <3>1. dict' = Unlink(dict, entry_find(dict, k)) /\ obj' = obj /\ conn' = conn
      BY <2>6, Zenon DEF catbsd_xpc_dictionary_remove
    <3>2. PICK l : Sound(dict, l)
      BY DEF ListInv
    <3>3. AllFit(dict')
      BY <3>1, <3>2, UnlinkFits
    <3> QED BY <3>1, <3>3 DEF AllFit, StampTypes
  <2>7. ASSUME NEW t \in Threads, NEW k \in Keys, NEW v \in Values,
               catbsd_xpc_dictionary_set(t, k, v)
        PROVE  Inv'
    <3>1. obj' = obj /\ conn' = conn
      BY <2>7, Zenon DEF catbsd_xpc_dictionary_set
    <3>2. AllFit(dict')
      BY <2>7, SetFits
    <3> QED BY <3>1, <3>2 DEF AllFit, StampTypes
  <2>8. ASSUME NEW f \in Frames, Arrive(f) PROVE Inv'
    BY <2>8 DEF Arrive, AllFit, StampTypes
  <2> HIDE DEF Inv
  <2> QED BY <2>1, <2>2, <2>3, <2>4, <2>5, <2>6, <2>7, <2>8, NextCases, Zenon
<1>4. DictInv => DictTypes
  BY DEF DictInv
<1> QED BY <1>2, <1>3, <1>4, DictInvariant, FrameInvariant, ListInvariant, PTL DEF Spec

(* What is written is what the peer reads.                                  *)
LEMMA WrittenIsRead ==
  ASSUME ListInv, AllFit(dict), StampTypes, Frame # <<>>,
         \A i \in DOMAIN Contents(dict) : Contents(dict)[i].key # <<>>
  PROVE  LET f    == Frame[1]
             d    == catbsd_xpc_deserialize(f)
             peer == Load(d.es)
         IN /\ Len(f) = HeaderSize + Payload(f)
            /\ HeaderAccepted(f)
            /\ d.ok /\ d.msg_id = obj.msg_id /\ d.is_reply = obj.is_reply
            /\ Contents(peer) = Contents(dict)
            /\ \A k \in Keys, type \in Types : get(peer, k, type) = get(dict, k, type)
<1>1. PICK l : Sound(dict, l)
  BY DEF ListInv
<1>2. PICK N \in Nat : N = Len(l) /\ N <= Cardinality(Nodes) /\ l \in Seq(Nodes)
  <2>1. l \in Seq(Nodes) /\ \A i, j \in 1..Len(l) : l[i] = l[j] => i = j
    BY <1>1 DEF Sound, Linked
  <2>2. Len(l) <= Cardinality(Nodes)
    BY <2>1, LinkedLength
  <2>3. Len(l) \in Nat
    BY <2>1
  <2> QED BY <2>1, <2>2, <2>3
<1>3. PICK c : c = Contents(dict)
  OBVIOUS
<1>4. c = [i \in 1..N |-> dict.node[l[i]].entry]
  BY <1>1, <1>2, <1>3, ContentsIs
<1> DEFINE X == {c[i] : i \in 1..N}
<1>5. c \in Seq(X) /\ Len(c) = N /\ DOMAIN c = 1..N
  BY <1>4
<1>6. \A x \in X : Fits(x) /\ x.key # <<>> /\ x.type # 0
  <2> SUFFICES ASSUME NEW i \in 1..N PROVE Fits(c[i]) /\ c[i].key # <<>> /\ c[i].type # 0
    OBVIOUS
  <2>1. l[i] \in Nodes /\ c[i] = dict.node[l[i]].entry
    BY <1>2, <1>4
  <2>2. c[i].type # 0
    BY <1>1, <1>2, <2>1 DEF Sound
  <2>3. c[i].key # <<>>
    BY <1>3, <1>5
  <2> QED BY <2>1, <2>2, <2>3 DEF AllFit
<1>7. \A i, j \in 1..N : c[i].key = c[j].key => i = j
  BY <1>1, <1>2, <1>4 DEF Sound
<1> HIDE DEF X
<1>8. PICK id \in 0..(Pow[8] - 1) : id = obj.msg_id
  BY DEF StampTypes
<1>9. PICK r \in BOOLEAN : r = obj.is_reply
  BY DEF StampTypes
<1>10. Frame = catbsd_xpc_serialize(c, Len(c), id, r)
  <2>1. dict.count = Len(c)
    BY <1>1, <1>2, <1>5 DEF Sound
  <2> QED BY <1>3, <1>8, <1>9, <2>1, Zenon DEF Frame
<1>11. PICK n : Laid(c, n)
  BY <1>5, <1>6, EntriesFill
<1>12. PICK f : Frame = <<f>> /\ IsFrame(f, c, n, id, IF r THEN 1 ELSE 0)
  <2>1. catbsd_xpc_serialize(c, Len(c), id, r) # <<>>
    BY <1>10
  <2>2. \E f : /\ catbsd_xpc_serialize(c, Len(c), id, r) = <<f>>
               /\ IsFrame(f, c, n, id, IF r THEN 1 ELSE 0)
    BY <1>5, <1>6, <1>11, <2>1, SerializeIs
  <2> QED BY <1>10, <2>2, Zenon
<1>13. Frame[1] = f
  BY <1>12
<1>14. PICK p \in Nat : p = n[N] /\ p = Payload(f) /\ Len(f) = HeaderSize + p
                        /\ Len(f) <= MaxMessage /\ HasHeader(f)
  <2>1. n[N] \in Nat
    BY <1>5, <1>11 DEF Laid
  <2> QED BY <1>5, <1>12, <2>1 DEF IsFrame
<1>15. Len(f) = HeaderSize + Payload(f) /\ HeaderAccepted(f)
  <2>1. p + HeaderSize <= MaxMessage
    BY <1>14, WireAssumption DEF HeaderSize
  <2> QED BY <1>14, <2>1 DEF HeaderAccepted
<1>16. PICK d : d = catbsd_xpc_deserialize(f)
  OBVIOUS
<1>17. PICK flag \in {0, 1} : flag = (IF r THEN 1 ELSE 0)
  OBVIOUS
<1>18. d.ok = TRUE /\ d.es = c /\ d.msg_id = id /\ d.is_reply = (flag % 2 = 1)
  <2>1. IsFrame(f, c, n, id, flag)
    BY <1>12, <1>17
  <2>2. \A x \in X : Fits(x) /\ x.key # <<>>
    BY <1>6
  <2>3. c \in Seq(X)
    BY <1>5
  <2>4. ReadAs(catbsd_xpc_deserialize(f), c, id, flag)
    BY ONLY <1>11, <2>1, <2>2, <2>3, FrameBack
  <2> QED BY <1>16, <2>4 DEF ReadAs
<1>19. d.ok /\ d.msg_id = obj.msg_id /\ d.is_reply = obj.is_reply
  <2>1. (flag % 2 = 1) = r
    BY <1>17
  <2> QED BY <1>8, <1>9, <1>18, <2>1
<1>20. PICK peer : peer = Load(d.es)
  OBVIOUS
<1>21. PICK m : Copied(peer, m, c, N)
  <2>1. \E m : Copied(Load(c), m, c, Len(c))
    <3>1. \A x \in X : x.type # 0
      BY <1>6
    <3>2. /\ \A i, j \in 1..Len(c) : c[i].key = c[j].key => i = j
          /\ Len(c) <= Cardinality(Nodes)
      BY <1>2, <1>5, <1>7
    <3> QED BY <1>5, <3>1, <3>2, LoadCopies
  <2> QED BY <1>5, <1>18, <1>20, <2>1
<1>22. /\ Sound(peer, m) /\ Len(m) = N
       /\ \A i \in 1..N : peer.node[m[i]].entry = dict.node[l[i]].entry
  BY <1>4, <1>21 DEF Copied
<1>23. Contents(peer) = Contents(dict)
  <2>1. Contents(peer) = [i \in 1..N |-> peer.node[m[i]].entry]
    BY <1>22, ContentsIs
  <2> QED BY <1>3, <1>4, <1>22, <2>1
<1>24. \A k, type : get(peer, k, type) = get(dict, k, type)
  BY <1>1, <1>2, <1>22, GetSame
<1> QED BY <1>13, <1>15, <1>16, <1>19, <1>20, <1>23, <1>24

(* serialize and deserialize agree for every message a program can build or *)
(* receive and pass on: the frame fills the buffer payload_size sized, the  *)
(* peer accepts it, and has the same keys, types and values in the same     *)
(* order, the id and the flag included.                                     *)
THEOREM FramesComeBack == Spec => []RoundTrip
<1>1. ListInv /\ AllFit(dict) /\ StampTypes => RoundTrip
  BY WrittenIsRead DEF RoundTrip
<1> QED BY <1>1, ListInvariant, FitInvariant, PTL

(* Nobody owns more references than are counted.                            *)
LEMMA RefsCounted ==
  ASSUME DictTypes, RefInv, NEW t \in Threads
  PROVE  th[t].refs <= obj.refcount
<1>1. PICK r \in Nat : r = th[t].refs
  BY DEF DictTypes, States
<1> DEFINE mine == {<<t, i>> : i \in 1..r}
           f == [i \in 1..r |-> <<t, i>>]
<1>2. mine \subseteq Tokens
  BY <1>1 DEF Tokens
<1>3. f \in Bijection(1..r, mine)
  BY DEF Bijection, Injection, IsInjective, Surjection
<1>4. Cardinality(mine) = r
  <2> HIDE DEF mine, f
  <2> QED BY <1>3, FS_CountingElements DEF ExistsBijection
<1>5. Cardinality(mine) <= Cardinality(Tokens)
  <2> HIDE DEF mine
  <2> QED BY <1>2, FS_Subset DEF RefInv
<1> QED BY <1>1, <1>4, <1>5 DEF RefInv

(* The reference count stays within its bound, and so does what any thread  *)
(* owns; list, stamp, locks and buffer are what they should be.             *)
THEOREM DictionaryTypes == Spec => []TypeOK
<1>1. DictInv /\ BufInv /\ ListInv /\ StampTypes => TypeOK
  <2> SUFFICES ASSUME DictInv, BufInv, ListInv, StampTypes PROVE TypeOK
    OBVIOUS
  <2>1. DictTypes /\ RefInv
    BY DEF DictInv
  <2>2. PICK l : Sound(dict, l)
    BY DEF ListInv
  <2>3. PICK E : dict \in Heads(E)
    BY <2>2 DEF Sound
  <2>4. /\ dict.head \in Nodes \cup {Nil} /\ dict.tail \in Nodes \cup {Nil}
        /\ \A n \in Nodes : dict.node[n].next \in Nodes \cup {Nil}
    BY <2>3 DEF Heads
  <2>5. dict.count \in 0..Cardinality(Nodes)
    <3>1. l \in Seq(Nodes) /\ \A i, j \in 1..Len(l) : l[i] = l[j] => i = j
      BY <2>2 DEF Sound, Linked
    <3>2. Cardinality(Nodes) \in Nat /\ Len(l) <= Cardinality(Nodes)
      BY <3>1, LinkedLength
    <3>3. dict.count = Len(l) /\ Len(l) \in Nat
      BY <2>2, <3>1 DEF Sound
    <3> QED BY <3>2, <3>3
  <2>6. obj.live \in BOOLEAN /\ obj.refcount \in 0..MaxRefs
    BY <2>1, Bounds DEF DictTypes, StampTypes
  <2>7. ASSUME NEW t \in Threads
        PROVE  /\ th[t].at \in {"out", "apply", "send"} /\ th[t].refs \in 0..MaxRefs
               /\ th[t].freeing \in BOOLEAN
    <3>1. th[t] \in States
      BY <2>1 DEF DictTypes
    <3>2. th[t].refs <= obj.refcount
      BY <2>1, RefsCounted
    <3>3. th[t].at \in {"out", "apply", "send"} /\ th[t].refs \in Nat
          /\ th[t].freeing \in BOOLEAN
      BY <3>1 DEF States
    <3>4. th[t].refs \in 0..MaxRefs
      BY <2>6, <3>2, <3>3, Bounds
    <3> QED BY <3>3, <3>4
  <2>8. ASSUME NEW c \in Conns
        PROVE  /\ conn[c].lock \in Threads \cup {NoThread}
               /\ conn[c].next_id \in 1..(MaxSends + 1)
    BY <2>1 DEF DictTypes, StampTypes
  <2>9. obj.msg_id \in 0..(Pow[8] - 1) /\ obj.is_reply \in BOOLEAN
    BY DEF StampTypes
  <2>10. buf \in Frames \cup {NoFrame}
    BY DEF BufInv
  <2> QED BY <2>4, <2>5, <2>6, <2>7, <2>8, <2>9, <2>10 DEF TypeOK
<1> QED BY <1>1, DictInvariant, FrameInvariant, ListInvariant, FitInvariant, PTL
=============================================================================
