------------------------------ MODULE XpcWire ------------------------------
(***************************************************************************)
(* The frames of shims/xpc_shim.c as operators on sequences of bytes:      *)
(* catbsd_xpc_serialize, catbsd_xpc_deserialize and the checks frame_read  *)
(* makes of a header.  A byte has B values (256 in the code); all integers *)
(* are little-endian and 2, 4 or 8 bytes wide, so with a small B the       *)
(* widths, and what overflows them, stay within reach of a model checker.  *)
(*                                                                         *)
(*   magic 4 | payload length 4 | id 8 | flags 4 | entries 4 | payload     *)
(*   entry:  key length 2 | key | type 1 | 1 byte, 8 bytes, or 4 + length  *)
(***************************************************************************)
EXTENDS Integers, Sequences, SequencesExt

CONSTANTS
  B,           \* values of a byte
  Magic,       \* "CXP1"
  MaxMessage   \* CATBSD_XPC_MAX_MESSAGE

Bytes == 0..(B - 1)

(* An unsigned integer of w bytes is below Pow[w]; none is wider than 8.    *)
Pow[w \in 0..8] == IF w = 0 THEN 1 ELSE B * Pow[w - 1]

ASSUME WireAssumption ==
  /\ B \in Nat /\ B > 6
  /\ Magic \in [1..4 -> Bytes]
  /\ MaxMessage \in 1..(Pow[4] - 1)

HeaderSize == 24

BOOL == 1
INT64 == 2
UINT64 == 3
DOUBLE == 4
STRING_TYPE == 5
DATA == 6
Types == BOOL..DATA
ByteTypes == {STRING_TYPE, DATA}

-----------------------------------------------------------------------------
(* Integers.                                                                *)

(* put_u16, put_u32, put_u64: the low w bytes of v, least significant first.*)
Put(v, w) == [i \in 1..w |-> (v \div Pow[i - 1]) % B]

(* What lies behind the end of a buffer is unknown; 0 stands for it.        *)
ByteAt(buf, i) == IF i \in 1..Len(buf) THEN buf[i] ELSE 0

(* get_u16, get_u32, get_u64: the w bytes that follow the first off, the    *)
(* last of them the most significant.                                       *)
Get(buf, off, w) ==
  LET g[i \in 0..w] ==
        IF i = 0 THEN 0 ELSE B * g[i - 1] + ByteAt(buf, off + w + 1 - i)
  IN g[w]

(* (int64_t) of an unsigned value.                                          *)
Signed(v) == IF 2 * v < Pow[8] THEN v ELSE v - Pow[8]

(* A key is a C string: it ends before its first NUL.                       *)
CString(s) ==
  LET nuls == {i \in 1..Len(s) : s[i] = 0}
  IN IF nuls = {} THEN s ELSE SubSeq(s, 1, Min(nuls) - 1)

-----------------------------------------------------------------------------
(* Writing.  An entry is [key, type, value].  A DOUBLE stands for its bit   *)
(* pattern.                                                                 *)

ValuesOf(type) ==
  CASE type = BOOL             -> {0, 1}
    [] type = INT64            -> (-(Pow[8] \div 2))..((Pow[8] - 1) \div 2)
    [] type \in UINT64..DOUBLE -> 0..(Pow[8] - 1)
    [] type \in ByteTypes      -> Seq(Bytes)

ValueSize(e) ==
  CASE e.type = BOOL      -> 1
    [] e.type \in INT64..DOUBLE -> 8
    [] e.type \in ByteTypes    -> 4 + Len(e.value)

(* Mutant: the type byte is not counted.                                    *)
MutantEntrySize(e) == 2 + Len(e.key) + ValueSize(e)

EntrySize(e) == 2 + Len(e.key) + 1 + ValueSize(e)

payload_size(es) ==
  LET n[i \in 0..Len(es)] == IF i = 0 THEN 0 ELSE n[i - 1] + EntrySize(es[i])
  IN n[Len(es)]

PutValue(e) ==
  CASE e.type = BOOL      -> <<e.value>>
    [] e.type \in INT64..DOUBLE -> Put(e.value % Pow[8], 8)
    [] e.type \in ByteTypes    -> Put(Len(e.value), 4) \o e.value

PutEntry(e) == Put(Len(e.key), 2) \o e.key \o <<e.type>> \o PutValue(e)

PutEntries(es) ==
  LET out[i \in 0..Len(es)] == IF i = 0 THEN <<>> ELSE out[i - 1] \o PutEntry(es[i])
  IN out[Len(es)]

(* <<>> if the message is too large, or <<frame>>.                          *)
catbsd_xpc_serialize(es, count, id, is_reply) ==
  LET payload == payload_size(es)
  IN IF HeaderSize + payload > MaxMessage THEN <<>>
     ELSE << Magic \o Put(payload, 4) \o Put(id, 8)
               \o Put(IF is_reply THEN 1 ELSE 0, 4) \o Put(count, 4)
               \o PutEntries(es) >>

-----------------------------------------------------------------------------
(* Reading.  The state of the loop: whether it goes on, how much of the     *)
(* payload has been read, the entries to set so far.                        *)

Bad(s) == [s EXCEPT !.ok = FALSE]

(* An entry that was read goes to a setter.  The scalar setters refuse an   *)
(* empty key; dictionary_set_bytes only a value longer than a message.      *)
SetRead(s, off, key, type, value) ==
  LET rc == IF type \in ByteTypes THEN Len(value) <= MaxMessage ELSE key # <<>>
      t  == [s EXCEPT !.off = off,
                      !.es = Append(@, [key |-> key, type |-> type,
                                        value |-> value])]
  IN IF rc THEN t ELSE Bad(t)

Scalar(type, v) == CASE type = BOOL  -> IF v = 0 THEN 0 ELSE 1
                     [] type = INT64 -> Signed(v)
                     [] OTHER        -> v

(* Mutant: no room is demanded for the type that follows the key.           *)
MutantKeyFits(k, klen, payload) == k + klen <= payload /\ klen # 0

(* The key at k, and the type that follows it.                              *)
KeyFits(k, klen, payload) == k + klen + 1 <= payload /\ klen # 0

(* One round of the loop.  Every read is preceded by a check that the       *)
(* declared payload holds what is about to be read.                         *)
GetEntry(buf, payload, s) ==
  LET p     == HeaderSize
      klen  == Get(buf, p + s.off, 2)
      k     == s.off + 2
      key   == CString([i \in 1..klen |-> ByteAt(buf, p + k + i)])
      type  == Get(buf, p + k + klen, 1)
      v     == k + klen + 1
      width == IF type = BOOL THEN 1 ELSE 8
      vlen  == Get(buf, p + v, 4)
  IN CASE ~s.ok -> s
       [] s.ok /\ s.off + 2 > payload -> Bad(s)
       [] s.ok /\ s.off + 2 <= payload ->
            IF ~KeyFits(k, klen, payload) THEN Bad([s EXCEPT !.off = k])
            ELSE IF type \in BOOL..DOUBLE /\ v + width <= payload
            THEN SetRead(s, v + width, key, type,
                         Scalar(type, Get(buf, p + v, width)))
            ELSE IF type \in ByteTypes /\ v + 4 <= payload /\ v + 4 + vlen <= payload
            THEN SetRead(s, v + 4 + vlen, key, type,
                         [i \in 1..vlen |-> ByteAt(buf, p + v + 4 + i)])
            ELSE Bad([s EXCEPT !.off = v])

Payload(buf) == Get(buf, 4, 4)

HasHeader(buf) == Len(buf) >= HeaderSize /\ SubSeq(buf, 1, 4) = Magic

(* Every round that goes on reads something, so no more rounds than the     *)
(* payload has bytes, and one to notice that it ends, need be looked at.    *)
catbsd_xpc_deserialize(buf) ==
  LET payload == Payload(buf)
      start   == [ok |-> HasHeader(buf) /\ payload + HeaderSize <= Len(buf),
                  off |-> 0, es |-> <<>>]
      count   == Get(buf, 20, 4)
      rounds  == IF ~start.ok THEN 0 ELSE IF count <= payload THEN count ELSE payload + 1
      run[i \in 0..rounds] ==
        IF i = 0 THEN start ELSE GetEntry(buf, payload, run[i - 1])
      end     == run[rounds]
  IN [ok |-> end.ok, off |-> end.off, es |-> end.es,
      msg_id |-> Get(buf, 8, 8), is_reply |-> Get(buf, 16, 4) % 2 = 1]

(* What frame_read looks at before it makes room for the payload.           *)
HeaderAccepted(buf) ==
  HasHeader(buf) /\ Payload(buf) + HeaderSize <= MaxMessage
=============================================================================
