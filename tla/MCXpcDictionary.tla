-------------------------- MODULE MCXpcDictionary --------------------------
(* An instance of XpcDictionary for TLC: bytes of base 8, so that a u16     *)
(* holds 0..63 and an int64 0..8^8-1.                                       *)
EXTENDS XpcDictionary

CONSTANTS t1, t2

MCMagic == <<4, 1, 5, 2>>

k1 == <<1>>
k2 == <<1, 2>>
k3 == <<2>>

(* Three keys, one a prefix of another, no key, a key one byte too long.    *)
MCKeys == {k1, k2, k3, <<>>, [i \in 1..64 |-> 1]}

V(ty, v) == [type |-> ty, value |-> v]

(* Two INT64 with keys k1 and k3 fill a message to the last byte, with k1   *)
(* and k2 they are one byte too long; a DATA value that no message holds.   *)
MCValues == {V(BOOL, 1), V(INT64, -1), V(DATA, [i \in 1..49 |-> 0])}

E1 == [key |-> k1, type |-> BOOL, value |-> 1]
E2 == [key |-> k2, type |-> STRING_TYPE, value |-> <<3, 0>>]
E3 == [key |-> k1, type |-> INT64, value |-> -2]

Good == {catbsd_xpc_serialize(es, Len(es), 1, TRUE)[1] :
           es \in {<<E1>>, <<E2>>, <<E1, E3>>}}

(* One wrong byte: 0 anywhere but in the id, 7 (no type, and a length that  *)
(* is too large) in the header and around types and lengths, any value in   *)
(* the low byte of the payload length, the count, or the key length.        *)
Wrong == (((1..60) \ (9..15)) \X {0}) \cup (((1..33) \ ({27} \cup (9..19))) \X {7})
           \cup ({5, 21, 25} \X Bytes)

(* Good frames, every frame cut short, and frames with one wrong byte.      *)
MCFrames ==
  Good
    \cup UNION {{SubSeq(f, 1, n) : n \in 0..(Len(f) - 1)} : f \in Good}
    \cup UNION {{[f EXCEPT ![w[1]] = w[2]] : w \in {v \in Wrong : v[1] <= Len(f)}} : f \in Good}

ThreadSymmetry == Permutations(Threads)
=============================================================================
