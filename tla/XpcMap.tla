------------------------------ MODULE XpcMap -------------------------------
(***************************************************************************)
(* What a message dictionary promises (shims/xpc_shim.h): a map from keys  *)
(* to typed values in the order in which the keys were first set.  Setting *)
(* a key that is there "replaces any existing value" where it stands.      *)
(***************************************************************************)
EXTENDS Sequences, Naturals

CONSTANT Gone   \* there is no dictionary

VARIABLE map

KeysOf(m) == {m[i].key : i \in DOMAIN m}

IsMap(m) == \A i, j \in DOMAIN m : m[i].key = m[j].key => i = j

Init == map = Gone

Create == map = Gone /\ map' # Gone /\ IsMap(map')

Set ==
  /\ map # Gone /\ map' # Gone
  /\ \/ /\ Len(map') = Len(map) + 1
        /\ SubSeq(map', 1, Len(map)) = map
        /\ map'[Len(map')].key \notin KeysOf(map)
     \/ \E i \in DOMAIN map :
          /\ DOMAIN map' = DOMAIN map
          /\ map'[i].key = map[i].key
          /\ \A j \in DOMAIN map \ {i} : map'[j] = map[j]

Remove ==
  /\ map # Gone
  /\ \E i \in DOMAIN map :
       map' = SubSeq(map, 1, i - 1) \o SubSeq(map, i + 1, Len(map))

Free == map # Gone /\ map' = Gone

Next == Create \/ Set \/ Remove \/ Free

Spec == Init /\ [][Next]_map
=============================================================================
