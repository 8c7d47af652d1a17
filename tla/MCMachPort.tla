----------------------------- MODULE MCMachPort -----------------------------
(* Instances of MachPort for TLC.                                           *)
EXTENDS MachPort

CONSTANTS t1, t2, t3, p1, p2

(* Two receivers, two senders, and descriptors opened and closed on either  *)
(* side.                                                                    *)
MCUses == [t \in {t1, t2, t3} |->
  CASE t = t1 -> {"allocate", "deallocate", "receive", "wait_any"}
    [] t = t2 -> {"allocate", "send", "receive"}
    [] t = t3 -> {"insert_right", "deallocate", "send"}]

MCGrants == {<<p1, "send">>}

MCPortSets == {<<p1, p2>>}
=============================================================================
