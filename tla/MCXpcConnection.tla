-------------------------- MODULE MCXpcConnection --------------------------
(* Instances of XpcConnection for TLC.                                      *)
EXTENDS XpcConnection

CONSTANTS t1, t2

(* The reply to the first message; the others are headers.                  *)
MCLarge == {[is_reply |-> TRUE, msg_id |-> 1]}
=============================================================================
