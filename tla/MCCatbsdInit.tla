---------------------------- MODULE MCCatbsdInit ----------------------------
(* Instances of CatbsdInit for TLC.                                         *)
EXTENDS CatbsdInit

CONSTANTS a, b, s1, p1, p2, c1

Daemon(l, ka, ss) ==
  [valid |-> TRUE, label |-> l, KeepAlive |-> ka, RunAtLoad |-> TRUE,
   ThrottleInterval |-> <<1>>, Sockets |-> ss]

(* A daemon kept alive, with a socket; one that appears later; a file that  *)
(* is not a job.                                                            *)
MCDefOf ==
  [f \in {"a.plist", "b.plist", "bad.plist"} |->
     CASE f = "a.plist" -> Daemon(a, "true", {s1})
       [] f = "b.plist" -> Daemon(b, "false", {})
       [] OTHER         -> [Daemon(b, "absent", {}) EXCEPT !.valid = FALSE]]

(* One daemon.                                                              *)
MCOneDef == [f \in {"a.plist"} |-> Daemon(a, "true", {})]

MCRequests ==
  [c \in {c1} |-> {[verb |-> "stop", label |-> a, file |-> NoFile]}]
=============================================================================
