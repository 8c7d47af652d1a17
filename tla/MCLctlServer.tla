---------------------------- MODULE MCLctlServer ----------------------------
(* An instance of LctlServer for TLC.                                        *)
EXTENDS LctlServer, TLC

CONSTANTS a, p1, c1, c2

(* One job, kept alive always, throttled for one unit of time.              *)
MCDefOf ==
  [f \in {"a.plist"} |->
     [valid |-> TRUE, label |-> a, KeepAlive |-> "true", RunAtLoad |-> TRUE,
      ThrottleInterval |-> <<1>>, Sockets |-> {}]]

ByLabel(v, l) == [verb |-> v, label |-> l, file |-> NoFile]

(* c1 sends every verb about that job and malformed requests; c2 is an      *)
(* operator who stops it.                                                   *)
MCRequests ==
  (c1 :> {ByLabel(v, a) : v \in {"status", "start", "stop", "unload"}}
           \cup {ByLabel(v, NoLabel) : v \in {"unknown", "list", "stop", "load"}}
           \cup {[ByLabel("load", NoLabel) EXCEPT !.file = "a.plist"]})
    @@ (c2 :> {ByLabel("stop", a)})
=============================================================================
