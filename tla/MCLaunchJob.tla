---------------------------- MODULE MCLaunchJob ----------------------------
(* Instances of LaunchJob for TLC.                                          *)
EXTENDS LaunchJob, TLC

CONSTANTS a, b, s1, p1, p2

Plist(l, ka, ral, th, ss) ==
  [valid |-> TRUE, label |-> l, KeepAlive |-> ka, RunAtLoad |-> ral,
   ThrottleInterval |-> th, Sockets |-> ss]

(* Two jobs: one kept alive whatever happens, throttled by the default and  *)
(* with a socket; one kept alive on failure and not throttled (a negative   *)
(* interval); and a file that turns out malformed after a's socket path.    *)
MCDefOf ==
  [f \in {"a.plist", "b.plist", "bad.plist"} |->
     CASE f = "a.plist" -> Plist(a, "true", TRUE, <<>>, {s1})
       [] f = "b.plist" -> Plist(b, "dict_success_false", TRUE, <<-1>>, {})
       [] OTHER -> [Plist(b, "absent", FALSE, <<1>>, {s1})
                      EXCEPT !.valid = FALSE]]

PidSymmetry == Permutations(Pids)
=============================================================================
