----------------------------- MODULE CatbsdInit -----------------------------
(***************************************************************************)
(* catbsd-init/catbsd-init.c: the init process.  It loads the daemon       *)
(* directory, starts the RunAtLoad jobs, opens the control socket and then *)
(* loops: reload on SIGHUP, serve a launchctl request, tick the job        *)
(* supervisor; on SIGTERM or SIGINT it leaves the loop, stops every job    *)
(* and exits.                                                              *)
(*                                                                         *)
(* The signal handlers only set a flag and may run at any moment, between  *)
(* any two steps of the program; files may appear in the daemon directory  *)
(* at any moment too, also while it is being read.                         *)
(***************************************************************************)
EXTENDS LctlServer

CONSTANTS
  SingleUser,       \* values cfg.single_user may have
  Installed,        \* files in DaemonDirectory at boot
  ShutdownTimeout,  \* cfg.shutdown_timeout_ms
  FreeGrace         \* launch_registry_free's launch_registry_stop_all (2 s)

ASSUME InitAssumption ==
  /\ SingleUser \subseteq BOOLEAN /\ SingleUser # {}
  /\ Installed \subseteq Plists
  /\ {ShutdownTimeout, FreeGrace} \subseteq Graces

VARIABLES
  g_do_shutdown, g_do_reload,   \* the flags of the signal handlers
  dir,                          \* the files in DaemonDirectory
  todo                          \* what the open directory stream has left

init_vars == <<g_do_shutdown, g_do_reload, dir, todo>>
sys_vars == <<all_vars, init_vars>>

ShuttingDown == {"shutdown", "stopping", "freeing", "exited"}
PCs == {"boot", "shell", "scan", "start_all", "started", "loop", "rescan",
        "poll", "tick", "ticking"} \cup ShuttingDown

InitTypeOK ==
  /\ TypeOK
  /\ pc \in PCs
  /\ srv \in Servers
  /\ client \in [Clients -> ClientStates]
  /\ backlog \in Seq(Clients) /\ Len(backlog) <= Backlog
  /\ g_do_shutdown \in BOOLEAN /\ g_do_reload \in BOOLEAN
  /\ dir \subseteq Plists /\ todo \subseteq dir

SysInit ==
  /\ Init
  /\ pc = "boot"
  /\ srv = [Out EXCEPT !.at = "closed"]
  /\ client = [c \in Clients |-> Away]
  /\ backlog = <<>>
  /\ g_do_shutdown = FALSE /\ g_do_reload = FALSE
  /\ dir = Installed /\ todo = {}

-----------------------------------------------------------------------------
(* main(), up to the loop.                                                  *)

(* opendir(); a directory that cannot be opened has nothing to load.        *)
OpenDir == todo' \in {dir} \cup (IF "opendir" \in Failures THEN {{}} ELSE {})

(* Single-user mode runs a shell and nothing else; without memory for the   *)
(* registry init gives up.                                                  *)
Boot ==
  /\ pc = "boot"
  /\ \/ TRUE \in SingleUser /\ pc' = "shell" /\ UNCHANGED todo
     \/ FALSE \in SingleUser /\ pc' = "scan" /\ OpenDir
     \/ /\ FALSE \in SingleUser /\ "registry" \in Failures
        /\ pc' = "exited" /\ UNCHANGED todo
  /\ UNCHANGED <<vars, srv, client, backlog, g_do_shutdown, g_do_reload, dir>>

(* The shell exits, or could not be forked; interrupted waits are repeated. *)
run_single_user ==
  /\ pc = "shell"
  /\ pc' = "exited"
  /\ UNCHANGED <<vars, srv, client, backlog, init_vars>>

(* Mutant: the reload flag is cleared after the reload.                     *)
MutantLoadDir ==
  /\ pc \in {"scan", "rescan"}
  /\ \/ \E f \in todo : /\ launch_registry_load_plist(f)
                        /\ todo' = todo \ {f}
                        /\ UNCHANGED <<pc, g_do_reload>>
     \/ /\ todo = {}
        /\ pc' = IF pc = "scan" THEN "start_all" ELSE "poll"
        /\ g_do_reload' = FALSE
        /\ UNCHANGED <<vars, todo>>
  /\ UNCHANGED <<srv, client, backlog, g_do_shutdown, dir>>

(* readdir() gives the entries in any order; a file that does not load is   *)
(* passed over.                                                             *)
launch_registry_load_dir ==
  /\ pc \in {"scan", "rescan"}
  /\ \/ \E f \in todo : /\ launch_registry_load_plist(f)
                        /\ todo' = todo \ {f}
                        /\ UNCHANGED pc
     \/ /\ todo = {}
        /\ pc' = IF pc = "scan" THEN "start_all" ELSE "poll"
        /\ UNCHANGED <<vars, todo>>
  /\ UNCHANGED <<srv, client, backlog, g_do_shutdown, g_do_reload, dir>>

StartAll ==
  /\ pc = "start_all"
  /\ BeginStartAll
  /\ pc' = "started"
  /\ UNCHANGED <<srv, client, backlog, init_vars>>

(* Without a control socket init goes on without launchctl.                 *)
lctl_server_create ==
  /\ pc = "started" /\ call.at = "idle"
  /\ srv' \in {Out, [Out EXCEPT !.at = "closed"]}
  /\ pc' = "loop"
  /\ UNCHANGED <<vars, client, backlog, init_vars>>

-----------------------------------------------------------------------------
(* The main loop.                                                           *)

(* The top of the loop.  The reload flag is cleared before the directory is *)
(* read.                                                                    *)
Loop ==
  /\ pc = "loop"
  /\ \/ /\ g_do_shutdown
        /\ pc' = "shutdown"
        /\ UNCHANGED <<g_do_reload, todo>>
     \/ /\ ~g_do_shutdown /\ g_do_reload
        /\ g_do_reload' = FALSE
        /\ OpenDir
        /\ pc' = "rescan"
     \/ /\ ~g_do_shutdown /\ ~g_do_reload
        /\ pc' = "poll"
        /\ UNCHANGED <<g_do_reload, todo>>
  /\ UNCHANGED <<vars, srv, client, backlog, g_do_shutdown, dir>>

(* if (srv) lctl_server_poll(srv, 0)                                        *)
Poll ==
  \/ PollStep
  \/ pc = "poll" /\ srv.at = "closed" /\ pc' = "tick"
     /\ UNCHANGED <<vars, srv, client, backlog>>

(* The tick is done and the 10 ms of sleep are over.                        *)
Again ==
  /\ pc = "ticking" /\ call.at = "idle"
  /\ pc' = "loop"
  /\ UNCHANGED <<vars, srv, client, backlog>>

-----------------------------------------------------------------------------
(* do_shutdown                                                              *)

(* The listener goes first; connections nobody accepted are closed.         *)
lctl_server_destroy ==
  /\ client' = [c \in Clients |->
       IF c \notin Queued THEN client[c]
       ELSE IF client[c].up THEN [client[c] EXCEPT !.got = "closed"] ELSE Away]
  /\ backlog' = <<>>
  /\ srv' = [Out EXCEPT !.at = "closed"]

(* Mutant: the jobs are stopped, the registry is not freed.                 *)
MutantShutdown ==
  \/ /\ pc = "shutdown"
     /\ lctl_server_destroy
     /\ BeginStopAll(ShutdownTimeout, "idle")
     /\ pc' = "stopping"
  \/ /\ pc = "stopping" /\ call.at = "idle"
     /\ pc' = "exited"
     /\ UNCHANGED <<vars, srv, client, backlog>>

do_shutdown ==
  \/ /\ pc = "shutdown"
     /\ lctl_server_destroy
     /\ BeginStopAll(ShutdownTimeout, "idle")
     /\ pc' = "stopping"
  \/ /\ pc = "stopping" /\ call.at = "idle"
     /\ BeginStopAll(FreeGrace, "free")
     /\ pc' = "freeing"
     /\ UNCHANGED <<srv, client, backlog>>
  \/ /\ pc = "freeing" /\ call.at = "freed"
     /\ pc' = "exited"
     /\ UNCHANGED <<vars, srv, client, backlog>>

-----------------------------------------------------------------------------
(* The surroundings.                                                        *)

handle_shutdown ==
  /\ pc # "exited"
  /\ g_do_shutdown' = TRUE
  /\ UNCHANGED <<all_vars, g_do_reload, dir, todo>>

handle_reload ==
  /\ pc # "exited"
  /\ g_do_reload' = TRUE
  /\ UNCHANGED <<all_vars, g_do_shutdown, dir, todo>>

(* A plist is put in the directory; a directory stream that is being read   *)
(* may or may not show it.                                                  *)
Install(f) ==
  /\ f \notin dir
  /\ dir' = dir \cup {f}
  /\ todo' \in {todo} \cup
       (IF pc \in {"scan", "rescan"} THEN {todo \cup {f}} ELSE {})
  /\ UNCHANGED <<all_vars, g_do_shutdown, g_do_reload>>

Main ==
  \/ Boot \/ launch_registry_load_dir \/ StartAll \/ lctl_server_create \/ Loop
  \/ (Poll \/ Tick \/ Again \/ InCall \/ do_shutdown) /\ UNCHANGED init_vars

Environment ==
  \/ handle_shutdown \/ handle_reload
  \/ \E f \in Plists : Install(f)
  \/ ((\E c \in Clients : ClientStep(c)) \/ Exits \/ Clock)
       /\ UNCHANGED init_vars

SysNext == Main \/ run_single_user \/ Environment

SysSpec == SysInit /\ [][SysNext]_sys_vars

(* init is scheduled, a child that was sent SIGKILL ends, time goes on.     *)
(* Nothing is assumed of signals, files, clients, other children and the    *)
(* single-user shell.  For Accept see LctlFairness.                         *)
SysLiveSpec ==
  /\ SysSpec
  /\ WF_sys_vars(Main)
  /\ SF_sys_vars(Accept /\ UNCHANGED init_vars)
  /\ WF_sys_vars(Clock /\ UNCHANGED init_vars)
  /\ \A p \in Pids : WF_sys_vars(/\ proc[p].kill /\ ProcExit(p)
                                 /\ UNCHANGED <<lctl_vars, init_vars>>)

-----------------------------------------------------------------------------
(* Properties.                                                              *)

(* catbsd-init/README.md: "SIGTERM: Graceful shutdown: stop all jobs, then  *)
(* exit 0".  When init exits no child runs on unless SIGKILL is on its way  *)
(* to it, no activation socket is left in the file system, and a client     *)
(* that still waits has been told that the connection is closed.            *)
CleanExit ==
  pc = "exited" =>
    /\ \A p \in Pids : proc[p].st = "alive" => proc[p].kill
    /\ \A s \in Paths : sock[s] = NoLabel
    /\ \A c \in Clients : client[c].up => client[c].got # "none"

(* SIGTERM ends the program, at whatever point of boot, reload, request or  *)
(* tick it arrives and whatever the jobs do with their own SIGTERM.  Only   *)
(* the single-user shell is left to end by itself.                          *)
ShutdownCompletes == g_do_shutdown ~> (pc \in {"exited", "shell"})

(* A SIGHUP is not lost: a plist that is in the directory when the signal   *)
(* arrives is registered in the end, also if the signal comes while an      *)
(* earlier reload is reading the directory.                                 *)
ReloadSeesFile ==
  \A f \in Plists :
    (g_do_reload /\ f \in dir /\ DefOf[f].valid)
      ~> (DefOf[f].label \in Registered \/ pc \in ShuttingDown \cup {"shell"})

(* catbsd-init.c, do_reload: "Jobs already in the registry are unchanged    *)
(* (duplicate labels are rejected by launch_registry_load_plist, which is   *)
(* fine)."  The path of a socket a job has open still leads to that job.    *)
JobsUnchangedByReload ==
  \A l \in Registered : \A s \in job[l].open : sock[s] = l
=============================================================================
