---------------------------- MODULE SystemProofs ----------------------------
(***************************************************************************)
(* Proofs about CatbsdInit, for every daemon directory, set of clients and *)
(* requests: init as a whole implements the job supervisor, its replies    *)
(* are true, and it exits with nothing left behind.                        *)
(***************************************************************************)
EXTENDS CatbsdInit, LctlServerProofs

(* Before lctl_server_create and after lctl_server_destroy there is no      *)
(* listener.                                                                *)
Unheard == {"boot", "shell", "scan", "start_all", "started", "stopping",
            "freeing", "exited"}

(* No call is in progress and no job is loaded before the daemon directory  *)
(* is read, in single-user mode and after the registry is freed.            *)
AtRest ==
  /\ pc \in Unheard => srv.at = "closed"
  /\ call.at = "freed" => reg = <<>>
  /\ pc \in {"boot", "shell", "exited"} =>
       reg = <<>> /\ call.at \in {"idle", "freed"}

InitTypes ==
  /\ pc \in PCs
  /\ g_do_shutdown \in BOOLEAN /\ g_do_reload \in BOOLEAN
  /\ dir \subseteq Plists /\ todo \subseteq dir

SysInv == IInv /\ CtlInv /\ AtRest /\ InitTypes

(* Once launch_registry_free is done the registry stays empty; nothing else *)
(* leads there.                                                             *)
LEMMA FreedForGood ==
  ASSUME IInv, call.at = "freed" => reg = <<>>, Next
  PROVE  call'.at = "freed" => reg' = <<>>
<1>1. call \in Calls /\ Idle.at = "idle"
  BY DEF IInv, TypeOK, Idle
<1>2. CASE Caller
  <2>1. CASE \E f \in Plists : launch_registry_load_plist(f)
    BY <2>1 DEF launch_registry_load_plist
  <2>2. CASE \E ms \in DefaultThrottles : launch_registry_set_default_throttle(ms)
    BY <2>2 DEF launch_registry_set_default_throttle
  <2>3. CASE \E l \in Labels : Start(l)
    BY <2>3 DEF Start
  <2>4. ASSUME NEW l \in Labels, NEW ms \in Graces,
               Stop(l, ms) \/ launch_registry_unload(l, ms)
        PROVE  call'.at # "freed"
    <3>1. ASSUME NEW back \in {"idle", "remove"}, launch_job_stop(l, ms, back)
          PROVE  call'.at # "freed"
      BY <1>1, <3>1 DEF launch_job_stop, Calls
    <3>2. call' = [Idle EXCEPT !.at = "remove", !.cur = l] => call'.at # "freed"
      BY DEF Idle
    <3> QED BY <2>4, <3>1, <3>2 DEF Stop, launch_registry_unload
  <2>5. CASE \/ BeginStartAll \/ BeginTick
             \/ \E ms \in Graces, then \in {"idle", "free"} : BeginStopAll(ms, then)
    BY <2>5 DEF BeginStartAll, BeginTick, BeginStopAll, Idle
  <2> QED BY <1>2, <2>1, <2>2, <2>3, <2>4, <2>5 DEF Caller
<1>3. CASE CallStep
  <2>1. ASSUME NEW st, StopDone(st) PROVE call'.at # "freed"
    BY <1>1, <2>1 DEF StopDone, Calls
  <2>2. CASE launch_registry_free
    BY <2>2 DEF launch_registry_free
  <2>3. CASE launch_registry_start_all \/ TickReap \/ TickRestart \/ job_free
             \/ Escalate
    BY <1>1, <2>3 DEF launch_registry_start_all, TickReap, TickRestart, job_free,
                      Escalate, Calls
  <2>4. CASE StopPoll \/ KillWait
    BY <1>1, <2>1, <2>4 DEF StopPoll, KillWait, Calls
  <2>5. CASE launch_registry_stop_all
    BY <1>1, <2>5 DEF launch_registry_stop_all, launch_job_stop, Calls
  <2> QED BY <1>3, <2>2, <2>3, <2>4, <2>5 DEF CallStep
<1>4. CASE Kernel
  <2>1. reg' = reg /\ call'.at = call.at
    BY <1>1, <1>4 DEF Kernel, ProcExit, ReapedElsewhere, TimePasses, Calls
  <2> QED BY <2>1
<1> QED BY <1>2, <1>3, <1>4 DEF Next

(* lctl_server_destroy tells every client in the listen queue.              *)
LEMMA DestroyEffect ==
  ASSUME CtlInv, pc = "shutdown", lctl_server_destroy
  PROVE  CtlInv' /\ Truthful /\ srv'.at = "closed"
<1>1. client \in [Clients -> ClientStates]
  BY DEF CtlInv, CtlTypes
<1>2. /\ srv' = [Out EXCEPT !.at = "closed"]
      /\ backlog' = <<>>
      /\ client' = [c \in Clients |->
           IF c \notin Queued THEN client[c]
           ELSE IF client[c].up THEN [client[c] EXCEPT !.got = "closed"] ELSE Away]
  BY DEF lctl_server_destroy
<1>3. srv' = [at |-> "closed", peer |-> NoClient, left |-> 0]
  BY <1>2 DEF Out
<1>4. \A c \in Clients : client'[c] \in ClientStates
  BY <1>1, <1>2, AwayType DEF ClientStates
<1>5. client' \in [Clients -> ClientStates]
  BY <1>2, <1>4
<1>6. CtlTypes' /\ Polling' /\ ServesPeer'
  <2>1. backlog' = <<>> /\ backlog' \in Seq(Clients) /\ Len(backlog') <= Backlog
    BY <1>2, LctlAssumption
  <2> QED BY <1>3, <1>5, <2>1, LctlAssumption
          DEF CtlTypes, Polling, ServesPeer, Servers
<1>7. srv.peer \notin Clients
  BY DEF CtlInv, Polling
<1>8. \A c \in Clients : c \in Queued =>
        client'[c].got \in {"closed", "none"}
        /\ (client'[c].up => client'[c].got = "closed")
  <2> SUFFICES ASSUME NEW c \in Clients, c \in Queued
               PROVE  client'[c].got \in {"closed", "none"}
                      /\ (client'[c].up => client'[c].got = "closed")
    OBVIOUS
  <2>1. client[c] \in ClientStates
    BY <1>1
  <2>2. CASE client[c].up
    <3>1. client'[c] = [client[c] EXCEPT !.got = "closed"]
      BY <1>2, <2>2
    <3> QED BY <2>1, <3>1 DEF ClientStates
  <2>3. CASE ~client[c].up
    <3>1. client'[c] = Away
      BY <1>2, <2>3
    <3> QED BY <3>1 DEF Away
  <2> QED BY <2>2, <2>3
<1>9. \A c \in Clients : c \notin Queued => client'[c] = client[c]
  BY <1>2
<1>10. Waiting'
  BY <1>7, <1>8, <1>9 DEF CtlInv, Waiting
<1>11. Truthful
  BY <1>8, <1>9, CodesAreReplies DEF Truthful
<1> QED BY <1>3, <1>6, <1>10, <1>11 DEF CtlInv

(* init boots with nothing loaded and no listener.                          *)
LEMMA SysInitInv == SysInit => SysInv
<1> SUFFICES ASSUME SysInit PROVE SysInv
  OBVIOUS
<1>1. IInv
  BY InitInv DEF SysInit
<1>2. /\ client = [c \in Clients |-> Away] /\ backlog = <<>> /\ pc = "boot"
      /\ srv = [Out EXCEPT !.at = "closed"]
  BY DEF SysInit
<1>3. srv = [at |-> "closed", peer |-> NoClient, left |-> 0]
  BY <1>2 DEF Out
<1>4. CtlTypes
  <2>1. backlog \in Seq(Clients) /\ Len(backlog) <= Backlog
    BY <1>2, LctlAssumption
  <2>2. client \in [Clients -> ClientStates]
    BY <1>2, AwayType
  <2> QED BY <1>3, <2>1, <2>2, LctlAssumption DEF CtlTypes, Servers
<1>5. Polling /\ ServesPeer
  BY <1>2, <1>3, LctlAssumption DEF Polling, ServesPeer
<1>6. Waiting
  BY <1>2 DEF Waiting, Away
<1>7. AtRest
  BY <1>2, <1>3 DEF SysInit, Init, Idle, AtRest
<1>8. InitTypes
  BY InitAssumption DEF SysInit, InitTypes, PCs
<1> QED BY <1>1, <1>4, <1>5, <1>6, <1>7, <1>8 DEF SysInv, CtlInv

-----------------------------------------------------------------------------
(* The simulation step: whatever init, a client, a signal, a new file or    *)
(* the kernel does is a step of the supervisor or invisible to it.          *)
Simulates == CtlInv' /\ AtRest' /\ [Next]_vars /\ [Truthful]_all_vars

(* A step outside lctl_server_poll that keeps the channel as it is.         *)
LEMMA PlainStep ==
  ASSUME SysInv, pc # "poll", UNCHANGED <<vars, srv, client, backlog>>,
         pc' \in Unheard => pc \in Unheard,
         pc' \in {"boot", "shell", "exited"} =>
           pc \in {"boot", "shell"} \/ call.at = "freed"
  PROVE  Simulates
<1>1. CtlInv' /\ Truthful
  BY OutsidePoll DEF SysInv
<1>2. AtRest'
  BY DEF SysInv, AtRest, vars
<1> QED BY <1>1, <1>2 DEF Simulates

(* main() before the loop.                                                  *)
LEMMA BootSteps ==
  ASSUME SysInv,
         \/ Boot \/ run_single_user \/ launch_registry_load_dir \/ StartAll
         \/ lctl_server_create \/ Loop
  PROVE  Simulates
<1>0. CtlInv /\ IInv
  BY DEF SysInv
<1>1. CASE Boot \/ run_single_user \/ Loop
  BY <1>1, PlainStep DEF Boot, run_single_user, Loop, Unheard, init_vars
<1>2. CASE launch_registry_load_dir
  <2>1. CASE UNCHANGED vars
    BY <1>2, <2>1, PlainStep DEF launch_registry_load_dir, Unheard
  <2>2. CASE \E f \in todo : launch_registry_load_plist(f) /\ UNCHANGED pc
    <3>1. /\ pc \in {"scan", "rescan"} /\ pc' = pc
          /\ UNCHANGED <<srv, client, backlog>>
          /\ \E f \in Plists : launch_registry_load_plist(f)
      BY <1>2, <2>2 DEF launch_registry_load_dir, SysInv, InitTypes
    <3>2. Next
      BY <3>1 DEF Next, Caller
    <3>3. CtlInv' /\ Truthful
      BY <1>0, <3>1, OutsidePoll
    <3>4. AtRest'
      BY <3>1, <3>2, <1>0, FreedForGood DEF SysInv, AtRest, Unheard
    <3> QED BY <3>2, <3>3, <3>4 DEF Simulates
  <2> QED BY <1>2, <2>1, <2>2 DEF launch_registry_load_dir
<1>3. CASE StartAll
  <2>1. /\ pc = "start_all" /\ pc' = "started" /\ BeginStartAll
        /\ UNCHANGED <<srv, client, backlog>>
    BY <1>3 DEF StartAll
  <2>2. Next
    BY <2>1 DEF Next, Caller
  <2>3. CtlInv' /\ Truthful
    BY <1>0, <2>1, OutsidePoll
  <2>4. AtRest'
    BY <1>0, <2>1, <2>2, FreedForGood DEF SysInv, AtRest, Unheard
  <2> QED BY <2>2, <2>3, <2>4 DEF Simulates
<1>4. CASE lctl_server_create
  <2>1. /\ pc = "started" /\ pc' = "loop" /\ UNCHANGED <<vars, client, backlog>>
        /\ srv' \in {Out, [Out EXCEPT !.at = "closed"]}
        /\ srv.at = "closed" /\ Queued' = Queued
    BY <1>4 DEF lctl_server_create, SysInv, AtRest, Unheard, Queued
  <2>2. \E at \in {"out", "closed"} :
          srv' = [at |-> at, peer |-> NoClient, left |-> 0]
    BY <2>1 DEF Out
  <2>3. CtlTypes' /\ Polling' /\ ServesPeer'
    BY <1>0, <2>1, <2>2, LctlAssumption
       DEF CtlInv, CtlTypes, Polling, ServesPeer, Servers
  <2>4. Waiting'
    BY <1>0, <2>1 DEF CtlInv, Polling, Waiting
  <2>5. Truthful
    BY <2>1, CodesAreReplies DEF Truthful
  <2>6. AtRest'
    BY <2>1 DEF SysInv, AtRest, Unheard, vars
  <2> QED BY <2>1, <2>3, <2>4, <2>5, <2>6 DEF CtlInv, Simulates
<1> QED BY <1>1, <1>2, <1>3, <1>4

(* The loop, the calls in progress and the shutdown.                        *)
LEMMA LoopSteps ==
  ASSUME SysInv, Poll \/ Tick \/ Again \/ InCall \/ do_shutdown
  PROVE  Simulates
<1>0. CtlInv /\ IInv
  BY DEF SysInv
<1>1. CASE PollStep
  <2>1. CtlInv' /\ Truthful /\ [Next]_vars
    BY <1>0, <1>1, PollSteps
  <2>2. pc' \in {"poll", "tick"}
    BY <1>0, <1>1, PollMoves
  <2>3. AtRest'
    <3>1. CASE Next
      BY <1>0, <2>2, <3>1, FreedForGood DEF SysInv, AtRest, Unheard
    <3>2. CASE UNCHANGED vars
      BY <2>2, <3>2 DEF SysInv, AtRest, Unheard, vars
    <3> QED BY <2>1, <3>1, <3>2
  <2> QED BY <2>1, <2>3 DEF Simulates
<1>2. CASE /\ pc = "poll" /\ srv.at = "closed" /\ pc' = "tick"
           /\ UNCHANGED <<vars, srv, client, backlog>>
  <2>1. ServesPeer'
    BY <1>2 DEF ServesPeer
  <2>2. CtlInv' /\ Truthful
    BY <1>0, <1>2, <2>1, ChannelAlone
  <2>3. AtRest'
    BY <1>2 DEF SysInv, AtRest, Unheard, vars
  <2> QED BY <1>2, <2>2, <2>3 DEF Simulates
<1>3. CASE Tick
  <2>1. CtlInv' /\ Truthful /\ Next /\ pc' = "ticking"
    BY <1>0, <1>3, TickSteps DEF Tick
  <2>2. AtRest'
    BY <1>0, <2>1, FreedForGood DEF SysInv, AtRest, Unheard
  <2> QED BY <2>1, <2>2 DEF Simulates
<1>4. CASE Again
  BY <1>4, PlainStep DEF Again, Unheard
<1>5. CASE InCall
  <2>1. CtlInv' /\ Truthful /\ Next
    BY <1>0, <1>5, CallSteps
  <2>2. CallStep /\ pc' = pc /\ srv' = srv
    BY <1>5 DEF InCall, lctl_vars
  <2>3. call.at \notin {"idle", "freed"}
    BY <2>2 DEF CallStep, launch_registry_start_all, StopPoll, Escalate,
       KillWait, job_free, launch_registry_stop_all, launch_registry_free,
       TickReap, TickRestart
  <2>4. AtRest'
    BY <1>0, <2>1, <2>2, <2>3, FreedForGood DEF SysInv, AtRest
  <2> QED BY <2>1, <2>4 DEF Simulates
<1>6. ASSUME NEW ms \in Graces, NEW then \in {"idle", "free"},
             BeginStopAll(ms, then), CtlInv', Truthful, srv'.at = "closed",
             pc' \in {"stopping", "freeing"}
      PROVE  Simulates
  <2>1. Next
    BY <1>6 DEF Next, Caller
  <2>2. AtRest'
    BY <1>0, <1>6, <2>1, FreedForGood DEF SysInv, AtRest
  <2> QED BY <1>6, <2>1, <2>2 DEF Simulates
<1>7. CASE do_shutdown
  <2>1. CASE /\ pc = "shutdown"
             /\ lctl_server_destroy
             /\ BeginStopAll(ShutdownTimeout, "idle")
             /\ pc' = "stopping"
    <3>1. CtlInv' /\ Truthful /\ srv'.at = "closed"
      BY <1>0, <2>1, DestroyEffect
    <3> QED BY <1>6, <2>1, <3>1, InitAssumption
  <2>2. CASE /\ pc = "stopping" /\ call.at = "idle"
             /\ BeginStopAll(FreeGrace, "free")
             /\ pc' = "freeing"
             /\ UNCHANGED <<srv, client, backlog>>
    <3>1. CtlInv' /\ Truthful
      BY <1>0, <2>2, OutsidePoll
    <3>2. srv'.at = "closed"
      BY <2>2 DEF SysInv, AtRest, Unheard
    <3> QED BY <1>6, <2>2, <3>1, <3>2, InitAssumption
  <2>3. CASE /\ pc = "freeing" /\ call.at = "freed"
             /\ pc' = "exited"
             /\ UNCHANGED <<vars, srv, client, backlog>>
    BY <2>3, PlainStep DEF Unheard
  <2> QED BY <1>7, <2>1, <2>2, <2>3 DEF do_shutdown
<1> QED BY <1>1, <1>2, <1>3, <1>4, <1>5, <1>7 DEF Poll

(* Signals, files, clients, children and time.                              *)
LEMMA EnvironmentSteps ==
  ASSUME SysInv, Environment
  PROVE  Simulates
<1>0. CtlInv /\ IInv /\ call \in Calls
  BY DEF SysInv, IInv, TypeOK
<1>1. CASE handle_shutdown \/ handle_reload \/ \E f \in Plists : Install(f)
  <2>1. UNCHANGED all_vars
    BY <1>1 DEF handle_shutdown, handle_reload, Install
  <2>2. CtlInv' /\ Truthful
    BY <1>0, <2>1, ChannelStutter
  <2>3. AtRest' /\ UNCHANGED vars
    BY <2>1 DEF SysInv, AtRest, all_vars, lctl_vars, vars
  <2> QED BY <2>2, <2>3 DEF Simulates
<1>2. ASSUME NEW c \in Clients, ClientStep(c) PROVE Simulates
  <2>1. CtlInv' /\ Truthful /\ UNCHANGED vars
    BY <1>0, <1>2, ClientSteps
  <2>2. UNCHANGED <<pc, srv>>
    BY <1>2 DEF ClientStep, Connect, Send, Quit
  <2>3. AtRest'
    BY <2>1, <2>2 DEF SysInv, AtRest, vars
  <2> QED BY <2>1, <2>3 DEF Simulates
<1>3. CASE Exits
  <2>1. CtlInv' /\ Truthful /\ Next
    BY <1>0, <1>3, ExitSteps
  <2>2. UNCHANGED <<reg, call, pc, srv>>
    BY <1>3 DEF Exits, ProcExit, ReapedElsewhere, lctl_vars
  <2>3. AtRest'
    BY <2>2 DEF SysInv, AtRest
  <2> QED BY <2>1, <2>3 DEF Simulates
<1>4. CASE Clock
  <2>1. CtlInv' /\ Truthful /\ Next
    BY <1>0, <1>4, ClockSteps
  <2>2. UNCHANGED <<reg, pc>> /\ call'.at = call.at /\ srv'.at = srv.at
    BY <1>0, <1>4 DEF Clock, TimePasses, Calls, CtlInv, CtlTypes, Servers
  <2>3. AtRest'
    BY <2>2 DEF SysInv, AtRest
  <2> QED BY <2>1, <2>3 DEF Simulates
<1> QED BY <1>1, <1>2, <1>3, <1>4 DEF Environment

(* The flags and the directory keep their types.                            *)
LEMMA SysTypes ==
  ASSUME SysInv, [SysNext]_sys_vars
  PROVE  InitTypes'
<1>0. InitTypes /\ CtlInv
  BY DEF SysInv
<1>1. CASE Boot \/ run_single_user \/ launch_registry_load_dir \/ Loop
  BY <1>0, <1>1 DEF InitTypes, Boot, run_single_user, launch_registry_load_dir,
     Loop, OpenDir, PCs, ShuttingDown, init_vars
<1>2. CASE StartAll \/ lctl_server_create
  BY <1>0, <1>2 DEF InitTypes, StartAll, lctl_server_create, PCs, init_vars
<1>3. CASE (Poll \/ Tick \/ Again \/ InCall \/ do_shutdown) /\ UNCHANGED init_vars
  <2>1. PollStep => pc' \in {"poll", "tick"}
    BY <1>0, PollMoves
  <2>2. pc' \in PCs
    BY <1>0, <1>3, <2>1 DEF Poll, Tick, Again, InCall, do_shutdown, lctl_vars,
       PCs, ShuttingDown, InitTypes
  <2> QED BY <1>0, <1>3, <2>2 DEF InitTypes, init_vars
<1>4. CASE Environment
  <2>1. pc' = pc
    BY <1>4 DEF Environment, handle_shutdown, handle_reload, Install, all_vars,
       lctl_vars, ClientStep, Connect, Send, Quit, Exits, Clock
  <2> QED BY <1>0, <1>4, <2>1 DEF InitTypes, Environment, handle_shutdown,
          handle_reload, Install, init_vars
<1>5. CASE UNCHANGED sys_vars
  BY <1>0, <1>5 DEF InitTypes, sys_vars, init_vars, all_vars, lctl_vars
<1> QED BY <1>1, <1>2, <1>3, <1>4, <1>5 DEF SysNext, Main

(* Every step of the system.                                                *)
LEMMA SysStep ==
  ASSUME SysInv, [SysNext]_sys_vars
  PROVE  SysInv' /\ [Next]_vars /\ [Truthful]_all_vars
<1>1. InitTypes' /\ IInv
  BY SysTypes DEF SysInv
<1>2. Simulates
  <2>1. CASE SysNext
    BY <2>1, BootSteps, LoopSteps, EnvironmentSteps DEF SysNext, Main
  <2>2. CASE UNCHANGED sys_vars
    <3>1. UNCHANGED all_vars
      BY <2>2 DEF sys_vars
    <3>2. CtlInv'
      BY <3>1, ChannelStutter DEF SysInv
    <3>3. AtRest' /\ UNCHANGED vars
      BY <3>1 DEF SysInv, AtRest, all_vars, lctl_vars, vars
    <3> QED BY <3>1, <3>2, <3>3 DEF Simulates
  <2> QED BY <2>1, <2>2
<1> QED BY <1>1, <1>2, NextInv DEF Simulates, SysInv

-----------------------------------------------------------------------------
(* The theorems.                                                            *)

(* The inductive invariant of init.                                         *)
THEOREM SysInvariant == SysSpec => []SysInv
<1>1. SysInv /\ [SysNext]_sys_vars => SysInv'
  BY SysStep
<1> QED BY <1>1, SysInitInv, PTL DEF SysSpec

(* catbsd-init with its control channel implements the supervisor: at boot, *)
(* on reload, on a request, in a tick and at shutdown it makes only the     *)
(* calls the supervisor allows, where it allows them.                       *)
THEOREM InitImplementsSupervisor == SysSpec => Spec
<1>1. SysInit => Init
  BY DEF SysInit
<1>2. SysInv /\ [SysNext]_sys_vars => [Next]_vars
  BY SysStep
<1> QED BY <1>1, <1>2, SysInvariant, PTL DEF SysSpec, Spec

(* Every variable of init keeps its type; a directory stream shows only     *)
(* files of the directory.                                                  *)
THEOREM InitTypeCorrect == SysSpec => []InitTypeOK
<1>1. SysInv => InitTypeOK
  BY DEF SysInv, IInv, CtlInv, CtlTypes, InitTypes, InitTypeOK
<1> QED BY <1>1, SysInvariant, PTL

(* init signals and waits for its own children only, whatever signals,      *)
(* requests and reloads come in.                                            *)
THEOREM InitOwnsItsPids == SysSpec => []PidIsOwnChild
BY InitImplementsSupervisor, PidsAreOwnChildren, PTL

(* init loses no live child.                                                *)
THEOREM InitLosesNoProcess == SysSpec => []NoStrayProcess
BY InitImplementsSupervisor, NoProcessIsLost, PTL

(* The replies of init's control socket are true when they are sent.        *)
THEOREM InitRepliesTellTheTruth == SysSpec => RepliesAreTrue
<1>1. SysInv /\ [SysNext]_sys_vars => [Truthful]_all_vars
  BY SysStep
<1> QED BY <1>1, SysInvariant, PTL DEF SysSpec, RepliesAreTrue

(* When init exits no child runs on unless SIGKILL is on its way to it, no  *)
(* activation socket is left, and every client has been told.               *)
THEOREM InitExitsClean == SysSpec => []CleanExit
<1>1. SysInv => CleanExit
  <2> SUFFICES ASSUME SysInv, pc = "exited"
               PROVE  /\ \A p \in Pids : proc[p].st = "alive" => proc[p].kill
                      /\ \A s \in Paths : sock[s] = NoLabel
                      /\ \A c \in Clients : client[c].up => client[c].got # "none"
    BY DEF CleanExit
  <2>1. reg = <<>> /\ Registered = {}
    BY DEF SysInv, AtRest, Registered
  <2>2. \A l \in Labels : job[l].pid = NoPid /\ job[l].open = {}
    BY <2>1 DEF SysInv, IInv, PidWhileRunning
  <2>3. \A p \in Pids : proc[p].st = "alive" => proc[p].kill
    BY <2>2, LaunchAssumption DEF SysInv, IInv, ProcOwned
  <2>4. \A s \in Paths : sock[s] = NoLabel
    BY <2>1, <2>2 DEF SysInv, IInv, TypeOK, NoDeadSocketPath
  <2>5. srv.at = "closed" /\ srv.peer \notin Clients /\ backlog = <<>>
    BY DEF SysInv, AtRest, Unheard, CtlInv, Polling
  <2>6. \A c \in Clients : client[c].up => client[c].got # "none"
    BY <2>5 DEF SysInv, CtlInv, Waiting, Queued
  <2> QED BY <2>3, <2>4, <2>6
<1> QED BY <1>1, SysInvariant, PTL
=============================================================================
