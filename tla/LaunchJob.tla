----------------------------- MODULE LaunchJob -----------------------------
(***************************************************************************)
(* The job supervisor of launchd/launch_job.c: the registry of jobs, the   *)
(* child process of each job, KeepAlive restarts held back by              *)
(* ThrottleInterval, stopping with escalation to SIGKILL, and the          *)
(* activation sockets a job owns in the file system.                       *)
(*                                                                         *)
(* The library is single-threaded.  What interleaves with it is the        *)
(* kernel: children exit at any moment, time passes, and a signal may      *)
(* interrupt a blocking wait.  The calls that loop or wait (stop, stop_all,*)
(* start_all, tick, unload, free) are therefore sequences of steps; the    *)
(* variable `call` is the library's program counter.                       *)
(*                                                                         *)
(* Time is kept as what is left of it: restart_in is restart_at_ms minus   *)
(* the clock, call.left is the stop deadline minus the clock, both cut off *)
(* at 0, so that "now >= t" is "what is left is 0".                        *)
(***************************************************************************)
EXTENDS Integers, Sequences, FiniteSets

CONSTANTS
  Labels,            \* job labels
  Paths,             \* file-system paths of activation sockets
  Pids,              \* process ids the kernel can hand out
  Plists,            \* plist files
  DefOf,             \* what each plist file says, a function to Defs
  DefaultThrottle,   \* the interval a new registry starts with (10 s)
  DefaultThrottles,  \* values set_default_throttle is called with
  MaxThrottle,       \* bound on every throttle interval, in units of time
  Graces,            \* timeouts launch_job_stop is called with
  Failures,          \* which of "socket", "memory", ... may fail
  Interrupts,        \* signal handlers without SA_RESTART are installed
  ForeignReaper,     \* the embedding program also waits for any child
  NoPid, NoLabel     \* pid -1, and "nothing at that path"

KeepAliveValues == {"absent", "false", "true", "other", "dict",
                    "dict_success_true", "dict_success_false"}
Defs == [valid : BOOLEAN, label : Labels, KeepAlive : KeepAliveValues,
         RunAtLoad : BOOLEAN, ThrottleInterval : {<<>>} \cup [{1} -> Int],
         Sockets : SUBSET Paths]

ASSUME LaunchAssumption ==
  /\ MaxThrottle \in Nat
  /\ DefaultThrottle \in 0..MaxThrottle
  /\ DefaultThrottles \subseteq 0..MaxThrottle
  /\ Graces \subseteq Nat
  /\ DefOf \in [Plists -> Defs]
  /\ \A f \in Plists : DefOf[f].ThrottleInterval # <<>> =>
                         DefOf[f].ThrottleInterval[1] <= MaxThrottle
  /\ Interrupts \in BOOLEAN /\ ForeignReaper \in BOOLEAN
  /\ NoPid \notin Pids
  /\ NoLabel \notin Labels /\ "stale" \notin Labels /\ NoLabel # "stale"

VARIABLES
  reg,               \* struct launch_registry: the jobs in order, by label
  default_throttle,  \* reg->default_throttle_ms
  job,               \* struct launch_job of every label
  call,              \* the library call in progress
  proc,              \* the kernel's process table
  sock,              \* what each socket path in the file system leads to
  dead_for           \* history: time since a job's own process ended

vars == <<reg, default_throttle, job, call, proc, sock, dead_for>>

States     == {"loaded", "running", "exited", "waiting", "stopped", "failed"}
KeepAlives == {"never", "always", "on_failure", "on_success"}
Statuses   == {"clean", "failure", "signal"}    \* exit 0, exit n, killed

Jobs == [state : States, pid : Pids \cup {NoPid}, last_exit : Statuses,
         keepalive : KeepAlives, run_at_load : BOOLEAN,
         throttle : 0..MaxThrottle, restart_in : 0..MaxThrottle,
         sockets : SUBSET Paths, open : SUBSET Paths]

Procs == [st : {"free", "alive", "zombie"}, job : Labels \cup {NoLabel},
          status : Statuses, term : BOOLEAN, kill : BOOLEAN]

Calls == [at : {"idle", "start_all", "reap", "restart", "poll", "escalate",
                "killwait", "remove", "stop_all", "free", "freed"},
          i : Nat,                                 \* loop index
          cur : Labels \cup {NoLabel},             \* job being stopped
          back : {"idle", "remove", "stop_all"},   \* where stop returns to
          then : {"idle", "free"},                 \* and where stop_all does
          left : Nat, grace : Nat,                 \* stop deadline, timeout
          due : SUBSET Labels]                     \* jobs due at tick's clock

Idle == [at |-> "idle", i |-> 0, cur |-> NoLabel, back |-> "idle",
         then |-> "idle", left |-> 0, grace |-> 0, due |-> {}]

(* A label that is not in the registry has no job.                          *)
NoJob == [state |-> "loaded", pid |-> NoPid, last_exit |-> "clean",
          keepalive |-> "never", run_at_load |-> FALSE, throttle |-> 0,
          restart_in |-> 0, sockets |-> {}, open |-> {}]

NoProc == [st |-> "free", job |-> NoLabel, status |-> "clean",
           term |-> FALSE, kill |-> FALSE]

Registered == {reg[i] : i \in 1..Len(reg)}

TypeOK ==
  /\ reg \in Seq(Labels)
  /\ default_throttle \in 0..MaxThrottle
  /\ job \in [Labels -> Jobs]
  /\ call \in Calls
  /\ proc \in [Pids -> Procs]
  /\ sock \in [Paths -> Labels \cup {NoLabel, "stale"}]
  /\ dead_for \in [Labels -> 0..MaxThrottle]

Init ==
  /\ reg = <<>>
  /\ default_throttle = DefaultThrottle
  /\ job = [l \in Labels |-> NoJob]
  /\ call = Idle
  /\ proc = [p \in Pids |-> NoProc]
  /\ sock = [s \in Paths |-> NoLabel]
  /\ dead_for = [l \in Labels |-> MaxThrottle]

-----------------------------------------------------------------------------
(* Building a job from its plist.                                           *)

parse_keepalive(ka) ==
  CASE ka \in {"true", "dict"}      -> "always"
    [] ka = "dict_success_true"     -> "on_success"
    [] ka = "dict_success_false"    -> "on_failure"
    [] OTHER                        -> "never"

(* Mutant: a negative ThrottleInterval is taken as it is.                   *)
MutantThrottleOf(d) ==
  IF d.ThrottleInterval = <<>> THEN default_throttle ELSE d.ThrottleInterval[1]

(* throttle_ms: the plist's value, negative ones cut off at 0, or the       *)
(* registry's default.                                                      *)
ThrottleOf(d) ==
  IF d.ThrottleInterval = <<>> THEN default_throttle
  ELSE IF d.ThrottleInterval[1] < 0 THEN 0 ELSE d.ThrottleInterval[1]

job_from_plist(d) ==
  [NoJob EXCEPT !.keepalive = parse_keepalive(d.KeepAlive),
                !.run_at_load = d.RunAtLoad,
                !.throttle = ThrottleOf(d),
                !.sockets = d.Sockets]

(* Mutant: job_free closes the sockets and forgets the paths.               *)
MutantUnlinked(ss) == sock

(* job_free unlinks every socket path the job names, bound or not.          *)
Unlinked(ss) == [s \in Paths |-> IF s \in ss THEN NoLabel ELSE sock[s]]

(* Mutant: a lookup that never finds the label it is asked for.             *)
MutantFind(l) == FALSE

launch_registry_find(l) == l \in Registered

(* A plist that does not parse, names a loaded label or meets a failing     *)
(* allocation leaves the registry alone, and the job built so far is freed, *)
(* with the socket paths it has by then.  The Sockets of a malformed plist  *)
(* are the ones read before the fault.                                      *)
launch_registry_load_plist(f) ==
  LET d == DefOf[f] IN
  /\ call.at = "idle"
  /\ \/ /\ d.valid
        /\ ~launch_registry_find(d.label)
        /\ reg' = Append(reg, d.label)
        /\ job' = [job EXCEPT ![d.label] = job_from_plist(d)]
        /\ UNCHANGED sock
     \/ /\ \E ss \in SUBSET d.Sockets :
             /\ \/ "memory" \in Failures
                \/ (~d.valid \/ launch_registry_find(d.label)) /\ ss = d.Sockets
             /\ sock' = Unlinked(ss)
        /\ UNCHANGED <<reg, job>>
  /\ UNCHANGED <<default_throttle, call, proc, dead_for>>

launch_registry_set_default_throttle(ms) ==
  /\ call.at = "idle"
  /\ default_throttle' = ms
  /\ UNCHANGED <<reg, job, call, proc, sock, dead_for>>

-----------------------------------------------------------------------------
(* Starting a job.                                                          *)

(* Every socket of the job that is not yet open is bound: the path leads to *)
(* this job from now on, whatever it led to before.                         *)
Bound(l, ss) == [s \in Paths |-> IF s \in ss \ job[l].open THEN l ELSE sock[s]]

(* fork() gives a free pid; the parent records it.                          *)
Spawn(l) ==
  \E p \in {q \in Pids : proc[q].st = "free"} :
    /\ proc' = [proc EXCEPT ![p] = [NoProc EXCEPT !.st = "alive", !.job = l]]
    /\ job' = [job EXCEPT ![l].pid = p, ![l].state = "running",
                          ![l].restart_in = 0, ![l].open = job[l].sockets]
    /\ sock' = Bound(l, job[l].sockets)

(* The three ways a start fails; st is the state the caller leaves the job  *)
(* in after a failed allocation.                                            *)
SpawnFails(l, st) ==
  /\ \/ /\ "socket" \in Failures
        /\ \E ss \in SUBSET (job[l].sockets \ job[l].open) :
           \E bad \in (job[l].sockets \ job[l].open) \ ss :
           \E left \in {sock[bad], NoLabel, "stale"} :
             /\ job' = [job EXCEPT ![l].open = job[l].open \cup ss,
                                   ![l].state = "failed"]
             /\ sock' = [Bound(l, ss) EXCEPT ![bad] = left]
     \/ /\ \/ /\ "memory" \in Failures
              /\ job' = [job EXCEPT ![l].open = job[l].sockets,
                                    ![l].state = st]
           \/ /\ \/ "fork" \in Failures
                 \/ \A p \in Pids : proc[p].st # "free"
              /\ job' = [job EXCEPT ![l].open = job[l].sockets,
                                    ![l].state = "failed"]
        /\ sock' = Bound(l, job[l].sockets)
  /\ UNCHANGED proc

launch_job_start(l, st) ==
  /\ launch_registry_find(l)
  /\ job[l].state # "running"
  /\ Spawn(l) \/ SpawnFails(l, st)

(* launch_job_start called by the embedding program.                        *)
Start(l) ==
  /\ call.at = "idle"
  /\ launch_job_start(l, job[l].state)
  /\ UNCHANGED <<reg, default_throttle, call, dead_for>>

BeginStartAll ==
  /\ call.at = "idle"
  /\ call' = [Idle EXCEPT !.at = "start_all", !.i = 1]
  /\ UNCHANGED <<reg, default_throttle, job, proc, sock, dead_for>>

(* Mutant: start_all looks at RunAtLoad and at nothing else.                *)
MutantStartAll ==
  /\ call.at = "start_all"
  /\ IF call.i > Len(reg)
       THEN call' = Idle /\ UNCHANGED <<job, proc, sock>>
       ELSE /\ call' = [call EXCEPT !.i = @ + 1]
            /\ LET l == reg[call.i] IN
                 IF job[l].run_at_load /\ job[l].state # "running"
                   THEN launch_job_start(l, "loaded")
                   ELSE UNCHANGED <<job, proc, sock>>
  /\ UNCHANGED <<reg, default_throttle, dead_for>>

launch_registry_start_all ==
  /\ call.at = "start_all"
  /\ IF call.i > Len(reg)
       THEN call' = Idle /\ UNCHANGED <<job, proc, sock>>
       ELSE /\ call' = [call EXCEPT !.i = @ + 1]
            /\ LET l == reg[call.i] IN
                 IF job[l].run_at_load /\ job[l].state = "loaded"
                   THEN launch_job_start(l, "loaded")
                   ELSE UNCHANGED <<job, proc, sock>>
  /\ UNCHANGED <<reg, default_throttle, dead_for>>

-----------------------------------------------------------------------------
(* Stopping a job.                                                          *)

kill(p, sig) ==
  [proc EXCEPT ![p] = IF @.st = "free" THEN @
                      ELSE IF sig = "TERM" THEN [@ EXCEPT !.term = TRUE]
                                           ELSE [@ EXCEPT !.kill = TRUE]]

(* A job that is not running is only marked, so that a throttled job does   *)
(* not come back; otherwise SIGTERM is sent and the wait begins.            *)
launch_job_stop(l, ms, back) ==
  IF job[l].state # "running" \/ job[l].pid = NoPid
    THEN /\ job' = [job EXCEPT ![l].state = "stopped", ![l].restart_in = 0]
         /\ call' = IF back = "idle" THEN Idle ELSE [call EXCEPT !.at = back]
         /\ UNCHANGED proc
    ELSE /\ proc' = kill(job[l].pid, "TERM")
         /\ call' = [call EXCEPT !.at = "poll", !.cur = l, !.back = back,
                                 !.left = ms]
         /\ UNCHANGED job

(* The end of launch_job_stop, with the status st recorded.                 *)
StopDone(st) ==
  /\ job' = [job EXCEPT ![call.cur].pid = NoPid, ![call.cur].last_exit = st,
                        ![call.cur].state = "stopped",
                        ![call.cur].restart_in = 0]
  /\ call' = IF call.back = "idle" THEN Idle
             ELSE [call EXCEPT !.at = call.back, !.back = "idle", !.left = 0]

(* launch_job_stop called by the embedding program.                         *)
Stop(l, ms) ==
  /\ call.at = "idle"
  /\ launch_registry_find(l)
  /\ launch_job_stop(l, ms, "idle")
  /\ UNCHANGED <<reg, default_throttle, sock, dead_for>>

(* Mutant: the wait loop has no deadline.                                   *)
MutantStopPoll ==
  LET p == job[call.cur].pid IN
  /\ call.at = "poll"
  /\ \/ /\ proc[p].st = "zombie"
        /\ proc' = [proc EXCEPT ![p] = NoProc]
        /\ StopDone(proc[p].status)
     \/ /\ proc[p].st = "free"
        /\ StopDone(job[call.cur].last_exit)
        /\ UNCHANGED proc
  /\ UNCHANGED <<reg, default_throttle, sock, dead_for>>

(* waitpid(WNOHANG) in the wait loop: the child was reaped, or the kernel   *)
(* knows no such child, or time is up.                                      *)
StopPoll ==
  LET p == job[call.cur].pid IN
  /\ call.at = "poll"
  /\ \/ /\ proc[p].st = "zombie"
        /\ proc' = [proc EXCEPT ![p] = NoProc]
        /\ StopDone(proc[p].status)
     \/ /\ proc[p].st = "free"
        /\ StopDone(job[call.cur].last_exit)
        /\ UNCHANGED proc
     \/ /\ proc[p].st = "alive" /\ call.left = 0
        /\ call' = [call EXCEPT !.at = "escalate"]
        /\ UNCHANGED <<job, proc>>
  /\ UNCHANGED <<reg, default_throttle, sock, dead_for>>

Escalate ==
  /\ call.at = "escalate"
  /\ proc' = kill(job[call.cur].pid, "KILL")
  /\ call' = [call EXCEPT !.at = "killwait"]
  /\ UNCHANGED <<reg, default_throttle, job, sock, dead_for>>

(* Mutant: SIGKILL is sent and nobody waits for the child.                  *)
MutantKillWait ==
  /\ call.at = "killwait"
  /\ StopDone("signal")
  /\ UNCHANGED <<reg, default_throttle, proc, sock, dead_for>>

(* The blocking waitpid after SIGKILL.  Its result is ignored: a signal     *)
(* that interrupts it leaves the child unreaped.                            *)
KillWait ==
  LET p == job[call.cur].pid IN
  /\ call.at = "killwait"
  /\ \/ /\ proc[p].st = "zombie"
        /\ proc' = [proc EXCEPT ![p] = NoProc]
     \/ /\ proc[p].st = "free" \/ Interrupts
        /\ UNCHANGED proc
  /\ StopDone("signal")
  /\ UNCHANGED <<reg, default_throttle, sock, dead_for>>

-----------------------------------------------------------------------------
(* Unloading, stopping everything, freeing the registry.                    *)

(* memmove() of the jobs behind the removed one.                            *)
Without(l) ==
  LET k == CHOOSE i \in 1..Len(reg) : reg[i] = l IN
  [i \in 1..(Len(reg) - 1) |-> IF i < k THEN reg[i] ELSE reg[i + 1]]

(* Mutant: a running job is removed without being stopped.                  *)
MutantUnload(l, ms) ==
  /\ call.at = "idle"
  /\ launch_registry_find(l)
  /\ call' = [Idle EXCEPT !.at = "remove", !.cur = l]
  /\ UNCHANGED <<reg, default_throttle, job, proc, sock, dead_for>>

launch_registry_unload(l, ms) ==
  /\ call.at = "idle"
  /\ launch_registry_find(l)
  /\ IF job[l].state = "running"
       THEN launch_job_stop(l, ms, "remove")
       ELSE /\ call' = [Idle EXCEPT !.at = "remove", !.cur = l]
            /\ UNCHANGED <<job, proc>>
  /\ UNCHANGED <<reg, default_throttle, sock, dead_for>>

job_free ==
  /\ call.at = "remove"
  /\ reg' = Without(call.cur)
  /\ job' = [job EXCEPT ![call.cur] = NoJob]
  /\ sock' = Unlinked(job[call.cur].sockets)
  /\ call' = Idle
  /\ UNCHANGED <<default_throttle, proc, dead_for>>

(* then = "free": stop_all as the first half of launch_registry_free.       *)
BeginStopAll(ms, then) ==
  /\ call.at = "idle"
  /\ call' = [Idle EXCEPT !.at = "stop_all", !.i = 1, !.grace = ms,
                          !.then = then]
  /\ UNCHANGED <<reg, default_throttle, job, proc, sock, dead_for>>

launch_registry_stop_all ==
  /\ call.at = "stop_all"
  /\ \/ /\ call.i > Len(reg)
        /\ call' = IF call.then = "idle" THEN Idle
                   ELSE [call EXCEPT !.at = "free"]
        /\ UNCHANGED <<job, proc>>
     \/ /\ call.i <= Len(reg)
        /\ job[reg[call.i]].state = "running"
        /\ launch_job_stop(reg[call.i], call.grace, "stop_all")
     \/ /\ call.i <= Len(reg)
        /\ job[reg[call.i]].state # "running"
        /\ call' = [call EXCEPT !.i = @ + 1]
        /\ UNCHANGED <<job, proc>>
  /\ UNCHANGED <<reg, default_throttle, sock, dead_for>>

launch_registry_free ==
  /\ call.at = "free"
  /\ reg' = <<>>
  /\ job' = [l \in Labels |-> NoJob]
  /\ sock' = Unlinked(UNION {job[l].sockets : l \in Registered})
  /\ call' = [Idle EXCEPT !.at = "freed"]
  /\ UNCHANGED <<default_throttle, proc, dead_for>>

-----------------------------------------------------------------------------
(* launch_registry_tick: reap every job, read the clock, restart what is    *)
(* due.                                                                     *)

(* Mutant: KeepAlive true restarts a job that failed, and only that.        *)
MutantShouldRestart(ka, clean) ==
  \/ ka \in {"always", "on_failure"} /\ ~clean
  \/ ka = "on_success" /\ clean

should_restart(ka, clean) ==
  \/ ka = "always"
  \/ ka = "on_failure" /\ ~clean
  \/ ka = "on_success" /\ clean

BeginTick ==
  /\ call.at = "idle"
  /\ call' = [Idle EXCEPT !.at = "reap", !.i = 1]
  /\ UNCHANGED <<reg, default_throttle, job, proc, sock, dead_for>>

(* Mutant: the status is recorded, the pid and the state stay.              *)
MutantReapedKeepsPid(j, st) == [j EXCEPT !.last_exit = st]

(* Mutant: the restart is due at once, whatever the throttle.               *)
MutantReapedNoThrottle(j, st) ==
  LET again == should_restart(j.keepalive, st = "clean") IN
  [j EXCEPT !.pid = NoPid, !.last_exit = st, !.restart_in = 0,
            !.state = IF again THEN "waiting" ELSE "exited"]

(* What the job becomes once its process is gone with status st.            *)
Reaped(j, st) ==
  LET again == should_restart(j.keepalive, st = "clean") IN
  [j EXCEPT !.pid = NoPid, !.last_exit = st,
            !.state = IF again THEN "waiting" ELSE "exited",
            !.restart_in = IF again THEN j.throttle ELSE 0]

(* One job of the first loop.  A child the kernel no longer knows (ECHILD)  *)
(* is taken to have ended the way the previous run did.                     *)
ReapJob(l) ==
  LET p == job[l].pid IN
  IF job[l].state # "running" \/ p = NoPid \/ proc[p].st = "alive"
    THEN UNCHANGED <<job, proc>>
    ELSE IF proc[p].st = "zombie"
      THEN /\ job' = [job EXCEPT ![l] = Reaped(@, proc[p].status)]
           /\ proc' = [proc EXCEPT ![p] = NoProc]
      ELSE /\ job' = [job EXCEPT ![l] = Reaped(@, job[l].last_exit)]
           /\ UNCHANGED proc

TickReap ==
  /\ call.at = "reap"
  /\ \/ /\ call.i <= Len(reg)
        /\ ReapJob(reg[call.i])
        /\ call' = [call EXCEPT !.i = @ + 1]
     \/ /\ call.i > Len(reg)
        /\ call' = [call EXCEPT !.at = "restart", !.i = 1,
                       !.due = {l \in Registered : /\ job[l].state = "waiting"
                                                  /\ job[l].restart_in = 0}]
        /\ UNCHANGED <<job, proc>>
  /\ UNCHANGED <<reg, default_throttle, sock, dead_for>>

TickRestart ==
  /\ call.at = "restart"
  /\ \/ /\ call.i <= Len(reg)
        /\ LET l == reg[call.i] IN
             IF job[l].state = "waiting" /\ l \in call.due
               THEN launch_job_start(l, "failed")
               ELSE UNCHANGED <<job, proc, sock>>
        /\ call' = [call EXCEPT !.i = @ + 1]
     \/ /\ call.i > Len(reg)
        /\ call' = Idle
        /\ UNCHANGED <<job, proc, sock>>
  /\ UNCHANGED <<reg, default_throttle, dead_for>>

-----------------------------------------------------------------------------
(* The kernel and the clock.                                                *)

(* A child ends: by itself, with any status, or by the SIGKILL it was sent. *)
ProcExit(p) ==
  /\ proc[p].st = "alive"
  /\ \E st \in Statuses :
       /\ proc[p].kill => st = "signal"
       /\ proc' = [proc EXCEPT ![p].st = "zombie", ![p].status = st]
  /\ dead_for' = IF job[proc[p].job].pid = p
                   THEN [dead_for EXCEPT ![proc[p].job] = 0] ELSE dead_for
  /\ UNCHANGED <<reg, default_throttle, job, call, sock>>

(* The embedding program collects the child with a wait of its own.         *)
ReapedElsewhere(p) ==
  /\ ForeignReaper
  /\ proc[p].st = "zombie"
  /\ proc' = [proc EXCEPT ![p] = NoProc]
  /\ UNCHANGED <<reg, default_throttle, job, call, sock, dead_for>>

Less1(n) == IF n > 0 THEN n - 1 ELSE 0

TimePasses ==
  /\ job' = [l \in Labels |-> [job[l] EXCEPT !.restart_in = Less1(@)]]
  /\ call' = [call EXCEPT !.left = Less1(@)]
  /\ dead_for' = [l \in Labels |->
       IF dead_for[l] < MaxThrottle THEN dead_for[l] + 1 ELSE dead_for[l]]
  /\ UNCHANGED <<reg, default_throttle, proc, sock>>

-----------------------------------------------------------------------------
(* Steps of a library call in progress.                                     *)
CallStep ==
  \/ launch_registry_start_all \/ StopPoll \/ Escalate \/ KillWait
  \/ job_free \/ launch_registry_stop_all \/ launch_registry_free
  \/ TickReap \/ TickRestart

(* Calls the embedding program makes.                                       *)
Caller ==
  \/ \E f \in Plists : launch_registry_load_plist(f)
  \/ \E ms \in DefaultThrottles : launch_registry_set_default_throttle(ms)
  \/ \E l \in Labels : Start(l)
  \/ \E l \in Labels, ms \in Graces : Stop(l, ms)
  \/ \E l \in Labels, ms \in Graces : launch_registry_unload(l, ms)
  \/ \E ms \in Graces, then \in {"idle", "free"} : BeginStopAll(ms, then)
  \/ BeginStartAll \/ BeginTick

Kernel == \/ \E p \in Pids : ProcExit(p) \/ ReapedElsewhere(p)
          \/ TimePasses

Next == Caller \/ CallStep \/ Kernel

Spec == Init /\ [][Next]_vars

-----------------------------------------------------------------------------
(* Properties.                                                              *)

(* launch_registry_load_plist refuses a second job of the same label and    *)
(* launch_registry_unload removes the right entry: no label is in the       *)
(* registry twice, so a lookup by label finds the one job that owns the     *)
(* process.                                                                 *)
LabelsUnique ==
  \A i, k \in 1..Len(reg) : reg[i] = reg[k] => i = k

(* A running child that was not sent SIGKILL is the recorded child of a job *)
(* that is registered and RUNNING: no call sequence of stop, unload, tick,  *)
(* stop_all and free leaves a process behind that nobody supervises, and no *)
(* job ever has two.                                                        *)
NoStrayProcess ==
  \A p \in Pids :
    proc[p].st = "alive" /\ ~proc[p].kill =>
      /\ proc[p].job \in Registered
      /\ job[proc[p].job].state = "running"
      /\ job[proc[p].job].pid = p

(* Unless somebody else reaps the program's children, the pid of a RUNNING  *)
(* job is that of its own child, so kill() and waitpid() never reach the    *)
(* child of another job or a recycled pid.                                  *)
PidIsOwnChild ==
  ForeignReaper \/
  \A l \in Labels :
    job[l].state = "running" =>
      /\ job[l].pid # NoPid
      /\ proc[job[l].pid].st # "free"
      /\ proc[job[l].pid].job = l

(* Without interrupted waits every zombie still has a RUNNING job whose     *)
(* next tick or stop will reap it.                                          *)
NoLeakedZombie ==
  Interrupts \/
  \A p \in Pids :
    proc[p].st = "zombie" => job[proc[p].job].pid = p

(* A socket path that leads to a job leads to a socket that job still holds *)
(* open, and a leftover path belongs to a registered job that will unlink   *)
(* it: unload and free leave no dead socket files behind.                   *)
NoDeadSocketPath ==
  \A s \in Paths :
    /\ sock[s] \in Labels => s \in job[sock[s]].open
    /\ sock[s] = "stale" => \E l \in Registered : s \in job[l].sockets

(* The throttle counts from the death of the child: launch_registry_tick    *)
(* never starts a job again sooner than its ThrottleInterval after its      *)
(* process ended.                                                           *)
RestartIsDue ==
  \A l \in Labels :
    call.at = "restart" /\ job[l].state # "running" /\ job'[l].state = "running"
      => dead_for[l] >= job[l].throttle

ThrottleHonoured == [][RestartIsDue]_vars

(* launch_job.h, launch_job_stop: "an operator's stop outranks the plist".  *)
(* A job leaves STOPPED only by an explicit start or by being unloaded;     *)
(* neither tick nor start_all brings it back.                               *)
StaysStopped ==
  \A l \in Labels :
    job[l].state = "stopped" /\ job'[l].state # "stopped" =>
      call.at \in {"idle", "remove", "free"}

StopOutranksPlist == [][StaysStopped]_vars

(* launch_job.c: "A job that ignores SIGTERM must not be able to keep the   *)
(* supervisor waiting forever."  Every call returns.                        *)
CallsReturn == (call.at # "idle") ~> (call.at \in {"idle", "freed"})
=============================================================================
