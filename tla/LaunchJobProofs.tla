-------------------------- MODULE LaunchJobProofs --------------------------
(***************************************************************************)
(* Proofs about LaunchJob, for every set of labels, plists, paths and pids *)
(* and every throttle.                                                     *)
(***************************************************************************)
EXTENDS LaunchJob, TLAPS

Stopping == {"poll", "escalate", "killwait"}
Looping  == {"start_all", "reap", "restart", "stop_all"}

(* A job has a pid exactly while it is RUNNING, and only a registered label *)
(* has a job at all.                                                        *)
PidWhileRunning ==
  /\ \A l \in Labels : job[l].pid # NoPid <=> job[l].state = "running"
  /\ \A l \in Labels : l \notin Registered =>
       job[l].state = "loaded" /\ job[l].open = {} /\ job[l].sockets = {}

(* Where a call in progress may be: loops start at the first job, a stop is *)
(* of a registered RUNNING job, and what is removed is not running.         *)
CallConsistent ==
  /\ call.at \in Looping \/ call.back = "stop_all" => call.i >= 1
  /\ call.at \in Stopping =>
       call.cur \in Registered /\ job[call.cur].state = "running"
  /\ call.at = "remove" =>
       call.cur \in Registered /\ job[call.cur].state # "running"
  /\ call.at = "stop_all" \/ call.back = "stop_all" =>
       \A k \in 1..Len(reg) : k < call.i => job[reg[k]].state # "running"
  /\ call.at = "free" => \A l \in Labels : job[l].state # "running"
  /\ call.back # "idle" => call.at \in Stopping
  /\ call.at = "killwait" =>
       LET p == job[call.cur].pid IN proc[p].st = "free" \/ proc[p].kill

(* Every process that was not sent SIGKILL is its job's recorded child; a   *)
(* process that was, too, unless a wait was interrupted; and a recorded     *)
(* child is the job's own, unless somebody else reaps children.             *)
ProcOwned ==
  \A p \in Pids : proc[p].st # "free" =>
    /\ proc[p].job \in Labels
    /\ ~proc[p].kill \/ ~Interrupts => job[proc[p].job].pid = p

PidOwn ==
  ForeignReaper \/
  \A l \in Labels : job[l].state = "running" =>
    proc[job[l].pid].st # "free" /\ proc[job[l].pid].job = l

OpenAreOwn == \A l \in Labels : job[l].open \subseteq job[l].sockets

(* What is left of a throttle and what has passed since the death make up   *)
(* at least the interval.                                                   *)
ThrottleRuns ==
  /\ \A l \in Labels : job[l].state = "waiting" =>
       dead_for[l] + job[l].restart_in >= job[l].throttle
  /\ call.at = "restart" =>
       \A l \in call.due : job[l].state = "waiting" => job[l].restart_in = 0

IInv ==
  /\ TypeOK /\ LabelsUnique /\ PidWhileRunning /\ CallConsistent
  /\ ProcOwned /\ PidOwn
  /\ OpenAreOwn /\ NoDeadSocketPath
  /\ ThrottleRuns

-----------------------------------------------------------------------------
(* The registry as a list: appending a new label and removing one keep the  *)
(* labels apart.                                                            *)

(* registry_append of a label that launch_registry_find did not find.       *)
LEMMA AppendReg ==
  ASSUME TypeOK, LabelsUnique, NEW x \in Labels, x \notin Registered,
         reg' = Append(reg, x)
  PROVE  /\ reg' \in Seq(Labels)
         /\ LabelsUnique'
         /\ Registered' = Registered \cup {x}
<1>1. /\ reg \in Seq(Labels)
      /\ Len(reg') = Len(reg) + 1
      /\ reg' \in Seq(Labels)
      /\ \A i \in 1..Len(reg) : reg'[i] = reg[i]
      /\ reg'[Len(reg) + 1] = x
      /\ Len(reg) \in Nat
  BY DEF TypeOK
<1>2. \A i \in 1..Len(reg) : reg[i] # x
  BY DEF Registered
<1>3. LabelsUnique'
  BY <1>1, <1>2 DEF LabelsUnique
<1>4. Registered' = Registered \cup {x}
  BY <1>1 DEF Registered
<1> QED BY <1>1, <1>3, <1>4

(* The memmove of launch_registry_unload.                                   *)
LEMMA WithoutReg ==
  ASSUME TypeOK, LabelsUnique, NEW x \in Registered, reg' = Without(x)
  PROVE  /\ reg' \in Seq(Labels)
         /\ LabelsUnique'
         /\ Registered' = Registered \ {x}
<1> DEFINE k == CHOOSE i \in 1..Len(reg) : reg[i] = x
<1>1. Len(reg) \in Nat /\ \A i \in 1..Len(reg) : reg[i] \in Labels
  BY DEF TypeOK
<1>2. k \in 1..Len(reg) /\ reg[k] = x
  BY DEF Registered
<1> HIDE DEF k
<1>3. reg' = [i \in 1..(Len(reg) - 1) |-> IF i < k THEN reg[i] ELSE reg[i + 1]]
  BY DEF Without, k
<1>4. Len(reg) - 1 \in Nat
  BY <1>1, <1>2
<1>5. \A i \in 1..(Len(reg) - 1) :
        (IF i < k THEN reg[i] ELSE reg[i + 1]) \in Labels
  BY <1>1, <1>2
<1>6. reg' \in [1..(Len(reg) - 1) -> Labels]
  BY <1>3, <1>5
<1>7. reg' \in Seq(Labels) /\ Len(reg') = Len(reg) - 1
  BY <1>4, <1>6
<1>8. \A i \in 1..Len(reg') :
        reg'[i] = IF i < k THEN reg[i] ELSE reg[i + 1]
  BY <1>3, <1>7
<1>9. LabelsUnique'
  <2> SUFFICES ASSUME NEW i \in 1..Len(reg'), NEW j \in 1..Len(reg'),
                      reg'[i] = reg'[j]
               PROVE  i = j
    BY DEF LabelsUnique
  <2> DEFINE f == IF i < k THEN i ELSE i + 1
             g == IF j < k THEN j ELSE j + 1
  <2>1. f \in 1..Len(reg) /\ g \in 1..Len(reg)
    BY <1>1, <1>2, <1>7
  <2>2. reg'[i] = reg[f] /\ reg'[j] = reg[g]
    BY <1>8
  <2>3. f = g
    BY <2>1, <2>2 DEF LabelsUnique
  <2> QED BY <1>1, <1>2, <1>7, <2>3
<1>10. \A i \in 1..Len(reg) : i # k => reg[i] # x
  BY <1>1, <1>2 DEF LabelsUnique
<1>11. ASSUME NEW y \in Registered, y # x PROVE y \in Registered'
  <2>1. PICK i \in 1..Len(reg) : reg[i] = y
    BY <1>11 DEF Registered
  <2>2. CASE i < k
    <3>1. i \in 1..Len(reg') /\ reg'[i] = y
      BY <1>1, <1>2, <1>7, <1>8, <2>1, <2>2
    <3> QED BY <3>1 DEF Registered
  <2>3. CASE i > k
    <3>1. i - 1 \in 1..Len(reg') /\ ~(i - 1 < k) /\ (i - 1) + 1 = i
      BY <1>1, <1>2, <1>7, <2>1, <2>3
    <3>2. reg'[i - 1] = y
      BY <1>8, <2>1, <3>1
    <3> QED BY <3>1, <3>2 DEF Registered
  <2> QED BY <1>1, <1>2, <1>11, <2>1, <2>2, <2>3
<1>12. ASSUME NEW y \in Registered' PROVE y \in Registered /\ y # x
  <2>1. PICK i \in 1..Len(reg') : reg'[i] = y
    BY <1>12 DEF Registered
  <2>2. CASE i < k
    <3>1. i \in 1..Len(reg) /\ reg[i] = y /\ i # k
      BY <1>1, <1>2, <1>7, <1>8, <2>1, <2>2
    <3> QED BY <1>10, <3>1 DEF Registered
  <2>3. CASE ~(i < k)
    <3>1. i + 1 \in 1..Len(reg) /\ reg[i + 1] = y /\ i + 1 # k
      BY <1>1, <1>2, <1>7, <1>8, <2>1, <2>3
    <3> QED BY <1>10, <3>1 DEF Registered
  <2> QED BY <2>2, <2>3
<1> QED BY <1>7, <1>9, <1>11, <1>12

-----------------------------------------------------------------------------
(* What launch_job_start does to the job, the processes and the sockets.    *)
LEMMA StartEffect ==
  ASSUME TypeOK, OpenAreOwn, NEW l \in Labels, NEW st \in States,
         launch_job_start(l, st)
  PROVE  /\ l \in Registered /\ job[l].state # "running"
         /\ job' \in [Labels -> Jobs] /\ proc' \in [Pids -> Procs]
         /\ sock' \in [Paths -> Labels \cup {NoLabel, "stale"}]
         /\ \A m \in Labels : m # l => job'[m] = job[m]
         /\ job'[l].throttle = job[l].throttle
         /\ job'[l].sockets = job[l].sockets
         /\ job[l].open \subseteq job'[l].open
         /\ job'[l].open \subseteq job[l].sockets
         /\ \A s \in Paths : \/ sock'[s] = sock[s]
                             \/ sock'[s] = l /\ s \in job'[l].open
                             \/ sock'[s] = NoLabel
                             \/ sock'[s] = "stale" /\ s \in job[l].sockets
         /\ \/ \E p \in Pids : /\ proc[p].st = "free"
                               /\ proc' = [proc EXCEPT ![p] =
                                    [NoProc EXCEPT !.st = "alive", !.job = l]]
                               /\ job'[l].pid = p
                               /\ job'[l].state = "running"
            \/ /\ proc' = proc
               /\ job'[l].pid = job[l].pid
               /\ job'[l].state \in {"failed", st}
               /\ job'[l].restart_in = job[l].restart_in
<1>0. /\ job \in [Labels -> Jobs] /\ proc \in [Pids -> Procs]
      /\ sock \in [Paths -> Labels \cup {NoLabel, "stale"}]
      /\ l \in Registered /\ job[l].state # "running"
      /\ job[l].open \subseteq job[l].sockets
  BY DEF TypeOK, OpenAreOwn, launch_job_start, launch_registry_find
<1>1. CASE Spawn(l)
  <2>1. PICK p \in Pids :
          /\ proc[p].st = "free"
          /\ proc' = [proc EXCEPT ![p] = [NoProc EXCEPT !.st = "alive", !.job = l]]
          /\ job' = [job EXCEPT ![l].pid = p, ![l].state = "running",
                          ![l].restart_in = 0, ![l].open = job[l].sockets]
          /\ sock' = Bound(l, job[l].sockets)
    BY <1>1 DEF Spawn
  <2>2. [NoProc EXCEPT !.st = "alive", !.job = l] \in Procs
    BY DEF NoProc, Procs, Statuses
  <2>3. proc' \in [Pids -> Procs]
    BY <1>0, <2>1, <2>2
  <2>4. job' \in [Labels -> Jobs]
    BY <1>0, <2>1, LaunchAssumption DEF Jobs, States
  <2>5. sock' \in [Paths -> Labels \cup {NoLabel, "stale"}]
    BY <1>0, <2>1 DEF Bound
  <2> QED BY <1>0, <2>1, <2>3, <2>4, <2>5 DEF Jobs, Bound
<1>2. CASE SpawnFails(l, st)
  <2>1. CASE \E ss \in SUBSET (job[l].sockets \ job[l].open) :
             \E bad \in (job[l].sockets \ job[l].open) \ ss :
             \E left \in {sock[bad], NoLabel, "stale"} :
               /\ job' = [job EXCEPT ![l].open = job[l].open \cup ss,
                                     ![l].state = "failed"]
               /\ sock' = [Bound(l, ss) EXCEPT ![bad] = left]
    <3>a. PICK ss \in SUBSET (job[l].sockets \ job[l].open) :
             \E bad \in (job[l].sockets \ job[l].open) \ ss :
             \E left \in {sock[bad], NoLabel, "stale"} :
               /\ job' = [job EXCEPT ![l].open = job[l].open \cup ss,
                                     ![l].state = "failed"]
               /\ sock' = [Bound(l, ss) EXCEPT ![bad] = left]
      BY <2>1
    <3>b. PICK bad \in (job[l].sockets \ job[l].open) \ ss :
             \E left \in {sock[bad], NoLabel, "stale"} :
               /\ job' = [job EXCEPT ![l].open = job[l].open \cup ss,
                                     ![l].state = "failed"]
               /\ sock' = [Bound(l, ss) EXCEPT ![bad] = left]
      BY <3>a
    <3>1. PICK left \in {sock[bad], NoLabel, "stale"} :
               /\ job' = [job EXCEPT ![l].open = job[l].open \cup ss,
                                     ![l].state = "failed"]
               /\ sock' = [Bound(l, ss) EXCEPT ![bad] = left]
      BY <3>b
    <3>c. [job[l] EXCEPT !.open = job[l].open \cup ss, !.state = "failed"]
            \in Jobs
      <4>1. job[l] \in Jobs /\ job[l].open \cup ss \in SUBSET Paths
        BY <1>0, <3>1 DEF Jobs
      <4> QED BY <4>1 DEF Jobs, States
    <3>2. job' \in [Labels -> Jobs]
      BY <1>0, <3>1, <3>c
    <3>3. bad \in Paths /\ left \in Labels \cup {NoLabel, "stale"}
      BY <1>0, <3>1 DEF Jobs
    <3>4. sock' \in [Paths -> Labels \cup {NoLabel, "stale"}]
      BY <1>0, <3>1, <3>3 DEF Bound
    <3>5. proc' = proc
      BY <1>2 DEF SpawnFails
    <3>6. job'[l] = [job[l] EXCEPT !.open = job[l].open \cup ss,
                                   !.state = "failed"]
      BY <1>0, <3>1
    <3>7. \A s \in Paths : sock'[s] = IF s = bad THEN left
                               ELSE IF s \in ss \ job[l].open THEN l ELSE sock[s]
      BY <3>1, <3>3 DEF Bound
    <3>8. \A s \in Paths : \/ sock'[s] = sock[s]
                           \/ sock'[s] = l /\ s \in job'[l].open
                           \/ sock'[s] = NoLabel
                           \/ sock'[s] = "stale" /\ s \in job[l].sockets
      BY <1>0, <3>1, <3>6, <3>7 DEF Jobs
    <3> QED BY <1>0, <3>1, <3>2, <3>4, <3>5, <3>6, <3>8 DEF Jobs
  <2>2. CASE \E t \in {"failed", st} :
               /\ job' = [job EXCEPT ![l].open = job[l].sockets,
                                     ![l].state = t]
               /\ sock' = Bound(l, job[l].sockets)
    <3>1. PICK t \in {"failed", st} :
               /\ job' = [job EXCEPT ![l].open = job[l].sockets,
                                     ![l].state = t]
               /\ sock' = Bound(l, job[l].sockets)
      BY <2>2
    <3>c. [job[l] EXCEPT !.open = job[l].sockets, !.state = t] \in Jobs
      <4>1. job[l] \in Jobs /\ t \in States
        BY <1>0, <3>1 DEF States
      <4> QED BY <4>1 DEF Jobs
    <3>d. job'[l] = [job[l] EXCEPT !.open = job[l].sockets, !.state = t]
      BY <1>0, <3>1
    <3>2. job' \in [Labels -> Jobs]
      BY <1>0, <3>1, <3>c
    <3>3. sock' \in [Paths -> Labels \cup {NoLabel, "stale"}]
      BY <1>0, <3>1 DEF Bound
    <3>4. proc' = proc
      BY <1>2 DEF SpawnFails
    <3>e. job'[l].open = job[l].sockets
      BY <1>0, <3>d DEF Jobs
    <3>5. \A s \in Paths : \/ sock'[s] = sock[s]
                           \/ sock'[s] = l /\ s \in job'[l].open
      BY <3>1, <3>e DEF Bound
    <3>6. \A m \in Labels : m # l => job'[m] = job[m]
      BY <1>0, <3>1
    <3>7. /\ job'[l].throttle = job[l].throttle
          /\ job'[l].sockets = job[l].sockets
          /\ job'[l].open = job[l].sockets
          /\ job'[l].pid = job[l].pid
          /\ job'[l].state = t
          /\ job'[l].restart_in = job[l].restart_in
      BY <1>0, <3>d DEF Jobs
    <3> QED BY <1>0, <3>1, <3>2, <3>3, <3>4, <3>5, <3>6, <3>7
  <2> QED BY <1>2, <2>1, <2>2 DEF SpawnFails
<1> QED BY <1>1, <1>2 DEF launch_job_start

-----------------------------------------------------------------------------
(* The invariant holds initially and every step keeps it.                   *)
LEMMA InitInv == Init => IInv
<1> SUFFICES ASSUME Init PROVE IInv
  OBVIOUS
<1>1. NoJob \in Jobs
  BY LaunchAssumption DEF NoJob, Jobs, States, KeepAlives, Statuses
<1>2. NoProc \in Procs
  BY DEF NoProc, Procs, Statuses
<1>3. TypeOK
  BY <1>1, <1>2, LaunchAssumption DEF Init, TypeOK, Idle, Calls
<1>4. Registered = {} /\ Len(reg) = 0
  BY DEF Init, Registered
<1>5. LabelsUnique /\ PidWhileRunning /\ CallConsistent
  BY <1>4 DEF Init, LabelsUnique, PidWhileRunning, CallConsistent, Idle,
              NoJob, Looping, Stopping
<1>6. ProcOwned /\ PidOwn
  BY DEF Init, ProcOwned, PidOwn, NoProc, NoJob
<1>7. OpenAreOwn /\ NoDeadSocketPath /\ ThrottleRuns
  BY LaunchAssumption DEF Init, OpenAreOwn, NoDeadSocketPath, ThrottleRuns,
                          NoJob, Idle
<1> QED BY <1>3, <1>5, <1>6, <1>7 DEF IInv

(* Steps that leave registry and jobs alone and only move the call on keep  *)
(* everything but CallConsistent and the typing of the call for free.       *)
LEMMA CallMoves ==
  ASSUME IInv, UNCHANGED <<reg, default_throttle, job, proc, sock, dead_for>>,
         TypeOK', CallConsistent',
         call'.at = "restart" =>
           \A l \in call'.due : job[l].state = "waiting" => job[l].restart_in = 0
  PROVE  IInv'
<1>1. Registered' = Registered
  BY DEF Registered
<1>2. LabelsUnique' /\ PidWhileRunning'
  BY <1>1 DEF IInv, LabelsUnique, PidWhileRunning
<1>3. ProcOwned' /\ PidOwn'
  BY DEF IInv, ProcOwned, PidOwn
<1>4. OpenAreOwn' /\ NoDeadSocketPath' /\ ThrottleRuns'
  BY <1>1 DEF IInv, OpenAreOwn, NoDeadSocketPath, ThrottleRuns
<1> QED BY <1>2, <1>3, <1>4 DEF IInv

(* The first step of start_all, stop_all and tick only sets the loop up.    *)
LEMMA BeginStep ==
  ASSUME IInv,
         \/ BeginStartAll \/ BeginTick
         \/ \E ms \in Graces, then \in {"idle", "free"} : BeginStopAll(ms, then)
  PROVE  IInv'
<1>0. TypeOK /\ Len(reg) \in Nat
  BY DEF IInv, TypeOK
<1>1. CASE BeginStartAll \/ BeginTick
  <2>1. /\ UNCHANGED <<reg, default_throttle, job, proc, sock, dead_for>>
        /\ \E at \in {"start_all", "reap"} :
             call' = [at |-> at, i |-> 1, cur |-> NoLabel, back |-> "idle",
                      then |-> "idle", left |-> 0, grace |-> 0, due |-> {}]
    BY <1>1 DEF BeginStartAll, BeginTick, Idle
  <2>2. TypeOK'
    BY <1>0, <2>1 DEF TypeOK, Calls
  <2>3. CallConsistent'
    BY <1>0, <2>1 DEF CallConsistent, Looping, Stopping
  <2> QED BY <2>1, <2>2, <2>3, CallMoves
<1>2. ASSUME NEW ms \in Graces, NEW then \in {"idle", "free"},
             BeginStopAll(ms, then)
      PROVE  IInv'
  <2>1. /\ UNCHANGED <<reg, default_throttle, job, proc, sock, dead_for>>
        /\ call' = [at |-> "stop_all", i |-> 1, cur |-> NoLabel,
                    back |-> "idle", then |-> then, left |-> 0, grace |-> ms,
                    due |-> {}]
    BY <1>2 DEF BeginStopAll, Idle
  <2>2. TypeOK'
    BY <1>0, <2>1, LaunchAssumption DEF TypeOK, Calls
  <2>3. CallConsistent'
    BY <1>0, <2>1 DEF CallConsistent, Looping, Stopping
  <2> QED BY <2>1, <2>2, <2>3, CallMoves
<1> QED BY <1>1, <1>2

(* The part of the invariant that is not about the call in progress.        *)
JobInv ==
  /\ LabelsUnique /\ PidWhileRunning /\ ProcOwned /\ PidOwn
  /\ OpenAreOwn /\ NoDeadSocketPath
  /\ \A l \in Labels : job[l].state = "waiting" =>
       dead_for[l] + job[l].restart_in >= job[l].throttle

(* launch_job_start keeps what JobInv says of jobs, processes and sockets.  *)
LEMMA StartKeepsJobs ==
  ASSUME IInv, NEW l \in Labels, NEW st \in {"failed", "loaded", job[l].state},
         launch_job_start(l, st), UNCHANGED <<reg, dead_for>>
  PROVE  /\ JobInv'
         /\ \A m \in Labels : job'[m].state = "waiting" =>
              job[m].state = "waiting" /\ job'[m].restart_in = job[m].restart_in
<1>1. TypeOK /\ st \in States
  BY DEF IInv, TypeOK, Jobs, States
<1>2. OpenAreOwn /\ PidWhileRunning /\ ProcOwned /\ PidOwn /\ NoDeadSocketPath
  BY DEF IInv
<1> DEFINE Ran(p) == /\ proc[p].st = "free"
                     /\ proc' = [proc EXCEPT ![p] =
                          [NoProc EXCEPT !.st = "alive", !.job = l]]
                     /\ job'[l].pid = p
                     /\ job'[l].state = "running"
           Failed == /\ proc' = proc
                     /\ job'[l].pid = job[l].pid
                     /\ job'[l].state \in {"failed", st}
                     /\ job'[l].restart_in = job[l].restart_in
<1>3. /\ l \in Registered /\ job[l].state # "running"
      /\ \A m \in Labels : m # l => job'[m] = job[m]
      /\ job'[l].throttle = job[l].throttle
      /\ job'[l].sockets = job[l].sockets
      /\ job[l].open \subseteq job'[l].open
      /\ job'[l].open \subseteq job[l].sockets
      /\ \A s \in Paths : \/ sock'[s] = sock[s]
                          \/ sock'[s] = l /\ s \in job'[l].open
                          \/ sock'[s] = NoLabel
                          \/ sock'[s] = "stale" /\ s \in job[l].sockets
      /\ (\E p \in Pids : Ran(p)) \/ Failed
  BY <1>1, <1>2, StartEffect
<1>4. Registered' = Registered /\ LabelsUnique'
  BY DEF IInv, Registered, LabelsUnique
<1>5. job[l].pid = NoPid /\ NoPid \notin Pids
  BY <1>2, <1>3, LaunchAssumption DEF PidWhileRunning
<1>6. PidWhileRunning'
  BY <1>2, <1>3, <1>4, <1>5 DEF PidWhileRunning
<1>7. ProcOwned' /\ PidOwn'
  <2>1. CASE Failed
    BY <1>2, <1>3, <1>5, <2>1 DEF ProcOwned, PidOwn
  <2>2. ASSUME NEW p \in Pids, Ran(p) PROVE ProcOwned' /\ PidOwn'
    <3>1. /\ proc'[p].st = "alive" /\ proc'[p].job = l
          /\ \A q \in Pids : q # p => proc'[q] = proc[q]
      BY <1>1, <2>2 DEF NoProc, TypeOK
    <3>2. \A q \in Pids : q # p /\ proc[q].st # "free" /\
             (~proc[q].kill \/ ~Interrupts) => proc[q].job # l
      BY <1>2, <1>5 DEF ProcOwned
    <3>3. ProcOwned'
      BY <1>2, <1>3, <2>2, <3>1, <3>2 DEF ProcOwned
    <3>4. \A m \in Labels : m # l /\ job[m].state = "running" =>
            ForeignReaper \/ job[m].pid # p
      BY <1>2, <2>2 DEF PidOwn
    <3>5. \A m \in Labels : job[m].state = "running" => job[m].pid \in Pids
      BY <1>1, <1>2 DEF TypeOK, Jobs, PidWhileRunning
    <3>6. PidOwn'
      BY <1>2, <1>3, <2>2, <3>1, <3>4, <3>5 DEF PidOwn
    <3> QED BY <3>3, <3>6
  <2> QED BY <1>3, <2>1, <2>2
<1>8. OpenAreOwn'
  BY <1>2, <1>3 DEF OpenAreOwn
<1>9. NoDeadSocketPath'
  <2> SUFFICES ASSUME NEW s \in Paths
               PROVE /\ sock'[s] \in Labels => s \in job'[sock'[s]].open
                     /\ sock'[s] = "stale" =>
                          \E m \in Registered : s \in job'[m].sockets
    BY <1>4 DEF NoDeadSocketPath
  <2>1. "stale" \notin Labels /\ NoLabel \notin Labels /\ NoLabel # "stale"
    BY LaunchAssumption
  <2>2. CASE sock'[s] = sock[s]
    <3>1. /\ sock[s] \in Labels => s \in job[sock[s]].open
          /\ sock[s] = "stale" => \E m \in Registered : s \in job[m].sockets
      BY <1>2 DEF NoDeadSocketPath
    <3>2. sock[s] \in Labels => s \in job'[sock[s]].open
      BY <1>3, <3>1
    <3>3. \A m \in Registered : m \in Labels
      BY <1>1 DEF Registered, TypeOK
    <3>4. sock[s] = "stale" => \E m \in Registered : s \in job'[m].sockets
      BY <1>3, <3>1, <3>3
    <3> QED BY <2>2, <3>2, <3>4
  <2>3. CASE sock'[s] = l /\ s \in job'[l].open
    BY <2>1, <2>3
  <2>4. CASE sock'[s] = NoLabel
    BY <2>1, <2>4
  <2>5. CASE sock'[s] = "stale" /\ s \in job[l].sockets
    BY <1>3, <2>1, <2>5
  <2> QED BY <1>3, <2>2, <2>3, <2>4, <2>5
<1>10. \A m \in Labels : job'[m].state = "waiting" =>
         job[m].state = "waiting" /\ job'[m].restart_in = job[m].restart_in
  BY <1>3
<1>11. \A m \in Labels : job'[m].state = "waiting" =>
         dead_for'[m] + job'[m].restart_in >= job'[m].throttle
  <2>1. \A m \in Labels : job'[m].throttle = job[m].throttle
    BY <1>3
  <2> QED BY <1>10, <2>1 DEF IInv, ThrottleRuns
<1> QED BY <1>4, <1>6, <1>7, <1>8, <1>9, <1>10, <1>11 DEF JobInv

(* A loop that moves on to the next job keeps its type.                     *)
LEMMA NextIndex ==
  ASSUME call \in Calls, call' = [call EXCEPT !.i = @ + 1]
  PROVE  /\ call' \in Calls /\ call'.i = call.i + 1
         /\ call'.at = call.at /\ call'.back = call.back
         /\ call'.due = call.due /\ call'.cur = call.cur
BY DEF Calls

(* The idle call is a call.                                                 *)
LEMMA IdleCall ==
  /\ Idle \in Calls /\ Idle.at = "idle" /\ Idle.back = "idle"
BY DEF Idle, Calls

(* launch_job_start wherever it is called from.                             *)
LEMMA StartStep ==
  ASSUME IInv,
         \/ \E l \in Labels : Start(l)
         \/ launch_registry_start_all
         \/ TickRestart
  PROVE  IInv'
<1>0. /\ TypeOK /\ Len(reg) \in Nat /\ OpenAreOwn
      /\ \A i \in 1..Len(reg) : reg[i] \in Labels
      /\ call.back # "idle" => call.at \in Stopping
      /\ call.at \in Looping => call.i >= 1
      /\ call \in Calls /\ call.i \in Nat /\ call.due \subseteq Labels
  BY DEF IInv, TypeOK, CallConsistent, Calls
<1>1. ASSUME NEW l \in Labels, Start(l) PROVE IInv'
  <2>1. /\ launch_job_start(l, job[l].state)
        /\ UNCHANGED <<reg, default_throttle, call, dead_for>>
        /\ call.at = "idle"
    BY <1>1 DEF Start
  <2>2. job[l].state \in States
    BY <1>0 DEF TypeOK, Jobs
  <2>3. TypeOK'
    BY <1>0, <2>1, <2>2, StartEffect DEF TypeOK
  <2>4. JobInv'
    BY <2>1, StartKeepsJobs
  <2>5. CallConsistent'
    BY <1>0, <2>1 DEF CallConsistent, Looping, Stopping
  <2>6. ThrottleRuns'
    BY <2>1, <2>4 DEF JobInv, ThrottleRuns
  <2> QED BY <2>3, <2>4, <2>5, <2>6 DEF IInv, JobInv
<1>2. CASE launch_registry_start_all
  <2>0. call.at = "start_all" /\ call.back = "idle" /\ call.i >= 1
    BY <1>0, <1>2 DEF launch_registry_start_all, Looping, Stopping
  <2>1. CASE call.i > Len(reg) \/ ~(job[reg[call.i]].run_at_load
                                     /\ job[reg[call.i]].state = "loaded")
    <3>1. /\ UNCHANGED <<reg, default_throttle, job, proc, sock, dead_for>>
          /\ call' = Idle \/ call' = [call EXCEPT !.i = @ + 1]
      BY <1>2, <2>1 DEF launch_registry_start_all
    <3>2. TypeOK'
      BY <1>0, <3>1, NextIndex, IdleCall DEF TypeOK
    <3>3. CallConsistent'
      <4>1. CASE call' = Idle
        BY <4>1 DEF CallConsistent, Idle, Looping, Stopping
      <4>2. CASE call' = [call EXCEPT !.i = @ + 1]
        <5>1. call'.at = "start_all" /\ call'.back = "idle" /\ call'.i >= 1
          BY <1>0, <2>0, <4>2, NextIndex DEF TypeOK
        <5> QED BY <5>1 DEF CallConsistent, Looping, Stopping
      <4> QED BY <3>1, <4>1, <4>2
    <3>4. call'.at # "restart"
      BY <1>0, <2>0, <3>1, NextIndex, IdleCall DEF TypeOK
    <3> QED BY <3>1, <3>2, <3>3, <3>4, CallMoves
  <2>2. CASE /\ call.i <= Len(reg) /\ job[reg[call.i]].run_at_load
             /\ job[reg[call.i]].state = "loaded"
    <3> DEFINE l == reg[call.i]
    <3>1. l \in Labels
      BY <1>0, <2>0, <2>2
    <3>2. /\ launch_job_start(l, "loaded")
          /\ UNCHANGED <<reg, default_throttle, dead_for>>
          /\ call' = [call EXCEPT !.i = @ + 1]
      BY <1>0, <1>2, <2>2 DEF launch_registry_start_all
    <3> HIDE DEF l
    <3>3. /\ call'.at = "start_all" /\ call'.back = "idle" /\ call'.i >= 1
          /\ call' \in Calls
      BY <1>0, <2>0, <3>2, NextIndex
    <3>4. TypeOK'
      BY <1>0, <3>1, <3>2, <3>3, StartEffect DEF TypeOK, States
    <3>5. JobInv'
      BY <3>1, <3>2, StartKeepsJobs
    <3>6. CallConsistent' /\ ThrottleRuns'
      BY <3>3, <3>5 DEF CallConsistent, ThrottleRuns, JobInv, Looping, Stopping
    <3> QED BY <3>4, <3>5, <3>6 DEF IInv, JobInv
  <2> QED BY <1>0, <2>1, <2>2
<1>3. CASE TickRestart
  <2>0. call.at = "restart" /\ call.back = "idle" /\ call.i >= 1
    BY <1>0, <1>3 DEF TickRestart, Looping, Stopping
  <2>1. CASE call.i > Len(reg) \/ ~(/\ job[reg[call.i]].state = "waiting"
                                    /\ reg[call.i] \in call.due)
    <3>1. /\ UNCHANGED <<reg, default_throttle, job, proc, sock, dead_for>>
          /\ call' = Idle \/ call' = [call EXCEPT !.i = @ + 1]
      <4>1. CASE call.i > Len(reg)
        BY <1>0, <1>3, <4>1 DEF TickRestart
      <4>2. CASE call.i <= Len(reg)
        BY <1>0, <1>3, <2>1, <4>2 DEF TickRestart
      <4> QED BY <1>0, <4>1, <4>2
    <3>2. TypeOK'
      BY <1>0, <3>1, NextIndex, IdleCall DEF TypeOK
    <3>3. /\ CallConsistent'
          /\ call'.at = "restart" => call'.due = call.due
      <4>1. CASE call' = Idle
        BY <4>1 DEF CallConsistent, Idle, Looping, Stopping
      <4>2. CASE call' = [call EXCEPT !.i = @ + 1]
        <5>1. /\ call'.at = "restart" /\ call'.back = "idle" /\ call'.i >= 1
              /\ call'.due = call.due
          BY <1>0, <2>0, <4>2, NextIndex DEF TypeOK
        <5> QED BY <5>1 DEF CallConsistent, Looping, Stopping
      <4> QED BY <3>1, <4>1, <4>2
    <3>4. \A l \in call.due : job[l].state = "waiting" => job[l].restart_in = 0
      BY <2>0 DEF IInv, ThrottleRuns
    <3> QED BY <3>1, <3>2, <3>3, <3>4, CallMoves
  <2>2. CASE /\ call.i <= Len(reg) /\ job[reg[call.i]].state = "waiting"
             /\ reg[call.i] \in call.due
    <3> DEFINE l == reg[call.i]
    <3>1. l \in Labels
      BY <1>0, <2>0, <2>2
    <3>2. /\ launch_job_start(l, "failed")
          /\ UNCHANGED <<reg, default_throttle, dead_for>>
          /\ call' = [call EXCEPT !.i = @ + 1]
      BY <1>0, <1>3, <2>2 DEF TickRestart
    <3> HIDE DEF l
    <3>3. /\ call'.at = "restart" /\ call'.back = "idle" /\ call'.i >= 1
          /\ call'.due = call.due /\ call.due \subseteq Labels
          /\ call' \in Calls
      BY <1>0, <2>0, <3>2, NextIndex
    <3>4. TypeOK'
      BY <1>0, <3>1, <3>2, <3>3, StartEffect DEF TypeOK, States
    <3>5. JobInv'
      BY <3>1, <3>2, StartKeepsJobs
    <3>6. \A m \in Labels : job'[m].state = "waiting" =>
            job[m].state = "waiting" /\ job'[m].restart_in = job[m].restart_in
      BY <3>1, <3>2, StartKeepsJobs
    <3>7. CallConsistent'
      BY <3>3 DEF CallConsistent, Looping, Stopping
    <3>8. ThrottleRuns'
      BY <2>0, <3>3, <3>5, <3>6 DEF IInv, ThrottleRuns, JobInv
    <3> QED BY <3>4, <3>5, <3>7, <3>8 DEF IInv, JobInv
  <2> QED BY <1>0, <2>1, <2>2
<1> QED BY <1>1, <1>2, <1>3

-----------------------------------------------------------------------------
(* A registered job is left without a process: stopped, exited or waiting.  *)
(* Its process, if it had one, is reaped, or unknown to the kernel, or was  *)
(* sent SIGKILL and left behind by an interrupted wait.                     *)
LEMMA JobEnds ==
  ASSUME IInv, NEW l \in Registered, NEW j \in Jobs,
         job' = [job EXCEPT ![l] = j],
         j.pid = NoPid, j.state # "running", j.sockets = job[l].sockets,
         j.open = job[l].open, j.throttle = job[l].throttle,
         j.state = "waiting" => j.restart_in >= j.throttle,
         UNCHANGED <<reg, sock, dead_for>>,
         \/ /\ proc' = proc
            /\ job[l].state = "running" =>
                 \/ proc[job[l].pid].st = "free"
                 \/ Interrupts /\ proc[job[l].pid].kill
         \/ /\ job[l].state = "running"
            /\ proc' = [proc EXCEPT ![job[l].pid] = NoProc]
  PROVE  /\ JobInv'
         /\ job' \in [Labels -> Jobs] /\ proc' \in [Pids -> Procs]
         /\ job'[l] = j
         /\ \A m \in Labels : m # l => job'[m] = job[m]
<1>1. /\ TypeOK /\ PidWhileRunning /\ ProcOwned /\ PidOwn /\ OpenAreOwn
      /\ NoDeadSocketPath
  BY DEF IInv
<1>2. /\ l \in Labels /\ job \in [Labels -> Jobs] /\ proc \in [Pids -> Procs]
      /\ Registered \subseteq Labels
  BY <1>1 DEF TypeOK, Registered
<1>3. NoProc \in Procs /\ NoProc.st = "free"
  BY DEF NoProc, Procs, Statuses
<1>4. /\ job' \in [Labels -> Jobs] /\ proc' \in [Pids -> Procs]
      /\ job'[l] = j /\ \A m \in Labels : m # l => job'[m] = job[m]
  BY <1>2, <1>3
<1>5. Registered' = Registered /\ LabelsUnique'
  BY DEF IInv, Registered, LabelsUnique
<1>6. PidWhileRunning'
  BY <1>1, <1>4, <1>5 DEF PidWhileRunning
<1>7. /\ NoPid \notin Pids
      /\ \A m \in Labels : job[m].state = "running" => job[m].pid \in Pids
  BY <1>1, <1>2, LaunchAssumption DEF PidWhileRunning, Jobs
<1>8. \A q \in Pids : proc'[q].st # "free" =>
        /\ proc'[q] = proc[q]
        /\ \/ job[l].pid # q
           \/ Interrupts /\ proc[q].kill
  BY <1>1, <1>2, <1>3, <1>7 DEF PidWhileRunning
<1>9. ProcOwned'
  BY <1>1, <1>4, <1>8 DEF ProcOwned
<1>10. PidOwn'
  <2> SUFFICES ASSUME ~ForeignReaper, NEW m \in Labels,
                      job'[m].state = "running"
               PROVE  proc'[job'[m].pid].st # "free" /\ proc'[job'[m].pid].job = m
    BY DEF PidOwn
  <2>1. m # l /\ job'[m] = job[m]
    BY <1>4
  <2>2. /\ job[m].pid \in Pids /\ proc[job[m].pid].st # "free"
        /\ proc[job[m].pid].job = m
    BY <1>1, <1>7, <2>1 DEF PidOwn
  <2>3. job[l].state = "running" => job[l].pid # job[m].pid
    BY <1>1, <1>2, <2>1, <2>2 DEF PidOwn
  <2>4. proc'[job[m].pid] = proc[job[m].pid]
    BY <1>2, <2>2, <2>3
  <2> QED BY <2>1, <2>2, <2>4
<1>11. OpenAreOwn' /\ NoDeadSocketPath'
  <2>1. \A m \in Labels : /\ job'[m].open = job[m].open
                          /\ job'[m].sockets = job[m].sockets
    BY <1>4
  <2>2. OpenAreOwn'
    BY <1>1, <2>1 DEF OpenAreOwn
  <2>3. NoDeadSocketPath'
    BY <1>1, <1>2, <1>5, <2>1 DEF NoDeadSocketPath
  <2> QED BY <2>2, <2>3
<1>12. \A m \in Labels : job'[m].state = "waiting" =>
         dead_for'[m] + job'[m].restart_in >= job'[m].throttle
  <2>1. dead_for \in [Labels -> Nat]
    BY <1>1, LaunchAssumption DEF TypeOK
  <2>2. j.throttle \in Nat /\ j.restart_in \in Nat
    BY LaunchAssumption DEF Jobs
  <2> QED BY <1>2, <1>4, <2>1, <2>2 DEF IInv, ThrottleRuns
<1> QED BY <1>4, <1>5, <1>6, <1>9, <1>10, <1>11, <1>12 DEF JobInv

(* Sending a signal to a process changes none of what the invariant says of *)
(* processes, except that SIGKILL may be followed by an interrupted wait.   *)
LEMMA KillKeeps ==
  ASSUME IInv, NEW p \in Pids, NEW sig \in {"TERM", "KILL"},
         proc' = kill(p, sig), UNCHANGED <<reg, job, sock, dead_for>>
  PROVE  JobInv' /\ proc' \in [Pids -> Procs]
<1>1. proc \in [Pids -> Procs] /\ TypeOK
  BY DEF IInv, TypeOK
<1>2. proc' \in [Pids -> Procs]
  BY <1>1 DEF kill, Procs
<1>3. \A q \in Pids : /\ proc'[q].st = proc[q].st /\ proc'[q].job = proc[q].job
                      /\ proc[q].kill => proc'[q].kill
  <2>1. \A q \in Pids : \/ proc'[q] = proc[q]
                        \/ proc'[q] = [proc[q] EXCEPT !.term = TRUE]
                        \/ proc'[q] = [proc[q] EXCEPT !.kill = TRUE]
    BY <1>1 DEF kill
  <2>2. ASSUME NEW q \in Pids
        PROVE  /\ proc'[q].st = proc[q].st /\ proc'[q].job = proc[q].job
               /\ proc[q].kill => proc'[q].kill
    <3>1. proc[q] \in Procs
      BY <1>1
    <3> QED BY <2>1, <3>1 DEF Procs
  <2> QED BY <2>2
<1>4. Registered' = Registered
  BY DEF Registered
<1>5. LabelsUnique' /\ PidWhileRunning' /\ OpenAreOwn' /\ NoDeadSocketPath'
  BY <1>4 DEF IInv, LabelsUnique, PidWhileRunning, OpenAreOwn, NoDeadSocketPath
<1>6. ProcOwned'
  BY <1>3 DEF IInv, ProcOwned
<1>7. PidOwn'
  <2>1. \A l \in Labels : job[l].state = "running" => job[l].pid \in Pids
    BY <1>1 DEF IInv, TypeOK, Jobs, PidWhileRunning
  <2> QED BY <1>3, <2>1 DEF IInv, PidOwn
<1>8. \A m \in Labels : job'[m].state = "waiting" =>
         dead_for'[m] + job'[m].restart_in >= job'[m].throttle
  BY DEF IInv, ThrottleRuns
<1> QED BY <1>2, <1>5, <1>6, <1>7, <1>8 DEF JobInv

-----------------------------------------------------------------------------
(* The steps of launch_job_stop.                                            *)
LEMMA StopCallStep ==
  ASSUME IInv, NEW l \in Registered, NEW ms \in Nat,
         NEW back \in {"idle", "remove", "stop_all"},
         launch_job_stop(l, ms, back),
         UNCHANGED <<reg, default_throttle, sock, dead_for>>,
         back # "idle" => job[l].state = "running",
         \/ call.at = "stop_all" /\ back = "stop_all"
         \/ call.at = "idle" /\ back # "stop_all"
  PROVE  IInv'
<1>1. /\ TypeOK /\ l \in Labels /\ PidWhileRunning /\ CallConsistent
      /\ job \in [Labels -> Jobs] /\ call \in Calls /\ Len(reg) \in Nat
      /\ Registered' = Registered /\ Registered \subseteq Labels
  BY DEF IInv, TypeOK, Registered
<1>2. CASE job[l].state # "running"
  <2> DEFINE j == [job[l] EXCEPT !.state = "stopped", !.restart_in = 0]
  <2>1. job' = [job EXCEPT ![l] = j] /\ call' = Idle /\ proc' = proc
    BY <1>1, <1>2 DEF launch_job_stop
  <2>2. j \in Jobs
    <3>1. job[l] \in Jobs /\ 0 \in 0..MaxThrottle /\ "stopped" \in States
      BY <1>1, LaunchAssumption DEF States
    <3> QED BY <3>1 DEF Jobs
  <2>3. /\ j.pid = NoPid /\ j.state = "stopped"
        /\ j.sockets = job[l].sockets /\ j.open = job[l].open
        /\ j.throttle = job[l].throttle
    BY <1>1, <1>2 DEF Jobs, PidWhileRunning
  <2> HIDE DEF j
  <2>4. JobInv' /\ job' \in [Labels -> Jobs]
    BY <1>2, <2>1, <2>2, <2>3, JobEnds
  <2>5. TypeOK'
    BY <1>1, <2>1, <2>4, IdleCall DEF TypeOK
  <2>6. CallConsistent' /\ ThrottleRuns'
    BY <2>1, <2>4, IdleCall DEF CallConsistent, ThrottleRuns, JobInv, Looping,
                                Stopping
  <2> QED BY <2>4, <2>5, <2>6 DEF IInv, JobInv
<1>3. CASE job[l].state = "running"
  <2>1. job[l].pid # NoPid /\ job[l].pid \in Pids
    BY <1>1, <1>3 DEF PidWhileRunning, Jobs
  <2>2. /\ proc' = kill(job[l].pid, "TERM") /\ job' = job
        /\ call' = [call EXCEPT !.at = "poll", !.cur = l, !.back = back,
                                !.left = ms]
    BY <1>3, <2>1 DEF launch_job_stop
  <2>3. JobInv' /\ proc' \in [Pids -> Procs]
    BY <2>1, <2>2, KillKeeps
  <2>4. /\ call' \in Calls /\ call'.at = "poll" /\ call'.cur = l
        /\ call'.back = back /\ call'.i = call.i
    BY <1>1, <2>2 DEF Calls
  <2>5. TypeOK'
    BY <1>1, <2>2, <2>3, <2>4 DEF TypeOK
  <2>6. CallConsistent'
    BY <1>1, <1>3, <2>2, <2>4 DEF CallConsistent, Looping, Stopping
  <2>7. ThrottleRuns'
    BY <2>3, <2>4 DEF ThrottleRuns, JobInv
  <2> QED BY <2>3, <2>5, <2>6, <2>7 DEF IInv, JobInv
<1> QED BY <1>2, <1>3

(* The end of launch_job_stop, from whichever wait it is reached.           *)
LEMMA StopDoneStep ==
  ASSUME IInv, NEW st \in Statuses, StopDone(st), call.at \in Stopping,
         UNCHANGED <<reg, default_throttle, sock, dead_for>>,
         LET p == job[call.cur].pid IN
         \/ /\ proc' = proc
            /\ proc[p].st = "free" \/ (Interrupts /\ proc[p].kill)
         \/ proc' = [proc EXCEPT ![p] = NoProc]
  PROVE  IInv'
<1> DEFINE l == call.cur
           j == [job[l] EXCEPT !.pid = NoPid, !.last_exit = st,
                               !.state = "stopped", !.restart_in = 0]
<1>a. /\ TypeOK /\ CallConsistent
      /\ job \in [Labels -> Jobs] /\ call \in Calls /\ Len(reg) \in Nat
      /\ \A k \in 1..Len(reg) : reg[k] \in Labels
  BY DEF IInv, TypeOK
<1>b. Registered' = Registered /\ Registered \subseteq Labels
  BY <1>a DEF Registered
<1>c. l \in Registered /\ job[l].state = "running"
  BY <1>a DEF CallConsistent
<1>1. /\ TypeOK /\ CallConsistent
      /\ job \in [Labels -> Jobs] /\ call \in Calls /\ Len(reg) \in Nat
      /\ Registered' = Registered /\ Registered \subseteq Labels
      /\ l \in Registered /\ job[l].state = "running"
      /\ \A k \in 1..Len(reg) : reg[k] \in Labels
  BY <1>a, <1>b, <1>c
<1>2. job' = [job EXCEPT ![l] = j]
  BY <1>1 DEF StopDone
<1>3. j \in Jobs
  <2>1. job[l] \in Jobs /\ 0 \in 0..MaxThrottle /\ "stopped" \in States
    BY <1>1, LaunchAssumption DEF States
  <2> QED BY <2>1 DEF Jobs
<1>4. /\ j.pid = NoPid /\ j.state = "stopped"
      /\ j.sockets = job[l].sockets /\ j.open = job[l].open
      /\ j.throttle = job[l].throttle
  BY <1>1 DEF Jobs
<1>5. /\ JobInv' /\ job' \in [Labels -> Jobs] /\ proc' \in [Pids -> Procs]
      /\ job'[l] = j /\ \A m \in Labels : m # l => job'[m] = job[m]
  <2> HIDE DEF j
  <2> QED BY <1>1, <1>2, <1>3, <1>4, JobEnds
<1>6. CASE call.back = "idle"
  <2>1. call' = Idle
    BY <1>6 DEF StopDone
  <2>2. TypeOK'
    BY <1>1, <1>5, <2>1, IdleCall DEF TypeOK
  <2>3. CallConsistent' /\ ThrottleRuns'
    BY <1>5, <2>1, IdleCall DEF CallConsistent, ThrottleRuns, JobInv, Looping,
                                Stopping
  <2> QED BY <1>5, <2>2, <2>3 DEF IInv, JobInv
<1>7. CASE call.back # "idle"
  <2>1. call' = [call EXCEPT !.at = call.back, !.back = "idle", !.left = 0]
    BY <1>7 DEF StopDone
  <2>2. /\ call' \in Calls /\ call'.at = call.back /\ call'.back = "idle"
        /\ call'.cur = l /\ call'.i = call.i
        /\ call.back \in {"remove", "stop_all"}
    BY <1>1, <1>7, <2>1 DEF Calls
  <2>3. TypeOK'
    BY <1>1, <1>5, <2>2 DEF TypeOK
  <2>4. \A m \in Labels : job[m].state # "running" => job'[m].state # "running"
    BY <1>4, <1>5
  <2>5. CallConsistent'
    <3>1. call.back = "stop_all" => call'.i >= 1
      BY <1>1, <2>2 DEF CallConsistent
    <3>2. call.back = "remove" =>
            call'.cur \in Registered' /\ job'[call'.cur].state # "running"
      BY <1>1, <1>4, <1>5, <2>2
    <3>3. call.back = "stop_all" =>
            \A k \in 1..Len(reg) : k < call'.i => job'[reg[k]].state # "running"
      BY <1>1, <2>2, <2>4 DEF CallConsistent
    <3> QED BY <2>2, <3>1, <3>2, <3>3 DEF CallConsistent, Looping, Stopping
  <2>6. ThrottleRuns'
    BY <1>5, <2>2 DEF ThrottleRuns, JobInv
  <2> QED BY <1>5, <2>3, <2>5, <2>6 DEF IInv, JobInv
<1> QED BY <1>6, <1>7

(* Every step of launch_job_stop and of stop_all keeps the invariant.       *)
LEMMA StopStep ==
  ASSUME IInv,
         \/ \E l \in Labels, ms \in Graces : Stop(l, ms)
         \/ \E l \in Labels, ms \in Graces : launch_registry_unload(l, ms)
         \/ StopPoll \/ Escalate \/ KillWait \/ launch_registry_stop_all
  PROVE  IInv'
<1>1. /\ TypeOK /\ CallConsistent /\ PidWhileRunning
      /\ job \in [Labels -> Jobs] /\ call \in Calls /\ Len(reg) \in Nat
      /\ proc \in [Pids -> Procs]
      /\ \A k \in 1..Len(reg) : reg[k] \in Labels
      /\ \A ms \in Graces : ms \in Nat
  BY LaunchAssumption DEF IInv, TypeOK
<1>2. call.at \in Stopping => /\ call.cur \in Labels
                              /\ job[call.cur].state = "running"
                              /\ job[call.cur].pid \in Pids
  <2>1. Registered \subseteq Labels
    BY <1>1 DEF Registered
  <2>2. call.at \in Stopping => /\ call.cur \in Labels
                                /\ job[call.cur].state = "running"
    BY <1>1, <2>1 DEF CallConsistent
  <2> QED BY <1>1, <2>2 DEF PidWhileRunning, Jobs
<1>3. ASSUME NEW l \in Labels, NEW ms \in Graces, Stop(l, ms) PROVE IInv'
  BY <1>1, <1>3, StopCallStep DEF Stop, launch_registry_find
<1>4. ASSUME NEW l \in Labels, NEW ms \in Graces,
             launch_registry_unload(l, ms)
      PROVE  IInv'
  <2>1. CASE job[l].state = "running"
    BY <1>1, <1>4, <2>1, StopCallStep
       DEF launch_registry_unload, launch_registry_find
  <2>2. CASE job[l].state # "running"
    <3>1. /\ call' = [at |-> "remove", i |-> 0, cur |-> l, back |-> "idle",
                      then |-> "idle", left |-> 0, grace |-> 0, due |-> {}]
          /\ UNCHANGED <<reg, default_throttle, job, proc, sock, dead_for>>
          /\ l \in Registered
      BY <1>4, <2>2 DEF launch_registry_unload, launch_registry_find, Idle
    <3>2. TypeOK'
      BY <1>1, <3>1 DEF TypeOK, Calls
    <3>3. Registered' = Registered
      BY <3>1 DEF Registered
    <3>4. CallConsistent'
      BY <2>2, <3>1, <3>3 DEF CallConsistent, Looping, Stopping
    <3> QED BY <3>1, <3>2, <3>4, CallMoves
  <2> QED BY <2>1, <2>2
<1>5. CASE StopPoll
  <2> DEFINE p == job[call.cur].pid
  <2>1. /\ call.at = "poll" /\ p \in Pids
        /\ UNCHANGED <<reg, default_throttle, sock, dead_for>>
    BY <1>2, <1>5 DEF StopPoll, Stopping
  <2>2. proc[p].status \in Statuses /\ job[call.cur].last_exit \in Statuses
    BY <1>1, <1>2, <2>1 DEF Procs, Jobs, Stopping
  <2>3. CASE /\ proc' = [proc EXCEPT ![p] = NoProc]
             /\ StopDone(proc[p].status)
    BY <2>1, <2>2, <2>3, StopDoneStep DEF Stopping
  <2>4. CASE /\ proc[p].st = "free" /\ proc' = proc
             /\ StopDone(job[call.cur].last_exit)
    BY <2>1, <2>2, <2>4, StopDoneStep DEF Stopping
  <2>5. CASE /\ call' = [call EXCEPT !.at = "escalate"]
             /\ UNCHANGED <<job, proc>>
    <3>1. /\ call' \in Calls /\ call'.at = "escalate" /\ call'.cur = call.cur
          /\ call'.i = call.i /\ call'.back = call.back
      BY <1>1, <2>5 DEF Calls
    <3>2. TypeOK'
      BY <1>1, <2>1, <2>5, <3>1 DEF TypeOK
    <3>3. Registered' = Registered
      BY <2>1 DEF Registered
    <3>4. CallConsistent'
      BY <1>1, <2>1, <2>5, <3>1, <3>3 DEF CallConsistent, Looping, Stopping
    <3> QED BY <2>1, <2>5, <3>1, <3>2, <3>4, CallMoves
  <2> QED BY <1>5, <2>3, <2>4, <2>5 DEF StopPoll
<1>6. CASE Escalate
  <2>1. /\ call.at = "escalate" /\ proc' = kill(job[call.cur].pid, "KILL")
        /\ call' = [call EXCEPT !.at = "killwait"]
        /\ UNCHANGED <<reg, default_throttle, job, sock, dead_for>>
        /\ job[call.cur].pid \in Pids
    BY <1>2, <1>6 DEF Escalate, Stopping
  <2>2. JobInv' /\ proc' \in [Pids -> Procs]
    BY <2>1, KillKeeps
  <2>3. /\ call' \in Calls /\ call'.at = "killwait" /\ call'.cur = call.cur
        /\ call'.i = call.i /\ call'.back = call.back
    BY <1>1, <2>1 DEF Calls
  <2>4. TypeOK'
    BY <1>1, <2>1, <2>2, <2>3 DEF TypeOK
  <2>5. LET p == job[call.cur].pid IN proc'[p].st = "free" \/ proc'[p].kill
    <3>1. proc[job[call.cur].pid] \in Procs
      BY <1>1, <2>1
    <3> QED BY <1>1, <2>1, <3>1 DEF kill, Procs
  <2>6. Registered' = Registered
    BY <2>1 DEF Registered
  <2>7. CallConsistent'
    BY <1>1, <2>1, <2>3, <2>5, <2>6 DEF CallConsistent, Looping, Stopping
  <2>8. ThrottleRuns'
    BY <2>2, <2>3 DEF ThrottleRuns, JobInv
  <2> QED BY <2>2, <2>4, <2>7, <2>8 DEF IInv, JobInv
<1>7. CASE KillWait
  <2> DEFINE p == job[call.cur].pid
  <2>1. /\ call.at = "killwait" /\ StopDone("signal") /\ "signal" \in Statuses
        /\ UNCHANGED <<reg, default_throttle, sock, dead_for>>
    BY <1>7 DEF KillWait, Statuses
  <2>2. proc[p].st = "free" \/ proc[p].kill
    BY <1>1, <2>1 DEF CallConsistent
  <2>3. \/ /\ proc' = proc
           /\ proc[p].st = "free" \/ (Interrupts /\ proc[p].kill)
        \/ proc' = [proc EXCEPT ![p] = NoProc]
    BY <1>7, <2>2 DEF KillWait
  <2> QED BY <2>1, <2>3, StopDoneStep DEF Stopping
<1>8. CASE launch_registry_stop_all
  <2>1. /\ call.at = "stop_all" /\ call.i >= 1 /\ call.back = "idle"
        /\ call.i \in Nat /\ call.grace \in Nat
        /\ UNCHANGED <<reg, default_throttle, sock, dead_for>>
        /\ \A k \in 1..Len(reg) : k < call.i => job[reg[k]].state # "running"
    BY <1>1, <1>8 DEF launch_registry_stop_all, CallConsistent, Looping,
                      Stopping, Calls
  <2>2. CASE call.i > Len(reg) /\ UNCHANGED <<job, proc>> /\ call' = Idle
    <3>1. TypeOK'
      BY <1>1, <2>1, <2>2, IdleCall DEF TypeOK
    <3>2. CallConsistent' /\ call'.at = "idle"
      BY <2>2, IdleCall DEF CallConsistent, Looping, Stopping
    <3> QED BY <2>1, <2>2, <3>1, <3>2, CallMoves
  <2>3. CASE /\ call.i > Len(reg) /\ UNCHANGED <<job, proc>>
             /\ call' = [call EXCEPT !.at = "free"]
    <3>1. call' \in Calls /\ call'.at = "free" /\ call'.back = "idle"
      BY <1>1, <2>1, <2>3 DEF Calls
    <3>2. TypeOK'
      BY <1>1, <2>1, <2>3, <3>1 DEF TypeOK
    <3>3. \A k \in 1..Len(reg) : job[reg[k]].state # "running"
      BY <1>1, <2>1, <2>3
    <3>4. \A l \in Labels : l \notin Registered => job[l].state # "running"
      BY <1>1 DEF PidWhileRunning
    <3>5. \A l \in Labels : job[l].state # "running"
      BY <3>3, <3>4 DEF Registered
    <3>6. CallConsistent'
      BY <2>3, <3>1, <3>5 DEF CallConsistent, Looping, Stopping
    <3> QED BY <2>1, <2>3, <3>1, <3>2, <3>6, CallMoves
  <2>4. CASE /\ call.i <= Len(reg) /\ job[reg[call.i]].state = "running"
             /\ launch_job_stop(reg[call.i], call.grace, "stop_all")
    <3>1. reg[call.i] \in Registered
      BY <1>1, <2>1, <2>4 DEF Registered
    <3> QED BY <2>1, <2>4, <3>1, StopCallStep
  <2>5. CASE /\ call.i <= Len(reg) /\ job[reg[call.i]].state # "running"
             /\ call' = [call EXCEPT !.i = @ + 1] /\ UNCHANGED <<job, proc>>
    <3>1. /\ call' \in Calls /\ call'.at = "stop_all" /\ call'.back = "idle"
          /\ call'.i = call.i + 1
      BY <1>1, <2>1, <2>5, NextIndex
    <3>2. TypeOK'
      BY <1>1, <2>1, <2>5, <3>1 DEF TypeOK
    <3>3. \A k \in 1..Len(reg) : k < call.i + 1 => job[reg[k]].state # "running"
      BY <1>1, <2>1, <2>5
    <3>4. CallConsistent'
      BY <2>1, <2>5, <3>1, <3>3 DEF CallConsistent, Looping, Stopping
    <3> QED BY <2>1, <2>5, <3>1, <3>2, <3>4, CallMoves
  <2> QED BY <1>8, <2>2, <2>3, <2>4, <2>5 DEF launch_registry_stop_all
<1> QED BY <1>3, <1>4, <1>5, <1>6, <1>7, <1>8

-----------------------------------------------------------------------------
(* Loading, unloading and freeing.                                          *)

(* A path that is unlinked leads nowhere; the others are as before.         *)
LEMMA UnlinkedPaths ==
  ASSUME TypeOK, NEW ss, sock' = Unlinked(ss)
  PROVE  /\ sock' \in [Paths -> Labels \cup {NoLabel, "stale"}]
         /\ \A s \in Paths : sock'[s] = IF s \in ss THEN NoLabel ELSE sock[s]
BY DEF TypeOK, Unlinked

(* launch_registry_load_plist and set_default_throttle keep the invariant.  *)
LEMMA LoadStep ==
  ASSUME IInv,
         \/ \E f \in Plists : launch_registry_load_plist(f)
         \/ \E ms \in DefaultThrottles : launch_registry_set_default_throttle(ms)
  PROVE  IInv'
<1>1. /\ TypeOK /\ LabelsUnique /\ PidWhileRunning /\ CallConsistent
      /\ ProcOwned /\ PidOwn /\ OpenAreOwn /\ NoDeadSocketPath /\ ThrottleRuns
      /\ job \in [Labels -> Jobs] /\ Registered \subseteq Labels
      /\ NoLabel \notin Labels /\ NoLabel # "stale"
  BY LaunchAssumption DEF IInv, TypeOK, Registered
<1>2. ASSUME NEW f \in Plists, launch_registry_load_plist(f) PROVE IInv'
  <2> DEFINE d == DefOf[f]
             j == job_from_plist(d)
  <2>1. /\ d \in Defs /\ call.at = "idle"
        /\ UNCHANGED <<default_throttle, call, proc, dead_for>>
        /\ d.ThrottleInterval # <<>> => d.ThrottleInterval[1] <= MaxThrottle
    BY <1>2, LaunchAssumption DEF launch_registry_load_plist
  <2>2. call.back = "idle" /\ CallConsistent'
    BY <1>1, <2>1 DEF CallConsistent, Looping, Stopping
  <2>3. CASE /\ d.label \notin Registered /\ reg' = Append(reg, d.label)
             /\ job' = [job EXCEPT ![d.label] = j] /\ sock' = sock
    <3> DEFINE x == d.label
    <3>1. x \in Labels /\ x \notin Registered
      BY <2>1, <2>3 DEF Defs
    <3>2. reg' \in Seq(Labels) /\ LabelsUnique' /\ Registered' = Registered \cup {x}
      BY <1>1, <2>3, <3>1, AppendReg
    <3>3. ThrottleOf(d) \in 0..MaxThrottle
      BY <1>1, <2>1, LaunchAssumption DEF ThrottleOf, TypeOK, Defs
    <3>4. parse_keepalive(d.KeepAlive) \in KeepAlives
      BY DEF parse_keepalive, KeepAlives
    <3>5. d.RunAtLoad \in BOOLEAN /\ d.Sockets \in SUBSET Paths
      BY <2>1 DEF Defs
    <3>6. /\ NoJob \in Jobs /\ NoJob.pid = NoPid /\ NoJob.state = "loaded"
          /\ NoJob.open = {}
      BY LaunchAssumption DEF NoJob, Jobs, States, KeepAlives, Statuses
    <3> HIDE DEF d
    <3>7. j \in Jobs
      BY <3>3, <3>4, <3>5, <3>6 DEF Jobs, job_from_plist
    <3>8. /\ j.pid = NoPid /\ j.state = "loaded" /\ j.open = {}
      BY <3>6 DEF Jobs, job_from_plist
    <3> HIDE DEF d, j, x
    <3>9. /\ job' \in [Labels -> Jobs] /\ job'[x] = j
          /\ \A m \in Labels : m # x => job'[m] = job[m]
      BY <1>1, <2>3, <3>1, <3>7 DEF x
    <3>10. TypeOK'
      BY <1>1, <2>1, <2>3, <3>2, <3>9 DEF TypeOK
    <3>11. /\ job[x].pid = NoPid /\ job[x].open = {}
           /\ job[x].state # "running"
      BY <1>1, <3>1 DEF PidWhileRunning
    <3>12. PidWhileRunning'
      BY <1>1, <3>1, <3>2, <3>8, <3>9, LaunchAssumption DEF PidWhileRunning
    <3>13. ProcOwned'
      BY <1>1, <2>1, <3>9, <3>11, LaunchAssumption DEF ProcOwned
    <3>14. PidOwn'
      BY <1>1, <2>1, <3>8, <3>9 DEF PidOwn
    <3>15. OpenAreOwn'
      BY <1>1, <3>8, <3>9 DEF OpenAreOwn
    <3>16. NoDeadSocketPath'
      BY <1>1, <2>3, <3>1, <3>2, <3>9, <3>11 DEF NoDeadSocketPath
    <3>17. ThrottleRuns'
      BY <1>1, <2>1, <3>8, <3>9 DEF ThrottleRuns
    <3> QED BY <2>2, <3>2, <3>10, <3>12, <3>13, <3>14, <3>15, <3>16, <3>17
            DEF IInv
  <2>4. ASSUME NEW ss \in SUBSET d.Sockets, sock' = Unlinked(ss),
               UNCHANGED <<reg, job>>
        PROVE  IInv'
    <3> HIDE DEF d
    <3>1. /\ sock' \in [Paths -> Labels \cup {NoLabel, "stale"}]
          /\ \A s \in Paths : sock'[s] = NoLabel \/ sock'[s] = sock[s]
      BY <1>1, <2>4, UnlinkedPaths
    <3>2. TypeOK'
      BY <1>1, <2>1, <2>4, <3>1 DEF TypeOK
    <3>3. Registered' = Registered
      BY <2>4 DEF Registered
    <3>4. NoDeadSocketPath'
      BY <1>1, <2>4, <3>1, <3>3 DEF NoDeadSocketPath
    <3>5. LabelsUnique' /\ PidWhileRunning'
      BY <1>1, <2>4, <3>3 DEF LabelsUnique, PidWhileRunning
    <3>6. ProcOwned' /\ PidOwn' /\ OpenAreOwn' /\ ThrottleRuns'
      BY <1>1, <2>1, <2>4 DEF ProcOwned, PidOwn, OpenAreOwn, ThrottleRuns
    <3> QED BY <2>2, <3>2, <3>4, <3>5, <3>6 DEF IInv
  <2> QED BY <1>2, <2>3, <2>4 DEF launch_registry_load_plist, launch_registry_find
<1>3. ASSUME NEW ms \in DefaultThrottles,
             launch_registry_set_default_throttle(ms)
      PROVE  IInv'
  <2>1. UNCHANGED <<reg, job, call, proc, sock, dead_for>> /\ default_throttle' = ms
    BY <1>3 DEF launch_registry_set_default_throttle
  <2>2. TypeOK'
    BY <1>1, <2>1, LaunchAssumption DEF TypeOK
  <2>3. Registered' = Registered
    BY <2>1 DEF Registered
  <2>4. LabelsUnique' /\ PidWhileRunning' /\ NoDeadSocketPath'
    BY <1>1, <2>1, <2>3 DEF LabelsUnique, PidWhileRunning, NoDeadSocketPath
  <2>5. CallConsistent'
    BY <1>1, <2>1, <2>3 DEF CallConsistent
  <2>6. ProcOwned' /\ PidOwn' /\ OpenAreOwn' /\ ThrottleRuns'
    BY <1>1, <2>1 DEF ProcOwned, PidOwn, OpenAreOwn, ThrottleRuns
  <2> QED BY <2>2, <2>4, <2>5, <2>6 DEF IInv
<1> QED BY <1>2, <1>3

(* unload, job_free and the end of launch_registry_free keep the invariant. *)
LEMMA FreeStep ==
  ASSUME IInv, job_free \/ launch_registry_free
  PROVE  IInv'
<1>1. /\ TypeOK /\ LabelsUnique /\ PidWhileRunning /\ CallConsistent
      /\ ProcOwned /\ PidOwn /\ OpenAreOwn /\ NoDeadSocketPath /\ ThrottleRuns
      /\ job \in [Labels -> Jobs] /\ Registered \subseteq Labels
      /\ NoLabel \notin Labels /\ NoLabel # "stale" /\ NoPid \notin Pids
  BY LaunchAssumption DEF IInv, TypeOK, Registered
<1>2. /\ NoJob \in Jobs /\ NoJob.state = "loaded" /\ NoJob.pid = NoPid
      /\ NoJob.open = {} /\ NoJob.sockets = {}
  BY LaunchAssumption DEF NoJob, Jobs, States, KeepAlives, Statuses
<1>3. CASE job_free
  <2> DEFINE l == call.cur
  <2>1. /\ call.at = "remove" /\ reg' = Without(l)
        /\ job' = [job EXCEPT ![l] = NoJob]
        /\ sock' = Unlinked(job[l].sockets) /\ call' = Idle
        /\ UNCHANGED <<default_throttle, proc, dead_for>>
    BY <1>3 DEF job_free
  <2>2. l \in Registered /\ l \in Labels /\ job[l].state # "running"
    BY <1>1, <2>1 DEF CallConsistent
  <2> HIDE DEF l
  <2>3. reg' \in Seq(Labels) /\ LabelsUnique' /\ Registered' = Registered \ {l}
    BY <1>1, <2>1, <2>2, WithoutReg
  <2>4. /\ sock' \in [Paths -> Labels \cup {NoLabel, "stale"}]
        /\ \A s \in Paths : sock'[s] = IF s \in job[l].sockets THEN NoLabel
                                                               ELSE sock[s]
    BY <1>1, <2>1, UnlinkedPaths
  <2>5. /\ job' \in [Labels -> Jobs] /\ job'[l] = NoJob
        /\ \A m \in Labels : m # l => job'[m] = job[m]
    BY <1>1, <1>2, <2>1, <2>2
  <2>6. TypeOK'
    BY <1>1, <2>1, <2>3, <2>4, <2>5, IdleCall DEF TypeOK
  <2>7. PidWhileRunning'
    BY <1>1, <1>2, <2>3, <2>5 DEF PidWhileRunning
  <2>8. job[l].pid = NoPid
    BY <1>1, <2>2 DEF PidWhileRunning
  <2>9. ProcOwned'
    BY <1>1, <2>1, <2>5, <2>8 DEF ProcOwned
  <2>10. PidOwn'
    BY <1>1, <1>2, <2>1, <2>5 DEF PidOwn
  <2>11. OpenAreOwn'
    BY <1>1, <1>2, <2>5 DEF OpenAreOwn
  <2>12. NoDeadSocketPath'
    <3> SUFFICES ASSUME NEW s \in Paths
                 PROVE /\ sock'[s] \in Labels => s \in job'[sock'[s]].open
                       /\ sock'[s] = "stale" =>
                            \E m \in Registered' : s \in job'[m].sockets
      BY DEF NoDeadSocketPath
    <3>1. CASE s \in job[l].sockets
      BY <1>1, <2>4, <3>1
    <3>2. CASE s \notin job[l].sockets
      <4>1. sock'[s] = sock[s]
        BY <2>4, <3>2
      <4>2. sock[s] \in Labels => sock[s] # l /\ s \in job'[sock[s]].open
        BY <1>1, <2>5, <3>2 DEF NoDeadSocketPath, OpenAreOwn
      <4>3. sock[s] = "stale" => \E m \in Registered' : s \in job'[m].sockets
        BY <1>1, <2>3, <2>5, <3>2 DEF NoDeadSocketPath
      <4> QED BY <4>1, <4>2, <4>3
    <3> QED BY <3>1, <3>2
  <2>13. CallConsistent'
    BY <2>1, IdleCall DEF CallConsistent, Looping, Stopping
  <2>14. ThrottleRuns'
    BY <1>1, <1>2, <2>1, <2>5, IdleCall DEF ThrottleRuns
  <2> QED BY <2>3, <2>6, <2>7, <2>9, <2>10, <2>11, <2>12, <2>13, <2>14 DEF IInv
<1>4. CASE launch_registry_free
  <2>1. /\ call.at = "free" /\ reg' = <<>> /\ job' = [l \in Labels |-> NoJob]
        /\ sock' = Unlinked(UNION {job[l].sockets : l \in Registered})
        /\ UNCHANGED <<default_throttle, proc, dead_for>>
        /\ call' = [Idle EXCEPT !.at = "freed"]
    BY <1>4 DEF launch_registry_free
  <2>2. call' \in Calls /\ call'.at = "freed" /\ call'.back = "idle"
    BY <2>1 DEF Idle, Calls
  <2>3. Registered' = {} /\ LabelsUnique' /\ reg' \in Seq(Labels)
    BY <2>1 DEF Registered, LabelsUnique
  <2>4. /\ sock' \in [Paths -> Labels \cup {NoLabel, "stale"}]
        /\ \A s \in Paths : sock'[s] =
             IF s \in UNION {job[l].sockets : l \in Registered}
               THEN NoLabel ELSE sock[s]
    BY <1>1, <2>1, UnlinkedPaths
  <2>5. job' \in [Labels -> Jobs] /\ \A m \in Labels : job'[m] = NoJob
    BY <1>2, <2>1
  <2>6. TypeOK'
    BY <1>1, <2>1, <2>2, <2>3, <2>4, <2>5 DEF TypeOK
  <2>7. PidWhileRunning' /\ OpenAreOwn' /\ PidOwn'
    BY <1>1, <1>2, <2>5 DEF PidWhileRunning, OpenAreOwn, PidOwn
  <2>8. \A l \in Labels : job[l].pid = NoPid
    BY <1>1, <2>1 DEF CallConsistent, PidWhileRunning
  <2>9. ProcOwned'
    BY <1>1, <2>1, <2>8 DEF ProcOwned
  <2>10. ASSUME NEW s \in Paths, sock[s] \in Labels \/ sock[s] = "stale"
         PROVE  \E l \in Registered : s \in job[l].sockets
    <3>1. CASE sock[s] \in Labels
      <4>1. s \in job[sock[s]].open /\ s \in job[sock[s]].sockets
        BY <1>1, <3>1 DEF NoDeadSocketPath, OpenAreOwn
      <4>2. sock[s] \in Registered
        BY <1>1, <1>2, <3>1, <4>1 DEF PidWhileRunning
      <4> QED BY <4>1, <4>2
    <3>2. CASE sock[s] = "stale"
      BY <1>1, <3>2 DEF NoDeadSocketPath
    <3> QED BY <2>10, <3>1, <3>2
  <2>11. ASSUME NEW s \in Paths PROVE sock'[s] = NoLabel
    <3>1. CASE sock[s] = NoLabel
      BY <2>4, <3>1
    <3>2. CASE sock[s] # NoLabel
      <4>1. sock[s] \in Labels \/ sock[s] = "stale"
        BY <1>1, <3>2 DEF TypeOK
      <4>2. \E l \in Registered : s \in job[l].sockets
        BY <2>10, <4>1
      <4>3. s \in UNION {job[l].sockets : l \in Registered}
        BY <4>2
      <4> QED BY <2>4, <4>3
    <3> QED BY <3>1, <3>2
  <2>12. NoDeadSocketPath'
    BY <1>1, <2>11 DEF NoDeadSocketPath
  <2>13. CallConsistent'
    BY <2>2 DEF CallConsistent, Looping, Stopping
  <2>14. ThrottleRuns'
    BY <1>2, <2>2, <2>5 DEF ThrottleRuns
  <2> QED BY <2>3, <2>6, <2>7, <2>9, <2>12, <2>13, <2>14 DEF IInv
<1> QED BY <1>3, <1>4

-----------------------------------------------------------------------------
(* The reaping loop of launch_registry_tick.                                *)

(* The job the reaping loop leaves behind is a well-formed job.             *)
LEMMA ReapedJob ==
  ASSUME NEW j \in Jobs, NEW st \in Statuses
  PROVE  LET k == Reaped(j, st) IN
         /\ k \in Jobs /\ k.pid = NoPid /\ k.state # "running"
         /\ k.sockets = j.sockets /\ k.open = j.open /\ k.throttle = j.throttle
         /\ k.state = "waiting" => k.restart_in >= k.throttle
<1> DEFINE again == should_restart(j.keepalive, st = "clean")
           state == IF again THEN "waiting" ELSE "exited"
           left  == IF again THEN j.throttle ELSE 0
<1>1. /\ state \in States \ {"running"} /\ left \in 0..MaxThrottle
      /\ state = "waiting" => left = j.throttle
  BY LaunchAssumption DEF States, Jobs
<1> HIDE DEF again, state, left
<1>2. Reaped(j, st) = [j EXCEPT !.pid = NoPid, !.last_exit = st,
                                !.state = state, !.restart_in = left]
  BY DEF Reaped, again, state, left
<1>3. j.throttle \in Int
  BY LaunchAssumption DEF Jobs
<1> DEFINE k == [j EXCEPT !.pid = NoPid, !.last_exit = st,
                          !.state = state, !.restart_in = left]
<1>4. k \in Jobs
  BY <1>1 DEF Jobs
<1>5. /\ k.pid = NoPid /\ k.state = state /\ k.restart_in = left
      /\ k.sockets = j.sockets /\ k.open = j.open /\ k.throttle = j.throttle
  BY DEF Jobs
<1> HIDE DEF k
<1>6. Reaped(j, st) = k
  BY <1>2 DEF k
<1> QED BY <1>1, <1>3, <1>4, <1>5, <1>6

(* The two loops of tick, up to the restart, keep the invariant.            *)
LEMMA ReapStep ==
  ASSUME IInv, TickReap
  PROVE  IInv'
<1>1. /\ TypeOK /\ CallConsistent /\ PidWhileRunning
      /\ job \in [Labels -> Jobs] /\ call \in Calls /\ Len(reg) \in Nat
      /\ proc \in [Pids -> Procs] /\ Registered \subseteq Labels
      /\ \A k \in 1..Len(reg) : reg[k] \in Registered
  BY DEF IInv, TypeOK, Registered
<1>2. /\ call.at = "reap" /\ call.i >= 1 /\ call.back = "idle"
      /\ call.i \in Nat
      /\ UNCHANGED <<reg, default_throttle, sock, dead_for>>
  BY <1>1 DEF TickReap, CallConsistent, Looping, Stopping, Calls
<1>3. CASE /\ call.i > Len(reg) /\ UNCHANGED <<job, proc>>
           /\ call' = [call EXCEPT !.at = "restart", !.i = 1,
                        !.due = {l \in Registered :
                                   /\ job[l].state = "waiting"
                                   /\ job[l].restart_in = 0}]
  <2> DEFINE due == {l \in Registered : /\ job[l].state = "waiting"
                                        /\ job[l].restart_in = 0}
  <2>1. due \subseteq Labels /\ \A l \in due : job[l].restart_in = 0
    BY <1>1
  <2> HIDE DEF due
  <2>2. call' = [call EXCEPT !.at = "restart", !.i = 1, !.due = due]
    BY <1>3 DEF due
  <2>3. /\ call' \in Calls /\ call'.at = "restart" /\ call'.back = "idle"
        /\ call'.i = 1 /\ call'.due = due
    BY <1>1, <1>2, <2>1, <2>2 DEF Calls
  <2>4. TypeOK'
    BY <1>1, <1>2, <1>3, <2>3 DEF TypeOK
  <2>5. CallConsistent'
    BY <2>3 DEF CallConsistent, Looping, Stopping
  <2> QED BY <1>2, <1>3, <2>1, <2>3, <2>4, <2>5, CallMoves
<1>4. CASE /\ call.i <= Len(reg) /\ ReapJob(reg[call.i])
           /\ call' = [call EXCEPT !.i = @ + 1]
  <2> DEFINE l == reg[call.i]
  <2>1. /\ call' \in Calls /\ call'.at = "reap" /\ call'.back = "idle"
        /\ call'.i = call.i + 1
    BY <1>1, <1>2, <1>4, NextIndex
  <2>2. CallConsistent'
    BY <1>2, <2>1 DEF CallConsistent, Looping, Stopping
  <2>3. l \in Registered /\ l \in Labels /\ ReapJob(l)
    BY <1>1, <1>2, <1>4
  <2> HIDE DEF l
  <2> DEFINE p == job[l].pid
  <2>4. CASE UNCHANGED <<job, proc>>
    <3>1. TypeOK'
      BY <1>1, <1>2, <2>1, <2>4 DEF TypeOK
    <3> QED BY <1>2, <2>1, <2>2, <2>4, <3>1, CallMoves
  <2>5. CASE ~UNCHANGED <<job, proc>>
    <3>1. /\ job[l].state = "running" /\ p # NoPid /\ p \in Pids
          /\ proc[p].st # "alive"
      BY <1>1, <2>3, <2>5 DEF ReapJob, Jobs
    <3>2. PICK st \in Statuses :
            /\ job' = [job EXCEPT ![l] = Reaped(job[l], st)]
            /\ \/ proc' = proc /\ proc[p].st = "free"
               \/ proc' = [proc EXCEPT ![p] = NoProc]
      <4>1. /\ proc[p].status \in Statuses /\ job[l].last_exit \in Statuses
            /\ proc[p].st \in {"free", "alive", "zombie"}
        BY <1>1, <2>3, <3>1 DEF Procs, Jobs
      <4>2. CASE proc[p].st = "zombie"
        BY <1>1, <2>3, <3>1, <4>1, <4>2 DEF ReapJob
      <4>3. CASE proc[p].st = "free"
        BY <1>1, <2>3, <3>1, <4>1, <4>3 DEF ReapJob
      <4> QED BY <3>1, <4>1, <4>2, <4>3
    <3> DEFINE k == Reaped(job[l], st)
    <3>3. /\ k \in Jobs /\ k.pid = NoPid /\ k.state # "running"
          /\ k.sockets = job[l].sockets /\ k.open = job[l].open
          /\ k.throttle = job[l].throttle
          /\ k.state = "waiting" => k.restart_in >= k.throttle
      BY <1>1, <2>3, ReapedJob
    <3> HIDE DEF k
    <3>4. job' = [job EXCEPT ![l] = k]
      BY <3>2 DEF k
    <3>5. JobInv' /\ job' \in [Labels -> Jobs] /\ proc' \in [Pids -> Procs]
      BY <1>2, <2>3, <3>1, <3>2, <3>3, <3>4, JobEnds
    <3>6. TypeOK'
      BY <1>1, <1>2, <2>1, <3>5 DEF TypeOK
    <3>7. ThrottleRuns'
      BY <2>1, <3>5 DEF ThrottleRuns, JobInv
    <3> QED BY <2>2, <3>5, <3>6, <3>7 DEF IInv, JobInv
  <2> QED BY <2>4, <2>5
<1> QED BY <1>3, <1>4 DEF TickReap

-----------------------------------------------------------------------------
(* The kernel and the clock.                                                *)

(* Exits, foreign reaping and the passage of time keep the invariant.       *)
LEMMA KernelStep ==
  ASSUME IInv, Kernel
  PROVE  IInv'
<1>1. /\ TypeOK /\ LabelsUnique /\ PidWhileRunning /\ CallConsistent
      /\ ProcOwned /\ PidOwn /\ OpenAreOwn /\ NoDeadSocketPath /\ ThrottleRuns
      /\ job \in [Labels -> Jobs] /\ Registered \subseteq Labels
      /\ proc \in [Pids -> Procs] /\ call \in Calls
      /\ dead_for \in [Labels -> 0..MaxThrottle] /\ MaxThrottle \in Nat
      /\ NoPid \notin Pids
  BY LaunchAssumption DEF IInv, TypeOK, Registered
<1>2. \A l \in Labels : job[l].state = "running" => job[l].pid \in Pids
  BY <1>1 DEF PidWhileRunning, Jobs
<1>3. call.at = "killwait" => job[call.cur].pid \in Pids
  BY <1>1, <1>2 DEF CallConsistent, Stopping
<1>4. ASSUME NEW p \in Pids, ProcExit(p) PROVE IInv'
  <2>1. PICK st \in Statuses :
          proc' = [proc EXCEPT ![p].st = "zombie", ![p].status = st]
    BY <1>4 DEF ProcExit
  <2>2. /\ proc[p].st = "alive" /\ UNCHANGED <<reg, default_throttle, job, call, sock>>
        /\ dead_for' = IF job[proc[p].job].pid = p
                         THEN [dead_for EXCEPT ![proc[p].job] = 0] ELSE dead_for
    BY <1>4 DEF ProcExit
  <2>3. /\ proc' \in [Pids -> Procs]
        /\ \A q \in Pids : /\ proc'[q].job = proc[q].job
                           /\ proc'[q].kill = proc[q].kill
                           /\ proc'[q].st = "free" <=> proc[q].st = "free"
    BY <1>1, <2>1, <2>2 DEF Procs
  <2>4. dead_for' \in [Labels -> 0..MaxThrottle]
    <3>1. 0 \in 0..MaxThrottle
      BY <1>1
    <3>2. CASE dead_for' = dead_for
      BY <1>1, <3>2
    <3>3. CASE dead_for' = [dead_for EXCEPT ![proc[p].job] = 0]
      BY <1>1, <3>1, <3>3
    <3> QED BY <2>2, <3>2, <3>3
  <2>5. TypeOK'
    BY <1>1, <2>2, <2>3, <2>4 DEF TypeOK
  <2>6. Registered' = Registered
    BY <2>2 DEF Registered
  <2>7. LabelsUnique' /\ PidWhileRunning' /\ OpenAreOwn' /\ NoDeadSocketPath'
    BY <1>1, <2>2, <2>6 DEF LabelsUnique, PidWhileRunning, OpenAreOwn,
                            NoDeadSocketPath
  <2>8. CallConsistent'
    BY <1>1, <1>3, <2>2, <2>3, <2>6 DEF CallConsistent
  <2>9. ProcOwned' /\ PidOwn'
    BY <1>1, <1>2, <2>2, <2>3 DEF ProcOwned, PidOwn
  <2>10. \A l \in Labels : job[l].state = "waiting" => dead_for'[l] = dead_for[l]
    <3>1. \A l \in Labels : job[l].state = "waiting" => job[l].pid # p
      BY <1>1 DEF PidWhileRunning
    <3> QED BY <1>1, <2>2, <3>1
  <2>11. ThrottleRuns'
    BY <1>1, <2>2, <2>10 DEF ThrottleRuns
  <2> QED BY <2>5, <2>7, <2>8, <2>9, <2>11 DEF IInv
<1>5. ASSUME NEW p \in Pids, ReapedElsewhere(p) PROVE IInv'
  <2>1. /\ ForeignReaper /\ proc' = [proc EXCEPT ![p] = NoProc]
        /\ UNCHANGED <<reg, default_throttle, job, call, sock, dead_for>>
    BY <1>5 DEF ReapedElsewhere
  <2>2. NoProc \in Procs /\ NoProc.st = "free"
    BY DEF NoProc, Procs, Statuses
  <2>3. /\ proc' \in [Pids -> Procs]
        /\ \A q \in Pids : proc'[q] = proc[q] \/ proc'[q].st = "free"
    BY <1>1, <2>1, <2>2
  <2>4. TypeOK'
    BY <1>1, <2>1, <2>3 DEF TypeOK
  <2>5. Registered' = Registered
    BY <2>1 DEF Registered
  <2>6. LabelsUnique' /\ PidWhileRunning' /\ OpenAreOwn' /\ NoDeadSocketPath'
    BY <1>1, <2>1, <2>5 DEF LabelsUnique, PidWhileRunning, OpenAreOwn,
                            NoDeadSocketPath
  <2>7. CallConsistent'
    BY <1>1, <1>3, <2>1, <2>3, <2>5 DEF CallConsistent
  <2>8. ProcOwned' /\ PidOwn' /\ ThrottleRuns'
    BY <1>1, <2>1, <2>3 DEF ProcOwned, PidOwn, ThrottleRuns
  <2> QED BY <2>4, <2>6, <2>7, <2>8 DEF IInv
<1>6. CASE TimePasses
  <2>1. /\ job' = [l \in Labels |-> [job[l] EXCEPT !.restart_in = Less1(@)]]
        /\ call' = [call EXCEPT !.left = Less1(@)]
        /\ dead_for' = [l \in Labels |->
             IF dead_for[l] < MaxThrottle THEN dead_for[l] + 1 ELSE dead_for[l]]
        /\ UNCHANGED <<reg, default_throttle, proc, sock>>
    BY <1>6 DEF TimePasses
  <2>2. ASSUME NEW l \in Labels
        PROVE  /\ job'[l] \in Jobs /\ job'[l].pid = job[l].pid
               /\ job'[l].state = job[l].state /\ job'[l].open = job[l].open
               /\ job'[l].sockets = job[l].sockets
               /\ job'[l].throttle = job[l].throttle
               /\ job'[l].restart_in = Less1(job[l].restart_in)
    <3>1. job[l] \in Jobs /\ job[l].restart_in \in 0..MaxThrottle
      BY <1>1 DEF Jobs
    <3>2. Less1(job[l].restart_in) \in 0..MaxThrottle
      BY <1>1, <3>1 DEF Less1
    <3>3. job'[l] = [job[l] EXCEPT !.restart_in = Less1(job[l].restart_in)]
      BY <2>1
    <3> QED BY <3>1, <3>2, <3>3 DEF Jobs
  <2>3. job' \in [Labels -> Jobs]
    BY <2>1, <2>2
  <2>4. /\ call' \in Calls /\ call'.at = call.at /\ call'.cur = call.cur
        /\ call'.i = call.i /\ call'.back = call.back /\ call'.due = call.due
    BY <1>1, <2>1 DEF Calls, Less1
  <2>5. dead_for' \in [Labels -> 0..MaxThrottle]
    BY <1>1, <2>1
  <2>6. TypeOK'
    BY <1>1, <2>1, <2>3, <2>4, <2>5 DEF TypeOK
  <2>7. Registered' = Registered
    BY <2>1 DEF Registered
  <2>a. \A l \in Labels : /\ job'[l].pid = job[l].pid
                          /\ job'[l].state = job[l].state
                          /\ job'[l].open = job[l].open
                          /\ job'[l].sockets = job[l].sockets
    BY <2>2
  <2>8. LabelsUnique'
    BY <1>1, <2>1 DEF LabelsUnique
  <2>9. PidWhileRunning' /\ OpenAreOwn'
    BY <1>1, <2>7, <2>a DEF PidWhileRunning, OpenAreOwn
  <2>10. NoDeadSocketPath'
    BY <1>1, <2>1, <2>2, <2>7 DEF NoDeadSocketPath
  <2>11. CallConsistent'
    <3>1. \A k \in 1..Len(reg) : reg[k] \in Labels
      BY <1>1 DEF TypeOK
    <3>2. call.at \in Stopping \cup {"remove"} => call.cur \in Labels
      BY <1>1 DEF CallConsistent
    <3>3. call.at = "killwait" => job'[call.cur].pid = job[call.cur].pid
      BY <2>a, <3>2 DEF Stopping
    <3>4. call'.at = "killwait" =>
            LET p == job'[call'.cur].pid IN proc'[p].st = "free" \/ proc'[p].kill
      BY <1>1, <2>1, <2>4, <3>3 DEF CallConsistent
    <3>5. /\ call'.at \in Looping \/ call'.back = "stop_all" => call'.i >= 1
          /\ call'.at \in Stopping => call'.cur \in Registered'
                                       /\ job'[call'.cur].state = "running"
          /\ call'.at = "remove" => call'.cur \in Registered'
                                     /\ job'[call'.cur].state # "running"
          /\ call'.back # "idle" => call'.at \in Stopping
      BY <1>1, <2>4, <2>7, <2>a, <3>2 DEF CallConsistent
    <3>6. call'.at = "stop_all" \/ call'.back = "stop_all" =>
            \A k \in 1..Len(reg') : k < call'.i => job'[reg'[k]].state # "running"
      BY <1>1, <2>1, <2>4, <2>a, <3>1 DEF CallConsistent
    <3>7. call'.at = "free" => \A l \in Labels : job'[l].state # "running"
      BY <1>1, <2>4, <2>a DEF CallConsistent
    <3> QED BY <3>4, <3>5, <3>6, <3>7 DEF CallConsistent
  <2>12. ProcOwned' /\ PidOwn'
    BY <1>1, <2>1, <2>a DEF ProcOwned, PidOwn
  <2>13. ThrottleRuns'
    <3>1. ASSUME NEW l \in Labels, job'[l].state = "waiting"
          PROVE  dead_for'[l] + job'[l].restart_in >= job'[l].throttle
      <4>1. /\ dead_for[l] \in 0..MaxThrottle
            /\ job[l].restart_in \in 0..MaxThrottle
            /\ job[l].throttle \in 0..MaxThrottle
        BY <1>1 DEF Jobs
      <4>2. dead_for[l] + job[l].restart_in >= job[l].throttle
        BY <1>1, <2>2, <3>1 DEF ThrottleRuns
      <4>3. dead_for'[l] = IF dead_for[l] < MaxThrottle THEN dead_for[l] + 1
                                                        ELSE dead_for[l]
        BY <2>1
      <4> QED BY <1>1, <2>2, <4>1, <4>2, <4>3 DEF Less1
    <3>2. call'.at = "restart" => \A l \in call'.due :
            job'[l].state = "waiting" => job'[l].restart_in = 0
      <4>1. call.due \subseteq Labels
        BY <1>1 DEF Calls
      <4> QED BY <1>1, <2>2, <2>4, <4>1 DEF ThrottleRuns, Less1
    <3> QED BY <3>1, <3>2 DEF ThrottleRuns
  <2> QED BY <2>6, <2>8, <2>9, <2>10, <2>11, <2>12, <2>13 DEF IInv
<1> QED BY <1>4, <1>5, <1>6 DEF Kernel

-----------------------------------------------------------------------------
(* The theorems.                                                            *)

(* A step that changes no variable keeps the invariant.                     *)
LEMMA StutterStep ==
  ASSUME IInv, UNCHANGED vars
  PROVE  IInv'
<1>1. Registered' = Registered
  BY DEF vars, Registered
<1>2. TypeOK'
  BY DEF IInv, vars, TypeOK
<1>3. CallConsistent'
  BY <1>1 DEF IInv, vars, CallConsistent
<1>4. call' = call /\ UNCHANGED <<reg, default_throttle, job, proc, sock, dead_for>>
  BY DEF vars
<1> QED BY <1>2, <1>3, <1>4, CallMoves DEF IInv, ThrottleRuns

(* Every step of the supervisor, its caller and the kernel keeps IInv.      *)
LEMMA NextInv == IInv /\ [Next]_vars => IInv'
<1> SUFFICES ASSUME IInv, [Next]_vars PROVE IInv'
  OBVIOUS
<1>1. CASE Caller
  BY <1>1, LoadStep, StartStep, StopStep, BeginStep DEF Caller
<1>2. CASE CallStep
  BY <1>2, StartStep, StopStep, FreeStep, ReapStep DEF CallStep
<1>3. CASE Kernel
  BY <1>3, KernelStep
<1>4. CASE UNCHANGED vars
  BY <1>4, StutterStep
<1> QED BY <1>1, <1>2, <1>3, <1>4 DEF Next

(* The inductive invariant of the supervisor.                               *)
THEOREM Invariant == Spec => []IInv
BY InitInv, NextInv, PTL DEF Spec

(* Every variable of the supervisor keeps its type: in particular a pid is  *)
(* never used outside the table and restart times stay within the throttle. *)
THEOREM TypeCorrect == Spec => []TypeOK
<1>1. IInv => TypeOK
  BY DEF IInv
<1> QED BY <1>1, Invariant, PTL

(* No label is registered twice, after any sequence of loads and unloads.   *)
THEOREM LabelsStayUnique == Spec => []LabelsUnique
<1>1. IInv => LabelsUnique
  BY DEF IInv
<1> QED BY <1>1, Invariant, PTL

(* launch_job_start, stop, unload, tick, stop_all and free never lose track *)
(* of a live child.                                                         *)
THEOREM NoProcessIsLost == Spec => []NoStrayProcess
<1>1. IInv => NoStrayProcess
  <2> SUFFICES ASSUME IInv, NEW p \in Pids, proc[p].st = "alive", ~proc[p].kill
               PROVE  /\ proc[p].job \in Registered
                      /\ job[proc[p].job].state = "running"
                      /\ job[proc[p].job].pid = p
    BY DEF NoStrayProcess
  <2>1. proc[p].job \in Labels /\ job[proc[p].job].pid = p
    BY DEF IInv, ProcOwned
  <2>2. job[proc[p].job].state = "running"
    BY <2>1, LaunchAssumption DEF IInv, PidWhileRunning
  <2> QED BY <2>1, <2>2 DEF IInv, PidWhileRunning
<1> QED BY <1>1, Invariant, PTL

(* The pid a RUNNING job signals and waits for is that of its own child,    *)
(* unless the embedding program reaps children too.                         *)
THEOREM PidsAreOwnChildren == Spec => []PidIsOwnChild
<1>1. IInv => PidIsOwnChild
  BY DEF IInv, PidIsOwnChild, PidOwn, PidWhileRunning
<1> QED BY <1>1, Invariant, PTL

(* Without interrupted waits every zombie will be reaped by its job's next  *)
(* tick or stop.                                                            *)
THEOREM ZombiesHaveJobs == Spec => []NoLeakedZombie
<1>1. IInv => NoLeakedZombie
  BY LaunchAssumption DEF IInv, NoLeakedZombie, ProcOwned
<1> QED BY <1>1, Invariant, PTL

(* No socket file outlives the job that owns it.                            *)
THEOREM SocketPathsLive == Spec => []NoDeadSocketPath
<1>1. IInv => NoDeadSocketPath
  BY DEF IInv
<1> QED BY <1>1, Invariant, PTL

(* Who starts a job while a call is in progress: start_all starts LOADED    *)
(* jobs, tick starts WAITING jobs that were due at its clock reading.       *)
LEMMA WhoStarts ==
  ASSUME IInv, Next, NEW l \in Labels,
         call.at \notin {"idle", "remove", "free"},
         job'[l].state # job[l].state
  PROVE  \/ job[l].state = "running"
         \/ call.at = "start_all" /\ job[l].state = "loaded"
         \/ call.at = "restart" /\ job[l].state = "waiting" /\ l \in call.due
<1>1. /\ TypeOK /\ OpenAreOwn /\ job \in [Labels -> Jobs] /\ CallConsistent
      /\ Len(reg) \in Nat /\ \A k \in 1..Len(reg) : reg[k] \in Labels
      /\ call.i \in Nat /\ (call.at \in Looping => call.i >= 1)
      /\ {"loaded", "failed"} \subseteq States
  BY DEF IInv, TypeOK, Calls, CallConsistent, States
<1>2. ~Caller
  BY DEF Caller, launch_registry_load_plist, Start, Stop,
         launch_registry_set_default_throttle, launch_registry_unload,
         BeginStopAll, BeginStartAll, BeginTick
<1>3. ~Kernel
  <2>1. job' = job => job'[l].state = job[l].state
    OBVIOUS
  <2>2. TimePasses => job'[l].state = job[l].state
    BY <1>1 DEF TimePasses, Jobs
  <2> QED BY <2>1, <2>2 DEF Kernel, ProcExit, ReapedElsewhere
<1>4. CallStep
  BY <1>2, <1>3 DEF Next
<1>5. CASE launch_registry_start_all
  <2>1. call.at = "start_all" /\ call.i \in 1..Len(reg)
    BY <1>1, <1>5 DEF launch_registry_start_all, Looping
  <2>2. /\ job[reg[call.i]].state = "loaded"
        /\ launch_job_start(reg[call.i], "loaded")
    BY <1>1, <1>5, <2>1 DEF launch_registry_start_all
  <2>3. reg[call.i] \in Labels
    BY <1>1, <2>1
  <2>4. \A m \in Labels : m # reg[call.i] => job'[m] = job[m]
    BY <1>1, <2>2, <2>3, StartEffect
  <2> QED BY <2>1, <2>2, <2>4
<1>6. CASE TickRestart
  <2>1. call.at = "restart" /\ call.i \in 1..Len(reg)
    BY <1>1, <1>6 DEF TickRestart, Looping
  <2>2. /\ job[reg[call.i]].state = "waiting" /\ reg[call.i] \in call.due
        /\ launch_job_start(reg[call.i], "failed")
    BY <1>1, <1>6, <2>1 DEF TickRestart
  <2>3. reg[call.i] \in Labels
    BY <1>1, <2>1
  <2>4. \A m \in Labels : m # reg[call.i] => job'[m] = job[m]
    BY <1>1, <2>2, <2>3, StartEffect
  <2> QED BY <2>1, <2>2, <2>4
<1>7. CASE TickReap
  <2>1. ReapJob(reg[call.i])
    BY <1>7 DEF TickReap
  <2>2. CASE reg[call.i] = l
    BY <1>1, <2>1, <2>2 DEF ReapJob
  <2>3. CASE reg[call.i] # l
    BY <1>1, <2>1, <2>3 DEF ReapJob
  <2> QED BY <2>2, <2>3
<1>8. CASE StopPoll \/ KillWait
  <2>1. call.at \in Stopping /\ \E st \in {"signal", proc[job[call.cur].pid].status,
                                          job[call.cur].last_exit} : StopDone(st)
    BY <1>8 DEF StopPoll, KillWait, Stopping
  <2>2. job[call.cur].state = "running"
    BY <1>1, <2>1 DEF CallConsistent
  <2>3. l # call.cur => job'[l] = job[l]
    BY <1>1, <2>1 DEF StopDone
  <2> QED BY <2>2, <2>3
<1>9. CASE launch_registry_stop_all
  <2>1. /\ launch_job_stop(reg[call.i], call.grace, "stop_all")
        /\ job[reg[call.i]].state = "running"
    BY <1>9 DEF launch_registry_stop_all
  <2>2. l # reg[call.i] => job'[l] = job[l]
    BY <1>1, <2>1 DEF launch_job_stop
  <2> QED BY <2>1, <2>2
<1>10. ~Escalate /\ ~job_free /\ ~launch_registry_free
  BY DEF Escalate, job_free, launch_registry_free
<1> QED BY <1>4, <1>5, <1>6, <1>7, <1>8, <1>9, <1>10 DEF CallStep

(* A restart by tick comes no sooner than the throttle after the death of   *)
(* the child, whatever happens in between.                                  *)
THEOREM RestartsAreThrottled == Spec => ThrottleHonoured
<1>1. ASSUME IInv, [Next]_vars PROVE [RestartIsDue]_vars
  <2> SUFFICES ASSUME Next, NEW l \in Labels, call.at = "restart",
                      job[l].state # "running", job'[l].state = "running"
               PROVE  dead_for[l] >= job[l].throttle
    BY <1>1 DEF RestartIsDue
  <2>1. job[l].state = "waiting" /\ l \in call.due
    BY <1>1, WhoStarts
  <2>2. job[l].restart_in = 0
    BY <1>1, <2>1 DEF IInv, ThrottleRuns
  <2>3. dead_for[l] + job[l].restart_in >= job[l].throttle
    BY <1>1, <2>1 DEF IInv, ThrottleRuns
  <2>4. dead_for[l] \in Nat /\ job[l].throttle \in Nat
    BY <1>1, LaunchAssumption DEF IInv, TypeOK, Jobs
  <2> QED BY <2>2, <2>3, <2>4
<1> QED BY <1>1, Invariant, PTL DEF Spec, ThrottleHonoured

(* An operator's stop outranks the plist: only a start or an unload takes a *)
(* job out of STOPPED.                                                      *)
THEOREM StoppedStaysStopped == Spec => StopOutranksPlist
<1>1. ASSUME IInv, [Next]_vars PROVE [StaysStopped]_vars
  <2> SUFFICES ASSUME Next, NEW l \in Labels,
                      job[l].state = "stopped", job'[l].state # "stopped"
               PROVE  call.at \in {"idle", "remove", "free"}
    BY <1>1 DEF StaysStopped
  <2> QED BY <1>1, WhoStarts
<1> QED BY <1>1, Invariant, PTL DEF Spec, StopOutranksPlist
=============================================================================
