# CatBSD: a TLA+ verification of the supervisor and its IPC shims

CatBSD puts a Darwin-like userland on FreeBSD. Most of the repository is build
scripts and small command-line tools that wrap native programs. The part with
state, concurrency and failure in it is the service manager and the two IPC
shims it stands on; that part is modelled here.

Source paths below are relative to the repository; `launch_job.c`,
`launchctl_server.c` are in `src/darwin-compat/launchd/`, `xpc_shim.c` and
`mach_port.c` in `src/darwin-compat/shims/`, `catbsd-init.c` in
`src/catbsd-init/`.

## 1. The system

| Component | State it keeps | Operations | Hard behaviour |
|---|---|---|---|
| Job supervisor (`launch_job.c`) | registry of jobs in order; per job: state, pid, last status, restart time, sockets; default throttle | load, find, start, start_all, stop, stop_all, unload, tick, free, set_default_throttle | children exit at any moment; stop polls, escalates to SIGKILL and waits; restarts are delayed; socket files outlive the process; fork, bind and malloc fail |
| Control server (`launchctl_server.c`) | listener, the peer being served | poll: accept, receive with timeout, one handler per verb, reply | one thread serves clients and supervises jobs; clients stall, vanish, give up |
| Control client (`launchctl-demo/launchctl.c`) | one connection | connect, send, wait for the reply | gives up while the request is still running |
| init (`catbsd-init.c`) | the flags of its signal handlers, the directory stream | boot, single-user shell, load_dir, main loop, reload, shutdown | signals at any instruction, files that appear during a scan |
| Service names (`xpc_shim.c`, create_listener/cancel) | socket file, lock file and its flock | claim, take over from a dead listener, give up | other processes between any two system calls, crashes |
| Connections (`xpc_shim.c`) | descriptor, flags, queue of set-aside messages, two mutexes, reader thread | send, reply, receive, synchronous call, set handler, resume, cancel, release | threads share one byte stream; deadlines strike in mid-frame; a peer that stops reading blocks whoever holds the lock; cancel and resume race everything |
| Mach ports (`mach_port.c`) | registry of entries, queues, rights, kqueue events | allocate, deallocate, insert_right, has_right, send, receive, wait_any | queue and wakeup are separate; descriptors are reused |
| Message dictionaries and wire format (`xpc_shim.c`) | linked list of entries, count, reference count, id; frames of bytes | create, retain, release, six setters, getters, remove, apply, serialize, deserialize | threads share one object; release frees after its lock; a send is two critical sections; frames arrive damaged; sizes at their limits |
| plist parser (`plist_lite.c`) and what is made of a plist (`job_from_plist`, `config_load_file`) | a cursor into the text, the recursion, the blocks it has allocated | parse a file, query the tree, make a job or a configuration of it | files that are cut short or damaged; every allocation may fail in the middle of the recursion |
| Blocks runtime (vendored), dispatch shim, syscall shim, demos, scripts | none to speak of | | not modelled |

Interactions. init calls the supervisor and the server from one loop:
`reload? ; lctl_server_poll ; launch_registry_tick`. Every verb handler calls the
supervisor. The server uses the XPC shim for its listener and its peers. The
kernel is the common environment: it ends children, drops the lock of a dead
process, keeps socket files, hands out descriptors and pids again.

What makes each part correct:

* supervisor: it never loses a child, never signals a pid that is not its own
  child, leaves no dead socket file, restarts no sooner than the throttle says
  and never brings back a job that was stopped; every call returns;
* server: what a client reads out of a reply is true when it is sent; no client can keep another one, or
  the restart of a job, waiting for ever;
* init: a SIGHUP is never lost, SIGTERM always ends it, and nothing it started
  outlives it;
* names: one listener per name, and the name leads to it, except through one window
  that is named;
* connections: a reply goes to the call it answers, nothing that was read is
  lost; while the peer reads, timeouts hold and cancel ends the reader thread;
* dictionaries: an ordered map whatever the sequence of calls, freed exactly once, sent
  under the id of the call, the same on both sides of the wire;
* plist parser: a file is loaded as it was written or not at all, up to allocations
  nobody checks; nothing leaks or is freed twice whichever call fails; it returns
  for every document;
* Mach ports: no lost wakeup, no timeout over a message sent before the call, no
  inheritance by a reused descriptor.

## 2. Modules

```
LaunchJob          supervisor          <- LaunchJobProofs, MCLaunchJob
  LctlServer       + server, clients   <- LctlServerProofs, MCLctlServer
    CatbsdInit     + init              <- SystemProofs, MCCatbsdInit
XpcListener        service names       <- XpcListenerProofs, MCXpcListener
XpcConnection      one connection      <- XpcConnectionProofs, MCXpcConnection
XpcWire            frames of bytes
  XpcDictionary    one dictionary      <- XpcDictionaryProofs, MCXpcDictionary
    implements XpcMap, an ordered map
MachPort           Mach ports          <- MachPortProofs, MCMachPort
PlistLite          plist parser
  JobPlist         + jobs, config      <- JobPlistProofs, MCJobPlist
```

LctlServer extends LaunchJob and CatbsdInit extends LctlServer: the larger
system makes the calls that LaunchJob leaves to an arbitrary caller, through
the same action definitions. `PROJECT.json` maps every definition to its lines.

**LaunchJob.** The library has one thread, so a call is a sequence of steps only
where it loops or waits; `call` is its program counter (`idle`, `start_all`,
`poll`, `escalate`, `killwait`, `reap`, `restart`, ...). The kernel interleaves:
`ProcExit` at any moment, `Clock`, `ReapedElsewhere` if the embedding program
waits for any child. `proc` is the process table (alive, zombie, SIGKILL
pending), `sock` what each path in the file system leads to. Clock values are
kept as the time that is left. argv, environment and redirections, start_count
and accessors are left out. `launch_registry_run` and `launch_registry_wait_state`
are repeated ticks, which the arbitrary caller makes anyway.

**LctlServer.** `PollStep` is `lctl_server_poll` (accept, receive, serve), one
`handle_*` action per verb; `roundtrip()` is `Connect`, `Send`, `Answered` and
`Quit` (the client gives up or dies). A stop or unload inside a handler runs the steps of LaunchJob while
the kernel goes on. The request is one message; text of replies is left out. A reply
may lose its code for want of memory (`"nocode"`); `check_reply` is what launchctl
makes of it, and RepliesAreTrue is about that. A reply is one step: it is assumed
to fit the socket buffer or to find a client that reads, as launchctl does until it
closes (for one that does not, see XpcConnection and section 6).

**CatbsdInit.** `pc` is the position in `main`. Handlers set `g_do_shutdown` and
`g_do_reload` between any two steps; `Install` adds files to the directory,
also during the scan. Configuration only picks constants, and the mounts are
best-effort shell commands without further effect.

**XpcListener.** Every system call of create_listener and of a listener's cancel
is a step of one of any number of processes; processes crash at any point. The
lock file is an inode with or without a name. `stale_claim` records that somebody locked
one without a name, which create_listener does not look for.

**XpcConnection.** `c->lock` is held across the write of a frame and `read_lock` across
the read of one, so both are variables; any other section under `c->lock` is a step that
needs the lock free, and a call that finds it taken waits (`enter`). A write
(`io_write_full`) ends when the peer lets it. The stream holds parts of frames
(header, payload), so deadlines and other readers strike in mid-frame; after that
a header may be read where a payload is. Which messages have a payload is the
constant `Large`. The peer is external: it answers in any order, sends messages of
its own with numbers that collide with reply ids, stalls, stops reading, hangs
up. resume may come between a call's look at `resumed` and its read, and then two
threads read one socket (`Poll` keeps poll() and recv() apart for that case);
cancel may close the descriptor under a call, which then may read from whatever has
its number now (`ReadRecycled`, the message `Foreign`).
`catbsd_xpc_connection_reply` sends like `send_message` but spends no id and so
changes nothing else on this side. The process follows one rule: it releases
a connection when no thread uses it.

**XpcWire, XpcDictionary, XpcMap.** XpcWire writes and reads frames byte by byte; a
byte has `B` values (256 in the code, 8 in the run), so the widths of 2, 4 and 8
bytes, two's complement and every length check are kept while numbers stay
small. XpcDictionary keeps the list as pointers (`head`, `tail`, `next`,
`count`); a section under `obj->lock` is a step, and the gaps are kept:
`catbsd_xpc_release` and `Free`, `Stamp` and `Serialize`, the callbacks of apply,
which may call everything, release included. A thread calls only with a
reference of its own. The getters change nothing and are the operator `get`;
the keys apply hands out are not told apart. XpcMap says what the header
promises, and `IsOrderedMap` is `XpcMap!Spec` with `map` read off the list.

**MachPort.** A section under a mutex or a system call is a step; the look into the queue
(`Dequeue`) and the look at the clock (`Deadline`) are two. kevent() may have no
memory for an event, and the send fails with its message queued (`failed`). The event is
level-triggered because the code adds it without `EV_CLEAR`. The program uses
only ports it has and does not give up a port that one of its threads is using:
otherwise `port_entry_get` returns memory another thread frees. `Uses` says which of the
calls each thread makes.

**PlistLite, JobPlist.** A document is a sequence of items: tags, characters, entity
references, the marks that begin declarations and comments. `p` is `ps->p`,
`stack` has one frame per dict or array whose loop in `parse_after_tag` is
running, `ret` is what the last call returned, and `heap` counts allocations
and live blocks, so that "the n-th call of malloc fails" is an input like the
text itself (`input.oom`). Functions that only move the cursor (skip_noise,
read_tag, read_text, expect_close, base64_decode) are operators on positions;
each call that returns a value or NULL is an action. JobPlist adds the
accessors, `job_from_plist` and `config_load_file` as operators on the tree; an
input says which tree was written and what job or configuration it means, both
independent of the parser: MCJobPlist renders trees into documents and damages
them. `Requests` lists the blocks job_from_plist asks for, in order, so that each can fail;
the copies of paths and of Program that nobody checks stay NULL (`Unchecked`). A text of
the configuration that fills its field is not terminated and goes on with any of
`Leftovers`. LaunchJob's `DefOf` stands for the result.

## 3. Runs

| Run | Shows | Instance |
|---|---|---|
| launch_safety | supervisor safety under every sequence of calls | 2 jobs, 2 pids, 1 shared socket path, a malformed file; socket, memory and fork failures, interrupted waits, an embedding program that reaps children itself |
| server | what clients read out of replies is true, clients are answered, kept-alive jobs restarted, calls return, no zombie forgotten | 1 job, 2 clients (one with every verb and malformed requests, one that sends stop), backlog 1, memory runs out, embedding program that reaps children itself |
| init | SIGTERM ends init and nothing outlives it, SIGHUP is not lost, pids are those of own children | 2 daemons, one installed later, a malformed file, 1 pid (a second fork fails), single-user or not, signals, failing sockets, no memory for the registry |
| init_reload | *violation*: a reload unlinks sockets of loaded daemons | as init |
| init_requests | *violation*: init never accepts a client | 1 daemon, timeout 0 |
| name_handover | one reachable listener, up to the first lock of an unlinked lock file | 3 processes, 5 claims, 3 cancels, any number of crashes, 4 inodes |
| name_race | *violation*: two listeners | 2 processes, 3 claims, one cancel |
| connection | no loss, no mix-up; timeouts, replies and cancel while the peer reads | one consumer thread, another thread, the reader; 2 sends, 1 notification; the first reply has a payload; malloc fails |
| connection_claimed | *violation*: receive takes another thread's reply | 2 consumer threads |
| dictionary | ordered map, freed once, right id, survives the wire | 2 threads, 2 references, 3 keys and 2 unusable ones, 3 entries, messages of at most 48 bytes; 3 good frames, all their prefixes, about 250 with one wrong byte |
| plist | a file is loaded as written or refused, nothing leaks, the parser returns | 2 full job plists and a configuration in up to 3 layouts, 11 small odd ones; each large file cut at every item and inside it, about 2,400 with one tag, entity or character wrong, any one of its allocations (the parser's or job_from_plist's) or all from one on failing |
| mach_port | wakeups, timeouts, reuse of descriptors | 3 threads, 2 ports, 2 messages; malloc fails |

Why the bounds are enough. Two jobs and two pids let a pid be reused by the other
job; one path named by two plists lets them compete for it. Throttles and
timeouts of one unit give "not yet" and "over", the only distinction the
code makes. Two clients are the one that misbehaves and the one that must not
suffer; a backlog of 1 is a full queue. Two processes are enough for the race of names (one
cancels and claims again, the other claims in between); five claims and three cancels
of three processes let the race, crashes and failures follow each other in one run.
Two messages per connection give a late reply of an earlier call next to the
current one, and the notification has an id that equals a reply's; the reply with a
payload is the one whose caller may give up in mid-frame before another call. Three
threads on a port are two receivers and two senders, with allocation and
deallocation on either side. Three entries are the shortest list with
a middle; of the keys one is a prefix of another; two integers fill a message to the last
byte or miss it by one, depending on the key. Capacities of 2 make buffers and nodes of a plist grow several times, and 20 bits
of accumulator overflow in `base64_decode` as 32 do on longer data; no file
and its job need as many allocations as `MaxCalls`. A field of the configuration
has room for 3 characters and a zero: one text is shorter, one is not. In `init` a reload can always read
the directory (`"opendir"` is not in `Failures`): one that cannot has nothing to
load, and ReloadSeesFile rightly fails; lack of memory while loading and two
children at once are covered by launch_safety. The theorems of section 5 remove
the bounds for the safety part of everything but the two
properties of the plist parser that compare with the tree that was written.

Deadlock is checked in launch_safety, server, dictionary and mach_port.
Elsewhere the system may really stop: init exits, processes use up their calls, a
connection is released, the parser returns (ParserReturns says it does not stop
before).

`LctlTypeOK`, `InitTypeOK` and TypeOK of XpcConnection and XpcDictionary say what
the variables hold; no run is spent on them. All are theorems (LctlTypeCorrect,
InitTypeCorrect, ConnTypeCorrect, DictionaryTypes).

## 4. Fairness

* The program runs: weak fairness of its steps (PollStep, InCall, Tick, Main,
  and Step(t) of each thread). Deadlines pass: weak fairness of Clock, and in the shims
  of the timeout disjunct of a step. Event handlers return.
* A child that was sent SIGKILL dies: weak fairness of that exit. Nothing is assumed of a
  child that was not; it may ignore SIGTERM for ever.
* Strong fairness of Accept: the program does not lose the whole poll timeout between
  two instructions every single time while a connection is pending.
* The parser runs to its end: weak fairness of Next, it waits for nobody.
* Nothing is assumed of the peer of a connection: `io_write_full` is under no fairness, nor is
  a read from a descriptor that now belongs to something else. TimeoutHonoured,
  ReplyReachesCaller and CancelEndsReader therefore have the premise
  `PeerKeepsReading`, that no write keeps `c->lock` for ever, and fail without it.
* Nothing is assumed of clients, signals, files, other children or the
  single-user shell.

## 5. Proofs

All proofs are checked by TLAPS for every value of the constants that meets the
assumptions named in its module (`LaunchAssumption`, `LctlAssumption`, ...), which only type the
constants and keep the "none" values apart. Hypotheses beyond that are part of a
theorem's statement and explained below.

**LaunchJobProofs.** `IInv` is the conjunction of TypeOK and

* `LabelsUnique`: no label twice in the registry;
* `PidWhileRunning`: a job has a pid exactly while it is RUNNING, and a label that is not
  registered has no process and no open socket;
* `CallConsistent`: the job a call works on is registered and in the state the
  call found it in, which guards the steps after a wait;
* `ProcOwned`: a process that was not sent SIGKILL is the recorded child of its job, and
  without interrupted waits so is one that was;
* `PidOwn`: a recorded pid is an unreaped child of that job, unless the
  embedding program reaps children;
* `OpenAreOwn`, `NoDeadSocketPath`: a path leads to a registered job that has it open;
* `ThrottleRuns`: for a job that waits for its restart, the time since its process ended
  and the time left until the restart together make up the throttle.

None of the safety properties is inductive alone: that no process is lost
needs the pid of a RUNNING job, which needs that a stop in progress still has
its job in the registry; the throttle property needs `ThrottleRuns` because
the decision to restart is taken when the child is reaped and
used later. One lemma per group of actions shows that `IInv` is kept. The theorems
(TypeCorrect, LabelsStayUnique, NoProcessIsLost, PidsAreOwnChildren,
ZombiesHaveJobs, SocketPathsLive, RestartsAreThrottled, StoppedStaysStopped)
follow from it, the last two as action properties.

**XpcListenerProofs.** `IInv` says that the kernel's locks are held through open descriptors
(`LockOpen`, `LockByDescriptor`) and that, until somebody locks an unlinked lock file,
whoever is past `flock()` holds the lock on the inode the name leads to
(`LockHeld`) and from bind() on the socket's name leads to it (`BoundWhile`).
NameHasOneListener and NameLeadsToListener follow for any number of processes,
claims, cancels, failures and crashes. If there are only crashes (`MaxCancels = 0`) the lock
file keeps its inode (`SameInode`) and the exception never arises: CrashSafe.

**MachPortProofs.** `IInv` adds to OwnedIsLive and SignalPending: a descriptor that is being
opened or closed belongs to one thread and to no port (`InBetween`), a
port in use is not given up (`UsedOwned`), and there are no entries but those of
ports (`NoStray`), which is what makes a reused descriptor come back empty. For the timeouts,
messages are numbered as they are sent (`Numbered`), and whoever found the queue empty
will find only later ones in it (`LookedEmpty`).
Theorems: TypeCorrect, PortsAreLive, NoWakeupLost, PortsAreFresh,
TimeoutsAreTrue.

**LctlServerProofs.** `LctlInv` is IInv and `CtlInv`: poll runs at one place of the program
and has a peer between accept and the reply (`Polling`); while a handler waits
inside a stop or an unload, the call in progress is the one its peer asked for, and
when it is back the job is as the reply will say (`ServesPeer`); a client
that waits is queued or being served (`Waiting`). Each step of the server is
then a step of LaunchJob or leaves it alone: ServerImplementsSupervisor,
`LctlSpec => Spec`. The invariant is needed for that because a handler may
only call into the supervisor when no other call is in progress. All theorems
about the supervisor carry over (ServerKeepsZombies and ServerLosesNoProcess state
two of them); RepliesTellTheTruth follows from `ServesPeer`, which
remembers across the wait what the reply is about, for replies with and without a code.

**SystemProofs.** `SysInv` adds that there is no listener before the server is
created and after it is destroyed, and no job before the directory is read and
after the registry is freed (`AtRest`). InitImplementsSupervisor
(`SysSpec => Spec`), InitOwnsItsPids, InitLosesNoProcess,
InitRepliesTellTheTruth, and InitExitsClean, for which IInv says that without
registered jobs there are no children but those already sent SIGKILL and no
socket paths.

**XpcConnectionProofs.** `ConnInv` is TypeOK and

* `ThreadInv`: which step belongs to which call, that calls which read hold
  `read_lock`, and that the reader thread runs only on a connection that was resumed;
* `WriteInv`: whoever writes holds `c->lock`, and the peer does not yet owe a reply to it;
* `WireInv`: every message has at most one last part on its way, so that even when
  the stream is read out of step, or by two threads, no message is completed twice;
* `HeldInv`: a message is unread, or in exactly one place, or delivered.

NoMessageLost holds for any number of threads, also when a resume overtakes a call and two
threads read. RepliesGoToTheirCalls has the hypothesis `OneConsumer`: one thread
receives and makes synchronous calls. With two the claim is false, as
connection_claimed shows.

**XpcDictionaryProofs.**

* References. `Tokens` is the set of references threads own; `RefInv` says refcount is its
  size, and that the last one goes together with the one thread that will free the
  object. FreedByTheLast follows. StampKept has the hypothesis `OneConnection`: on two
  connections a message may leave with the other one's id (section 6).
* Frames. `GetEntryKeeps` shows that one round of the loop stays within the
  payload, `ReadsWithin` carries this through any number of rounds;
  FramesReadInBounds holds for every base, payload and byte sequence.
* The list. `Sound(h, l)`: the nodes of h, from the head on, are those of l, each once; the
  tail is its last, the count its length, the nodes in use are those on
  it, and their keys differ. The walk from the head then yields l (`ListIs`), setting a key
  keeps l or appends to it (`ResetReplaces`, `ResetAppends`), removing one takes it
  out and finds the tail again (`UnlinkRemoves`), and loading a frame builds such an l
  (`LoadSound`, which counts keys against nodes). ViewsAgree follows.
* The map. From the same lemmas, and RefInv for who may call, each step of the list is a
  step of XpcMap: ListImplementsMap. Its hypothesis `GoneIsNoMap` says that the value that
  stands for "no dictionary" is not a sequence.
* The wire. FramesComeBack proves RoundTrip for every base B > 6 and every size
  limit below B^4. It rests on two invariants next to Sound. `AllFit`: every entry
  in use has a key without a zero and of a length that fits 2 bytes, a value
  of its type, and no more bytes than a message may have; the setters check this,
  and deserialize can only produce such entries (`DeserializeFits`). `StampTypes`:
  the id fits 8 bytes. The argument: `GetPut`, what is written at w bytes is
  read back as the same number below B^w; `EntriesFill`, by induction over the entries, each
  lies in the payload where the sizes of those before it end, so that
  payload_size is exactly what is written (`Laid`); `SerializeIs`, the same with the
  header in front (`IsFrame`); `EntryBack` and `FrameBack`, by induction over the rounds
  of the reader, it stands at the start of entry i after i - 1 rounds and has
  collected what was written, two's complement and the cut of C strings
  included; `LoadCopies`, setting these entries one after the other
  makes a list with the same contents, and `GetSame`, every getter answers the same.
* Types. DictionaryTypes needs RefInv once more: that no thread owns more than
  MaxRefs references follows from counting Tokens (`RefsCounted`).

**JobPlistProofs.** `PlistInv` is the conjunction of

* `Typed`: the cursor is inside the text, every frame of the recursion owns a number of
  blocks and holds no more entries than its capacity;
* `Returned`: between two calls no value is on its way, and NULL owns nothing;
* `Nested`: the loops of parse_after_tag have a node and no key left over, and
  outside the recursion there is none;
* `Accounted`: the live blocks are those of the text, of the value being returned and of
  the frames, one for one.

Accounted alone is not inductive: a failure deep in the recursion frees one
frame after the other, and only Returned and Nested say that nothing else is held
at that point. HeapStaysSound adds the buffers: the loop of read_text keeps room for the
final zero (`ReadTextIn`), and base64_decode, of which the bits read so far
are counted against the bytes written, fits in what was allocated
(`DecodeFits`), with or without padding. FailureLeavesNothing is what the caller sees:
after NULL no block is left. All of it holds for every document, cut off at any
item or inside one, and every set of failing allocations; `PlistAssumption` only types
them and says that a text buffer begins with more than one byte. skip_noise is
the hard operator: it recurses on the position after a declaration, which
must be shown to lie further on before the function can be unfolded.

Induction over data goes through `SetInduction` (a set of numbers with 0 and with every
successor holds them all), proved from the well-foundedness of <; each
recursive function is shown to exist that way before it is unfolded.

Only model-checked: every liveness property (fairness and ENABLED are out of the
prover's reach: RequestsAnswered, KeptAlive and their like, TimeoutHonoured, ParserReturns); NeverHalfRead and
LoadedAsWritten, which compare with the tree an input was rendered from, and for
damaged inputs hold of the kinds of damage MCJobPlist does, not of every text.

## 6. Disagreements between code and documentation

With a run:

1. `launch_job.c:510`: a SIGHUP unlinks the activation sockets of loaded daemons,
   because the rejected duplicate is freed with `job_free` (init_reload).
2. `catbsd-init.c:396`: a poll timeout of 0 has always expired when
   `accept` looks at it, so init never serves launchctl (init_requests).
3. `xpc_shim.c:1729`: cancel unlinks the lock file, which lets two processes hold the name
   (name_race).
4. `xpc_shim.c:1514`: receive_message hands out replies that another thread waits for
   (connection_claimed).

Seen while modelling, without a run:

* `launch_job.c:868`: a child that exits between the last poll and the SIGKILL is
  recorded as killed by SIGKILL, while `launch_job.h:154` speaks of its exit code.
* `launch_job.h:168` says "a client can connect the instant the job is loaded"; the
  sockets are created in `launch_job_start`, not when the plist is loaded.
* `xpc_shim.c:1590`: of two synchronous callers, one can queue the other's reply after
  that one looked into the queue; it then sits on the socket until the next
  frame or its deadline. The wait for `read_lock` itself has no deadline.
* `launchctl_server.c:41`: a reply whose code could not be stored for want of memory is sent all
  the same; `launchctl_proto.h:5` says "Replies always contain LCTL_KEY_CODE", and
  `launchctl.c:78` starts from 0, so launchctl reports success. RepliesAreTrue says what is
  still so after such a reply and leaves out start, load, and stop of a job that is
  not there.
* `xpc_shim.c:1253`: a send blocks without a deadline when the peer stops reading, and keeps
  `c->lock`: timed calls (whose clock starts at 1577, after the send), receives and cancel
  on that connection wait for as long. The server's own replies are such sends: a client
  that asks and does not read, with a reply larger than the socket buffer, would hold
  the supervisor until it closes.
* `xpc_shim.c:1510`, `:1564`: resume after this look and before the read starts a second reader.
  "the reader thread owns the socket" is then not so: one may take the other's payload
  or reply, and a timed call may wait in recv() for what poll() had promised.
* `xpc_shim.c:1718`: cancel closes the descriptor under a call that is reading it; the comment at
  1704 ("without ever touching a recycled fd number") covers the reader thread, but not
  a receive or a synchronous call, which may read from whatever got the number,
  queue what it finds or return it.
* `mach_port.c:344`, `:358`: a message sent between receive's look into the queue and its look
  at the clock stays queued while the call returns KERN_TIMED_OUT.
* `mach_port.c:298`: when kevent() fails the send reports KERN_FAILURE, but its message stays
  queued and will be received.
* `launch_job.c:866`: the wait after SIGKILL may be interrupted; its result is not looked at and
  the zombie is forgotten (NoLeakedZombie leaves out `Interrupts`).
* `launch_job.c:945`: a child reaped by the embedding program is judged by the status of the run
  before (`ReapedElsewhere`).
* `xpc_shim.c:1713`: cancel from inside the event handler joins its own thread (EDEADLK),
  closes the descriptor, and leaves the reader polling -1.
* `xpc_shim.c:1432`: one message sent on two connections at once may leave with the
  other connection's id; StampHolds fails with `Conns = {1, 2}`.
* `xpc_shim.c:879`: a STRING or DATA entry whose key starts with NUL is accepted from
  the wire under an empty key, which the setters refuse and which no peer accepts when the
  message is sent on.
* `plist_lite.c:704` calls the `<plist>` wrapper "conventional but not load-bearing". It is:
  without it nothing looks at what follows the first value, so a stray
  `</dict>` silently drops all later keys, against the header's "fails with a
  line number the moment it sees something it doesn't understand". NeverHalfRead
  leaves such documents out (`ReadToTheEnd`) and fails without that condition.
* `plist_lite.c:295`, `:596`: a character of an entity, or the text of `<string/>`, is lost
  without an error when memory runs out; NeverHalfRead leaves these out (`lost`).
* `plist_lite.c:624`: text that is not a number reads as 0; `launch_job.c:397`: a
  ThrottleInterval beyond INT64_MAX / 1000 overflows (the wrap is in `Times1000`).
* `catbsd-init.c:108` says "SingleUser: bool true or integer non-zero";
  `plist_dict_get_bool` takes no integers, so `<integer>1</integer>` has no effect.
  A configuration file that does not parse is ignored without a word, and its
  numbers are cut to `int`. `catbsd-init.c:77`, `:100`: `strncpy(size - 1)` into a structure nobody
  cleared leaves a text as long as its field unterminated; what is read goes on
  with what lies behind it.
* `launch_job.c:344`: when one of two strdups of a socket entry fails, the other leaks
  (socket_count is not advanced). The strdups of Program (`:232`, `:258`) and of the job's paths
  (`:383`) are not checked: without memory a job is loaded with no output file, or
  with argv[0] = NULL, and its start fails in the child.
* `mach_port.c:199`, `:274`: insert_right and send on a port that was deallocated
  create an entry the next port with that number inherits.

## 7. Not modelled

Blocks runtime: Apple's, vendored. The dispatch shim has no implementation in
the repository. The syscall shim, most demos and the scripts keep no state;
`defaults` reads a file, edits the text and writes it back in place without a lock (two
writers lose an update, a crash leaves a torn file), and no daemon depends on it.
Of the plist parser, attributes, error texts, the digits of numeric entities and
nesting too deep for the process's stack are left out; of init's configuration, the
environment and command-line overrides. Of the
dictionaries, `copy_description` only formats, and the pointers `get_string` and
`get_data` lend are not followed.

## 8. Plan

Done in this order: LaunchJob and its proofs, LctlServer, CatbsdInit,
XpcListener and its proofs, XpcConnection, MachPort and its proofs, XpcWire and
XpcDictionary, PlistLite and JobPlist. All parts with a state of their own are
modelled.

Proved since: that LctlServer and CatbsdInit implement LaunchJob, the safety
properties of XpcConnection, those of XpcDictionary with the round trip
over the wire, and the accounts of the plist parser (HeapSound).

Left: a definition of rendering a tree into a document, and the proof that the parser
inverts it (the first half of LoadedAsWritten for every tree). It needs an induction
over trees and a parser state for each position inside the rendered document.
