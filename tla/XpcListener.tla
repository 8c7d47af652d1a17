---------------------------- MODULE XpcListener ----------------------------
(***************************************************************************)
(* How processes claim a service name in shims/xpc_shim.c:                 *)
(* catbsd_xpc_connection_create_listener and the listener's side of        *)
(* catbsd_xpc_connection_cancel, for one name and any number of processes. *)
(*                                                                         *)
(* Each system call is a step.  The name is two files: the socket, which   *)
(* outlives the process that bound it, and a lock file next to it, whose   *)
(* flock() the kernel drops when the holder dies.  A process that opened   *)
(* the lock file keeps the inode it got, also after the file is unlinked.  *)
(***************************************************************************)
EXTENDS Naturals, FiniteSets

CONSTANTS
  Procs,        \* processes
  Inodes,       \* inodes the lock file can have
  None,         \* no inode, no owner
  MaxCreates,   \* bound on the calls of create_listener
  MaxCancels    \* bound on the calls of cancel

ASSUME ListenerAssumption ==
  /\ MaxCreates \in Nat /\ MaxCancels \in Nat
  /\ None \notin Procs /\ None \notin Inodes /\ "corpse" \notin Procs
  /\ None # "corpse"

VARIABLES
  pc,          \* where each process is in create_listener or cancel
  fd,          \* its socket
  lock_fd,     \* the inode its descriptor of the lock file refers to
  flock,       \* the process that holds the lock on each inode
  lock_path,   \* the inode the name of the lock file leads to
  path,        \* what the socket's name leads to
  stale_claim, \* history: somebody locked a lock file already unlinked
  creates, cancels

vars == <<pc, fd, lock_fd, flock, lock_path, path, stale_claim, creates, cancels>>

PCs == {"out", "open", "flock", "bind", "unlink", "rebind", "listen", "alloc",
        "up", "fail", "close_fd", "unlink_path", "unlink_lock", "close_lock"}

TypeOK ==
  /\ pc \in [Procs -> PCs]
  /\ fd \in [Procs -> {"none", "bound", "listening"}]
  /\ lock_fd \in [Procs -> Inodes \cup {None}]
  /\ flock \in [Inodes -> Procs \cup {None}]
  /\ lock_path \in Inodes \cup {None}
  /\ path \in Procs \cup {None, "corpse"}
  /\ stale_claim \in BOOLEAN
  /\ creates \in 0..MaxCreates /\ cancels \in 0..MaxCancels

(* A crashed listener may have left its files.                              *)
Init ==
  /\ pc = [p \in Procs |-> "out"]
  /\ fd = [p \in Procs |-> "none"]
  /\ lock_fd = [p \in Procs |-> None]
  /\ flock = [i \in Inodes |-> None]
  /\ lock_path = None
  /\ path \in {None, "corpse"}
  /\ stale_claim = FALSE
  /\ creates = 0 /\ cancels = 0

Goto(p, l) == pc' = [pc EXCEPT ![p] = l]

-----------------------------------------------------------------------------
(* The kernel.                                                              *)

(* Nobody has a descriptor of it and no name leads to it.                   *)
Unused(i) == i # lock_path /\ \A p \in Procs : lock_fd[p] # i

Unlocked(p) == [i \in Inodes |-> IF flock[i] = p THEN None ELSE flock[i]]

(* The name of a socket nobody has open any more.                           *)
Orphaned(p) == IF path = p THEN "corpse" ELSE path

(* Both descriptors are closed; the lock goes with its descriptor.          *)
CloseBoth(p) ==
  /\ fd' = [fd EXCEPT ![p] = "none"]
  /\ lock_fd' = [lock_fd EXCEPT ![p] = None]
  /\ flock' = Unlocked(p)

(* The process dies: everything is closed, no file is removed.              *)
Crash(p) ==
  /\ pc[p] # "out"
  /\ Goto(p, "out")
  /\ CloseBoth(p)
  /\ path' = Orphaned(p)
  /\ UNCHANGED <<lock_path, stale_claim, creates, cancels>>

-----------------------------------------------------------------------------
(* catbsd_xpc_connection_create_listener                                    *)

Begin(p) ==
  /\ pc[p] = "out" /\ creates < MaxCreates
  /\ creates' = creates + 1
  /\ Goto(p, "open")
  /\ UNCHANGED <<fd, lock_fd, flock, lock_path, path, stale_claim, cancels>>

(* open(lockpath, O_CREAT)                                                  *)
OpenLock(p) ==
  /\ pc[p] = "open"
  /\ \E i \in Inodes :
       /\ IF lock_path = None THEN Unused(i) ELSE i = lock_path
       /\ lock_path' = i
       /\ lock_fd' = [lock_fd EXCEPT ![p] = i]
  /\ Goto(p, "flock")
  /\ UNCHANGED <<fd, flock, path, stale_claim, creates, cancels>>

(* Mutant: the result of flock() is not looked at.                          *)
MutantFlock(p) ==
  /\ pc[p] = "flock"
  /\ flock' = [flock EXCEPT ![lock_fd[p]] = IF @ = None THEN p ELSE @]
  /\ stale_claim' = (stale_claim \/ lock_fd[p] # lock_path)
  /\ Goto(p, "bind")
  /\ UNCHANGED <<fd, lock_fd, lock_path, path, creates, cancels>>

(* flock(lock_fd, LOCK_EX | LOCK_NB).  Nothing looks whether the name of    *)
(* the lock file still leads to the inode that is locked now.               *)
Flock(p) ==
  /\ pc[p] = "flock"
  /\ flock[lock_fd[p]] = None
  /\ flock' = [flock EXCEPT ![lock_fd[p]] = p]
  /\ stale_claim' = (stale_claim \/ lock_fd[p] # lock_path)
  /\ Goto(p, "bind")
  /\ UNCHANGED <<fd, lock_fd, lock_path, path, creates, cancels>>

(* CATBSD_XPC_EEXIST: somebody else has the lock.                           *)
Exists(p) ==
  /\ pc[p] = "flock"
  /\ flock[lock_fd[p]] # None
  /\ Goto(p, "fail")
  /\ UNCHANGED <<fd, lock_fd, flock, lock_path, path, stale_claim, creates, cancels>>

(* bind(), the first time and after the corpse was unlinked.                *)
Bind(p) ==
  /\ pc[p] \in {"bind", "rebind"} /\ path = None
  /\ path' = p
  /\ fd' = [fd EXCEPT ![p] = "bound"]
  /\ Goto(p, "listen")
  /\ UNCHANGED <<lock_fd, flock, lock_path, stale_claim, creates, cancels>>

(* EADDRINUSE: "We hold the lock, so this socket file is a corpse."         *)
AddrInUse(p) ==
  /\ pc[p] = "bind" /\ path # None
  /\ Goto(p, "unlink")
  /\ UNCHANGED <<fd, lock_fd, flock, lock_path, path, stale_claim, creates, cancels>>

UnlinkCorpse(p) ==
  /\ pc[p] = "unlink"
  /\ path' = None
  /\ Goto(p, "rebind")
  /\ UNCHANGED <<fd, lock_fd, flock, lock_path, stale_claim, creates, cancels>>

Listen(p) ==
  /\ pc[p] = "listen"
  /\ fd' = [fd EXCEPT ![p] = "listening"]
  /\ Goto(p, "alloc")
  /\ UNCHANGED <<lock_fd, flock, lock_path, path, stale_claim, creates, cancels>>

(* conn_alloc().                                                            *)
Allocate(p) ==
  /\ pc[p] = "alloc"
  /\ Goto(p, "up")
  /\ UNCHANGED <<fd, lock_fd, flock, lock_path, path, stale_claim, creates, cancels>>

(* An error on the way.  Once the socket is bound its name is unlinked.     *)
CreateFails(p) ==
  /\ \/ pc[p] \in {"open", "flock", "bind", "rebind"} /\ UNCHANGED path
     \/ pc[p] \in {"listen", "alloc"} /\ path' = None
  /\ Goto(p, "fail")
  /\ UNCHANGED <<fd, lock_fd, flock, lock_path, stale_claim, creates, cancels>>

(* fail: close(lock_fd), which drops the lock, then close(fd).              *)
FailCloseLock(p) ==
  /\ pc[p] = "fail"
  /\ lock_fd' = [lock_fd EXCEPT ![p] = None]
  /\ flock' = Unlocked(p)
  /\ Goto(p, "close_fd")
  /\ UNCHANGED <<fd, lock_path, path, stale_claim, creates, cancels>>

FailCloseSocket(p) ==
  /\ pc[p] = "close_fd"
  /\ fd' = [fd EXCEPT ![p] = "none"]
  /\ Goto(p, "out")
  /\ UNCHANGED <<lock_fd, flock, lock_path, path, stale_claim, creates, cancels>>

-----------------------------------------------------------------------------
(* catbsd_xpc_connection_cancel of a listener.                              *)

(* Mutant: the lock is dropped with the socket, before the unlinks.         *)
MutantCancel(p) ==
  /\ pc[p] = "up" /\ cancels < MaxCancels
  /\ cancels' = cancels + 1
  /\ CloseBoth(p)
  /\ path' = Orphaned(p)
  /\ Goto(p, "unlink_path")
  /\ UNCHANGED <<lock_path, stale_claim, creates>>

(* shutdown(fd), close(fd)                                                  *)
Cancel(p) ==
  /\ pc[p] = "up" /\ cancels < MaxCancels
  /\ cancels' = cancels + 1
  /\ fd' = [fd EXCEPT ![p] = "none"]
  /\ path' = Orphaned(p)
  /\ Goto(p, "unlink_path")
  /\ UNCHANGED <<lock_fd, flock, lock_path, stale_claim, creates>>

(* The path is NULL, and stays, if its strdup() failed in create_listener.  *)
UnlinkPath(p) ==
  /\ pc[p] = "unlink_path"
  /\ path' \in {None, path}
  /\ Goto(p, "unlink_lock")
  /\ UNCHANGED <<fd, lock_fd, flock, lock_path, stale_claim, creates, cancels>>

UnlinkLock(p) ==
  /\ pc[p] = "unlink_lock"
  /\ lock_path' \in {None, lock_path}
  /\ Goto(p, "close_lock")
  /\ UNCHANGED <<fd, lock_fd, flock, path, stale_claim, creates, cancels>>

CloseLock(p) ==
  /\ pc[p] = "close_lock"
  /\ CloseBoth(p)
  /\ Goto(p, "out")
  /\ UNCHANGED <<lock_path, path, stale_claim, creates, cancels>>

-----------------------------------------------------------------------------
Step(p) ==
  \/ Begin(p) \/ OpenLock(p) \/ Flock(p) \/ Exists(p)
  \/ Bind(p) \/ AddrInUse(p) \/ UnlinkCorpse(p) \/ Listen(p) \/ Allocate(p)
  \/ CreateFails(p) \/ FailCloseLock(p) \/ FailCloseSocket(p)
  \/ Cancel(p) \/ UnlinkPath(p) \/ UnlinkLock(p) \/ CloseLock(p)
  \/ Crash(p)

Next == \E p \in Procs : Step(p)

Spec == Init /\ [][Next]_vars

-----------------------------------------------------------------------------
(* Properties.                                                              *)

(* Clients of the name are queued for p, and create_listener has not failed *)
(* nor cancel begun.                                                        *)
Serves(p) == pc[p] \in {"alloc", "up"}

(* xpc_shim.h: create_listener "fails with CATBSD_XPC_EEXIST if another     *)
(* live listener already holds the name": no two processes serve the name   *)
(* at once.                                                                 *)
OneListener == \A p, q \in Procs : Serves(p) /\ Serves(q) => p = q

(* The socket name leads to the listener that serves it.                    *)
ListenerReachable == \A p \in Procs : Serves(p) => path = p

(* Whatever processes start, cancel, fail and crash in which order, no two  *)
(* serve the name, up to the first flock() of a lock file that a cancel     *)
(* unlinked after it was opened: that window, which create_listener does    *)
(* not check, is the only way to two listeners.                             *)
ClaimExclusive == stale_claim \/ OneListener

(* Up to then, too, nobody unlinks the socket of a live listener: neither a *)
(* starting one that takes the file for a corpse nor an old one that cleans *)
(* up after itself.                                                         *)
ClaimReachable == stale_claim \/ ListenerReachable
=============================================================================
