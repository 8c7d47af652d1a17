------------------------- MODULE XpcListenerProofs -------------------------
(***************************************************************************)
(* The lock file claims the name correctly, for any number of processes,   *)
(* creations, cancels, failures and crashes, up to the first flock() of a  *)
(* lock file that was unlinked after it was opened; and if listeners only  *)
(* crash and never cancel, there is no such flock().                       *)
(***************************************************************************)
EXTENDS XpcListener, TLAPS

(* Between flock() and the unlink of the lock file: the claim lasts.        *)
Holding == {"bind", "unlink", "rebind", "listen", "alloc", "up",
            "unlink_path", "unlink_lock"}

(* A descriptor of the lock file is open from open() to the end.            *)
LockOpen ==
  \A p \in Procs :
    /\ pc[p] \in Holding \cup {"flock"} => lock_fd[p] # None
    /\ pc[p] \in {"out", "open", "close_fd"} => lock_fd[p] = None

(* The kernel's locks: held through a descriptor of the locked file.        *)
LockByDescriptor ==
  \A i \in Inodes : flock[i] # None => lock_fd[flock[i]] = i

(* Whoever holds the claim has locked the inode the name leads to.          *)
LockHeld ==
  \A p \in Procs : pc[p] \in Holding => lock_fd[p] = lock_path /\ flock[lock_path] = p

(* From bind() on the name of the socket leads to the holder of the claim.  *)
BoundWhile == \A p \in Procs : pc[p] \in {"listen", "alloc", "up"} => path = p

Claimed == LockHeld /\ BoundWhile

IInv == TypeOK /\ LockOpen /\ LockByDescriptor /\ (stale_claim \/ Claimed)

(* Initially nobody has anything open.                                      *)
LEMMA InitInv == Init => IInv
<1> SUFFICES ASSUME Init PROVE IInv
  OBVIOUS
<1>1. stale_claim \in BOOLEAN /\ creates = 0 /\ cancels = 0
  BY DEF Init
<1>2. TypeOK
  BY <1>1, ListenerAssumption DEF Init, TypeOK, PCs
<1>3. LockOpen /\ LockByDescriptor /\ Claimed
  BY ListenerAssumption
     DEF Init, LockOpen, LockByDescriptor, LockHeld, BoundWhile, Claimed, Holding
<1> QED BY <1>2, <1>3 DEF IInv

(* At most one process holds the claim.                                     *)
LEMMA OneHolder ==
  ASSUME LockHeld, NEW p \in Procs, NEW q \in Procs,
         pc[p] \in Holding, pc[q] \in Holding
  PROVE  p = q
BY DEF LockHeld

(* What the kernel keeps, and the types, whatever was claimed.              *)
LEMMA StepKernel ==
  ASSUME IInv, NEW p \in Procs, Step(p)
  PROVE  TypeOK' /\ LockOpen' /\ LockByDescriptor'
<1> USE ListenerAssumption DEF IInv, TypeOK, LockOpen, LockByDescriptor, Goto, PCs,
                               Holding
<1>1. CASE Begin(p)
  BY <1>1 DEF Begin
<1>2. CASE OpenLock(p)
  <2>1. PICK i \in Inodes :
          /\ IF lock_path = None THEN Unused(i) ELSE i = lock_path
          /\ lock_path' = i
          /\ lock_fd' = [lock_fd EXCEPT ![p] = i]
    BY <1>2 DEF OpenLock
  <2> QED BY <1>2, <2>1 DEF OpenLock
<1>3. CASE Flock(p)
  BY <1>3 DEF Flock
<1>4. CASE Exists(p)
  BY <1>4 DEF Exists
<1>5. CASE Bind(p) \/ AddrInUse(p) \/ UnlinkCorpse(p)
  BY <1>5 DEF Bind, AddrInUse, UnlinkCorpse
<1>6. CASE Listen(p) \/ Allocate(p) \/ CreateFails(p)
  BY <1>6 DEF Listen, Allocate, CreateFails
<1>7. CASE FailCloseLock(p) \/ FailCloseSocket(p)
  BY <1>7 DEF FailCloseLock, FailCloseSocket, Unlocked
<1>8. CASE Cancel(p) \/ UnlinkPath(p) \/ UnlinkLock(p)
  BY <1>8 DEF Cancel, UnlinkPath, UnlinkLock, Orphaned
<1>9. CASE CloseLock(p)
  BY <1>9 DEF CloseLock, CloseBoth, Unlocked
<1>10. CASE Crash(p)
  BY <1>10 DEF Crash, CloseBoth, Unlocked, Orphaned
<1> QED BY <1>1, <1>2, <1>3, <1>4, <1>5, <1>6, <1>7, <1>8, <1>9, <1>10 DEF Step

(* The claim, as long as nobody locks an unlinked lock file.                *)
LEMMA StepClaim ==
  ASSUME IInv, NEW p \in Procs, Step(p), ~stale_claim'
  PROVE  Claimed'
<1>1. Claimed
  BY DEF IInv, Step, Begin, OpenLock, Flock, Exists, Bind, AddrInUse, UnlinkCorpse,
         Listen, Allocate, CreateFails, FailCloseLock, FailCloseSocket, Cancel,
         UnlinkPath, UnlinkLock, CloseLock, Crash
<1> USE <1>1, ListenerAssumption
    DEF IInv, TypeOK, LockOpen, LockByDescriptor, LockHeld, BoundWhile, Claimed, Goto,
        Holding
<1>2. CASE Begin(p)
  BY <1>2 DEF Begin
<1>3. CASE OpenLock(p)
  <2>1. PICK i \in Inodes :
          /\ IF lock_path = None THEN Unused(i) ELSE i = lock_path
          /\ lock_path' = i
          /\ lock_fd' = [lock_fd EXCEPT ![p] = i]
    BY <1>3 DEF OpenLock
  <2>2. lock_path = None => \A q \in Procs : pc[q] \notin Holding
    OBVIOUS
  <2> QED BY <1>3, <2>1, <2>2 DEF OpenLock
<1>4. CASE Flock(p)
  BY <1>4 DEF Flock
<1>5. CASE Exists(p)
  BY <1>5 DEF Exists
<1>6. CASE Bind(p)
  BY <1>6 DEF Bind
<1>7. CASE AddrInUse(p)
  BY <1>7 DEF AddrInUse
<1>8. CASE UnlinkCorpse(p)
  BY <1>8 DEF UnlinkCorpse
<1>9. CASE Listen(p) \/ Allocate(p)
  BY <1>9 DEF Listen, Allocate
<1>10. CASE CreateFails(p)
  BY <1>10 DEF CreateFails
<1>11. CASE FailCloseLock(p)
  BY <1>11 DEF FailCloseLock, Unlocked
<1>12. CASE FailCloseSocket(p)
  BY <1>12 DEF FailCloseSocket
<1>13. CASE Cancel(p)
  BY <1>13 DEF Cancel, Orphaned
<1>14. CASE UnlinkPath(p)
  BY <1>14 DEF UnlinkPath
<1>15. CASE UnlinkLock(p)
  BY <1>15 DEF UnlinkLock
<1>16. CASE CloseLock(p)
  BY <1>16 DEF CloseLock, CloseBoth, Unlocked
<1>17. CASE Crash(p)
  BY <1>17 DEF Crash, CloseBoth, Unlocked, Orphaned
<1> QED BY <1>2, <1>3, <1>4, <1>5, <1>6, <1>7, <1>8, <1>9, <1>10, <1>11, <1>12,
           <1>13, <1>14, <1>15, <1>16, <1>17 DEF Step

(* The inductive invariant.                                                 *)
LEMMA Invariant == Spec => []IInv
<1>1. IInv /\ [Next]_vars => IInv'
  <2> SUFFICES ASSUME IInv, [Next]_vars PROVE IInv'
    OBVIOUS
  <2>1. CASE Next
    <3>1. PICK p \in Procs : Step(p)
      BY <2>1 DEF Next
    <3>2. TypeOK' /\ LockOpen' /\ LockByDescriptor'
      BY <3>1, StepKernel
    <3>3. stale_claim' \/ Claimed'
      BY <3>1, StepClaim
    <3> QED BY <3>2, <3>3 DEF IInv
  <2>2. CASE UNCHANGED vars
    BY <2>2 DEF vars, IInv, TypeOK, LockOpen, LockByDescriptor, LockHeld, BoundWhile,
                Claimed
  <2> QED BY <2>1, <2>2
<1> QED BY <1>1, InitInv, PTL DEF Spec

(* The flock() is a sound claim of the name: up to the first lock of an     *)
(* unlinked lock file, processes that are started, fail, crash and cancel   *)
(* in any order never serve the name two at a time.                         *)
THEOREM NameHasOneListener == Spec => []ClaimExclusive
<1>1. IInv => ClaimExclusive
  BY OneHolder DEF IInv, Claimed, ClaimExclusive, OneListener, Serves, Holding
<1> QED BY <1>1, Invariant, PTL

(* Up to then a live listener keeps its socket's name: no starting listener *)
(* removes it as a corpse and no cancel removes a successor's.              *)
THEOREM NameLeadsToListener == Spec => []ClaimReachable
<1>1. IInv => ClaimReachable
  BY DEF IInv, Claimed, BoundWhile, ClaimReachable, ListenerReachable, Serves
<1> QED BY <1>1, Invariant, PTL

-----------------------------------------------------------------------------
(* Without cancel the lock file keeps its inode.                            *)

NoCleanup ==
  /\ cancels = 0
  /\ \A p \in Procs : pc[p] \notin {"unlink_path", "unlink_lock", "close_lock"}

(* Everybody who has the lock file open has the inode its name leads to.    *)
SameInode == \A p \in Procs : lock_fd[p] \in {None, lock_path}

CrashInv == IInv /\ NoCleanup /\ SameInode /\ ~stale_claim

(* No step of a process locks an unlinked file if cancel is never called.   *)
LEMMA StepCrash ==
  ASSUME MaxCancels = 0, CrashInv, NEW p \in Procs, Step(p)
  PROVE  NoCleanup' /\ SameInode' /\ ~stale_claim'
<1> USE ListenerAssumption DEF CrashInv, IInv, TypeOK, NoCleanup, SameInode, Goto
<1>1. CASE OpenLock(p)
  <2>1. PICK i \in Inodes :
          /\ IF lock_path = None THEN Unused(i) ELSE i = lock_path
          /\ lock_path' = i
          /\ lock_fd' = [lock_fd EXCEPT ![p] = i]
    BY <1>1 DEF OpenLock
  <2> QED BY <1>1, <2>1 DEF OpenLock
<1>2. CASE Flock(p)
  BY <1>2 DEF Flock, LockOpen
<1>3. CASE \/ Begin(p) \/ Exists(p) \/ Bind(p) \/ AddrInUse(p) \/ UnlinkCorpse(p)
           \/ Listen(p) \/ Allocate(p) \/ CreateFails(p)
  BY <1>3 DEF Begin, Exists, Bind, AddrInUse, UnlinkCorpse, Listen, Allocate,
              CreateFails
<1>4. CASE FailCloseLock(p) \/ FailCloseSocket(p) \/ Crash(p)
  BY <1>4 DEF FailCloseLock, FailCloseSocket, Crash, CloseBoth
<1>5. CASE Cancel(p) \/ UnlinkPath(p) \/ UnlinkLock(p) \/ CloseLock(p)
  BY <1>5 DEF Cancel, UnlinkPath, UnlinkLock, CloseLock
<1> QED BY <1>1, <1>2, <1>3, <1>4, <1>5 DEF Step

(* Listeners that only crash and are started again never serve the name two *)
(* at a time, without any exception.                                        *)
THEOREM CrashSafe == MaxCancels = 0 /\ Spec => []OneListener
<1>1. Init => CrashInv
  BY InitInv DEF Init, CrashInv, NoCleanup, SameInode
<1>2. ASSUME MaxCancels = 0 PROVE CrashInv /\ IInv' /\ [Next]_vars => CrashInv'
  <2> SUFFICES ASSUME CrashInv, IInv', [Next]_vars PROVE CrashInv'
    OBVIOUS
  <2>1. CASE Next
    BY <1>2, <2>1, StepCrash DEF Next, CrashInv
  <2>2. CASE UNCHANGED vars
    BY <2>2 DEF vars, CrashInv, NoCleanup, SameInode
  <2> QED BY <2>1, <2>2
<1>3. CrashInv => OneListener
  BY OneHolder DEF CrashInv, IInv, Claimed, OneListener, Serves, Holding
<1>4. CASE MaxCancels = 0
  <2>1. CrashInv /\ IInv' /\ [Next]_vars => CrashInv'
    BY <1>2, <1>4
  <2> QED BY <1>1, <1>3, <2>1, Invariant, PTL DEF Spec
<1>5. CASE MaxCancels # 0
  BY <1>5
<1> QED BY <1>4, <1>5
=============================================================================
