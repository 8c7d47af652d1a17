------------------------------ MODULE MachPort ------------------------------
(***************************************************************************)
(* shims/mach_port.c: Mach ports on top of kqueue.  The name of a port is  *)
(* the descriptor of a kqueue, which the kernel hands out again after it   *)
(* was closed; the messages and rights of a port are in a registry of      *)
(* entries with the same number; a user event on the kqueue tells blocked  *)
(* receivers that the queue is worth a look.                               *)
(*                                                                         *)
(* A section under one of the mutexes is a step, and so is a system call,  *)
(* so that threads meet between the queue and the event and between the    *)
(* registry and the descriptor.  The program is assumed to use ports it    *)
(* has and to give none up that another thread is using: the entry a call  *)
(* looked up is the caller's until it returns.                             *)
(***************************************************************************)
EXTENDS Naturals, Sequences, FiniteSets

CONSTANTS
  Threads,      \* threads of the program
  Uses,         \* Uses[t]: the functions thread t calls
  Ports,        \* descriptors the kernel can hand out
  Grants,       \* what insert_right is asked to record: a name, a right
  PortSets,     \* the sequences of ports wait_any is called with
  MaxSends,     \* bound on the messages sent
  MemoryFails   \* malloc() may fail

Functions == {"allocate", "deallocate", "insert_right", "send", "receive",
              "wait_any"}

ASSUME MachAssumption ==
  /\ Uses \in [Threads -> SUBSET Functions]
  /\ PortSets \subseteq Seq(Ports) /\ <<>> \notin PortSets
  /\ MaxSends \in Nat /\ MemoryFails \in BOOLEAN

VARIABLES
  kq,      \* the kqueue behind each descriptor
  entry,   \* the registry g_ports
  th,      \* where each thread is
  owned,   \* the ports the program has
  sent,    \* messages sent so far; the last one is number `sent`
  failed   \* messages whose send returned KERN_FAILURE

vars == <<kq, entry, th, owned, sent, failed>>

(* triggered: the event is on.  It is added without EV_CLEAR, so reading it *)
(* does not turn it off again.                                              *)
Kqueues == [open : BOOLEAN, triggered : BOOLEAN]

Entries == [here : BOOLEAN, msgs : Seq(1..MaxSends), rights : SUBSET Grants]

ThreadStates ==
  [at : {"idle", "register", "close", "trigger", "dequeue", "deadline",
         "wait", "scan", "watch"},
   ports : Seq(Ports),       \* the port, or the ports wait_any was given
   i : Nat,                  \* wait_any's loop index
   forever : BOOLEAN,        \* timeout_ms < 0
   mark : 0..MaxSends]       \* history: the message a send queued, or the
                             \* last one sent before a timed receive

Closed  == [open |-> FALSE, triggered |-> FALSE]
NoEntry == [here |-> FALSE, msgs |-> <<>>, rights |-> {}]
Idle    == [at |-> "idle", ports |-> <<>>, i |-> 1, forever |-> TRUE,
            mark |-> 0]

TypeOK ==
  /\ kq \in [Ports -> Kqueues]
  /\ entry \in [Ports -> Entries]
  /\ th \in [Threads -> ThreadStates]
  /\ \A t \in Threads : th[t].at # "idle" => Len(th[t].ports) >= 1
  /\ owned \subseteq Ports
  /\ sent \in 0..MaxSends /\ failed \subseteq 1..MaxSends

Init ==
  /\ kq = [p \in Ports |-> Closed]
  /\ entry = [p \in Ports |-> NoEntry]
  /\ th = [t \in Threads |-> Idle]
  /\ owned = {}
  /\ sent = 0 /\ failed = {}

port(t) == th[t].ports[1]

Goto(t, l) == th' = [th EXCEPT ![t].at = l]

Begin(t, l, ps, forever, mark) ==
  th' = [th EXCEPT ![t] = [at |-> l, ports |-> ps, i |-> 1, forever |-> forever,
                           mark |-> mark]]

Returns(t) == th' = [th EXCEPT ![t] = Idle]

(* The program has p, and for deallocation, is not using it elsewhere.      *)
CanUse(t, p) == th[t].at = "idle" /\ p \in owned

InUse(p) ==
  \E t \in Threads : \E k \in 1..Len(th[t].ports) : th[t].ports[k] = p

(* Mutant: the head of the list is not set to NULL in a new entry.          *)
MutantEntryGet(p) ==
  IF entry[p].here THEN entry[p] ELSE [here |-> TRUE, msgs |-> <<0>>, rights |-> {}]

(* port_entry_get(p, 1)                                                     *)
port_entry_get(p) ==
  IF entry[p].here THEN entry[p] ELSE [here |-> TRUE, msgs |-> <<>>, rights |-> {}]

-----------------------------------------------------------------------------
(* mach_port_allocate: kqueue(), then the entry.                            *)

Kqueue(t) ==
  /\ th[t].at = "idle"
  /\ \E p \in Ports :
       /\ ~kq[p].open
       /\ kq' = [kq EXCEPT ![p] = [open |-> TRUE, triggered |-> FALSE]]
       /\ Begin(t, "register", <<p>>, TRUE, 0)
  /\ UNCHANGED <<entry, owned, sent, failed>>

(* Mutant: the port is returned whether or not there is an entry for it.    *)
MutantRegister(t) ==
  /\ th[t].at = "register"
  /\ \/ entry' = [entry EXCEPT ![port(t)] = port_entry_get(port(t))]
     \/ MemoryFails /\ UNCHANGED entry
  /\ owned' = owned \cup {port(t)}
  /\ Returns(t)
  /\ UNCHANGED <<kq, sent, failed>>

Register(t) ==
  /\ th[t].at = "register"
  /\ \/ /\ entry' = [entry EXCEPT ![port(t)] = port_entry_get(port(t))]
        /\ owned' = owned \cup {port(t)}
        /\ UNCHANGED kq
     \/ /\ MemoryFails /\ ~entry[port(t)].here
        /\ kq' = [kq EXCEPT ![port(t)] = Closed]
        /\ UNCHANGED <<entry, owned>>
  /\ Returns(t)
  /\ UNCHANGED <<sent, failed>>

-----------------------------------------------------------------------------
(* mach_port_deallocate: the entry, then close().                           *)

(* Mutant: the descriptor is closed first; the entry goes when close() is   *)
(* back.                                                                    *)
MutantRemove(t, p) ==
  /\ CanUse(t, p) /\ ~InUse(p)
  /\ owned' = owned \ {p}
  /\ kq' = [kq EXCEPT ![p] = Closed]
  /\ Begin(t, "close", <<p>>, TRUE, 0)
  /\ UNCHANGED <<entry, sent, failed>>

port_entry_remove(t, p) ==
  /\ CanUse(t, p) /\ ~InUse(p)
  /\ owned' = owned \ {p}
  /\ entry' = [entry EXCEPT ![p] = NoEntry]
  /\ Begin(t, "close", <<p>>, TRUE, 0)
  /\ UNCHANGED <<kq, sent, failed>>

Close(t) ==
  /\ th[t].at = "close"
  /\ kq' = [kq EXCEPT ![port(t)] = Closed]
  /\ Returns(t)
  /\ UNCHANGED <<entry, owned, sent, failed>>

(* Rights accumulate.                                                       *)
mach_port_insert_right(t, p, g) ==
  /\ CanUse(t, p)
  /\ entry' = [entry EXCEPT ![p] = [port_entry_get(p) EXCEPT
                                      !.rights = @ \cup {g}]]
  /\ UNCHANGED <<kq, th, owned, sent, failed>>

-----------------------------------------------------------------------------
(* mach_msg_send: the message goes into the queue, then the event is set.   *)

Enqueue(t, p) ==
  /\ CanUse(t, p) /\ sent < MaxSends
  /\ sent' = sent + 1
  /\ entry' = [entry EXCEPT ![p] = [port_entry_get(p) EXCEPT
                                      !.msgs = Append(@, sent + 1)]]
  /\ Begin(t, "trigger", <<p>>, TRUE, sent + 1)
  /\ UNCHANGED <<kq, owned, failed>>

(* Mutant: the event is registered and not triggered.                       *)
MutantTrigger(t) ==
  /\ th[t].at = "trigger"
  /\ Returns(t)
  /\ UNCHANGED <<kq, entry, owned, sent, failed>>

(* kevent() sets the event, or has no memory for it: the send fails and its *)
(* message stays in the queue.                                              *)
Trigger(t) ==
  /\ th[t].at = "trigger"
  /\ \/ /\ kq' = [kq EXCEPT ![port(t)].triggered = kq[port(t)].open]
        /\ UNCHANGED failed
     \/ /\ MemoryFails /\ ~kq[port(t)].triggered
        /\ failed' = failed \cup {th[t].mark}
        /\ UNCHANGED kq
  /\ Returns(t)
  /\ UNCHANGED <<entry, owned, sent>>

-----------------------------------------------------------------------------
(* mach_msg_receive                                                         *)

Receive(t, p, forever) ==
  /\ CanUse(t, p) /\ entry[p].here
  /\ Begin(t, "dequeue", <<p>>, forever, IF forever THEN 0 ELSE sent)
  /\ UNCHANGED <<kq, entry, owned, sent, failed>>

(* Only a call with a timeout looks at the clock.                           *)
AfterLook(t) == IF th[t].forever THEN "wait" ELSE "deadline"

(* Mutant: the deadline is looked at before the queue.                      *)
MutantDequeue(t) ==
  /\ th[t].at = "dequeue"
  /\ \/ /\ entry[port(t)].msgs # <<>>
        /\ entry' = [entry EXCEPT ![port(t)].msgs = Tail(@)]
        /\ Returns(t)
     \/ Goto(t, AfterLook(t)) /\ UNCHANGED entry
  /\ UNCHANGED <<kq, owned, sent, failed>>

(* port_entry_dequeue, under the entry's lock.                              *)
Dequeue(t) ==
  /\ th[t].at = "dequeue"
  /\ \/ /\ entry[port(t)].msgs # <<>>
        /\ entry' = [entry EXCEPT ![port(t)].msgs = Tail(@)]
        /\ Returns(t)
     \/ /\ entry[port(t)].msgs = <<>>
        /\ Goto(t, AfterLook(t)) /\ UNCHANGED entry
  /\ UNCHANGED <<kq, owned, sent, failed>>

(* The queue was empty: KERN_TIMED_OUT if the deadline is over, without a   *)
(* second look.                                                             *)
Deadline(t) ==
  /\ th[t].at = "deadline"
  /\ Goto(t, "wait") \/ Returns(t)
  /\ UNCHANGED <<kq, entry, owned, sent, failed>>

(* Mutant: the event is registered with EV_CLEAR, reading it turns it off.  *)
MutantWait(t) ==
  /\ th[t].at = "wait"
  /\ \/ /\ kq[port(t)].triggered
        /\ kq' = [kq EXCEPT ![port(t)].triggered = FALSE]
        /\ Goto(t, "dequeue")
     \/ /\ ~kq[port(t)].triggered /\ ~th[t].forever
        /\ Returns(t) /\ UNCHANGED kq
  /\ UNCHANGED <<entry, owned, sent, failed>>

(* kevent() returns the event, or nothing when time is up.                  *)
Wait(t) ==
  /\ th[t].at = "wait"
  /\ \/ kq[port(t)].triggered /\ Goto(t, "dequeue")
     \/ ~kq[port(t)].triggered /\ ~th[t].forever /\ Returns(t)
  /\ UNCHANGED <<kq, entry, owned, sent, failed>>

-----------------------------------------------------------------------------
(* mach_port_wait_any: scan the queues, wait for any of the events, scan    *)
(* again.                                                                   *)

WaitAny(t, ps, forever) ==
  /\ th[t].at = "idle" /\ \A k \in 1..Len(ps) : ps[k] \in owned
  /\ Begin(t, "scan", ps, forever, 0)
  /\ UNCHANGED <<kq, entry, owned, sent, failed>>

(* Mutant: the scan stops before the last port.                             *)
MutantScan(t) ==
  /\ th[t].at = "scan"
  /\ \/ /\ th[t].i < Len(th[t].ports)
        /\ IF entry[th[t].ports[th[t].i]].msgs # <<>>
             THEN Returns(t)
             ELSE th' = [th EXCEPT ![t].i = @ + 1]
     \/ /\ th[t].i >= Len(th[t].ports)
        /\ th' = [th EXCEPT ![t].at = "watch", ![t].i = 1]
  /\ UNCHANGED <<kq, entry, owned, sent, failed>>

Scan(t) ==
  /\ th[t].at = "scan"
  /\ \/ /\ th[t].i <= Len(th[t].ports)
        /\ IF entry[th[t].ports[th[t].i]].msgs # <<>>
             THEN Returns(t)
             ELSE th' = [th EXCEPT ![t].i = @ + 1]
     \/ /\ th[t].i > Len(th[t].ports)
        /\ \/ th' = [th EXCEPT ![t].at = "watch", ![t].i = 1]
           \/ ~th[t].forever /\ Returns(t)
  /\ UNCHANGED <<kq, entry, owned, sent, failed>>

(* The supervisor kqueue is readable while one of the ports' kqueues is.    *)
Watch(t) ==
  LET ready == \E k \in 1..Len(th[t].ports) : kq[th[t].ports[k]].triggered IN
  /\ th[t].at = "watch"
  /\ \/ ready /\ Goto(t, "scan")
     \/ ~ready /\ ~th[t].forever /\ Returns(t)
  /\ UNCHANGED <<kq, entry, owned, sent, failed>>

(* EINTR: both loops start over.                                            *)
Interrupted(t) ==
  /\ \/ th[t].at = "wait" /\ Goto(t, "dequeue")
     \/ th[t].at = "watch" /\ Goto(t, "scan")
  /\ UNCHANGED <<kq, entry, owned, sent, failed>>

-----------------------------------------------------------------------------
Step(t) ==
  \/ Register(t) \/ Close(t) \/ Trigger(t) \/ Dequeue(t) \/ Deadline(t)
  \/ Wait(t) \/ Scan(t) \/ Watch(t)

Call(t) ==
  \/ "allocate" \in Uses[t] /\ Kqueue(t)
  \/ \E p \in Ports :
       \/ "deallocate" \in Uses[t] /\ port_entry_remove(t, p)
       \/ \E g \in Grants :
            "insert_right" \in Uses[t] /\ mach_port_insert_right(t, p, g)
       \/ "send" \in Uses[t] /\ Enqueue(t, p)
       \/ \E forever \in BOOLEAN : "receive" \in Uses[t] /\ Receive(t, p, forever)
  \/ \E ps \in PortSets, forever \in BOOLEAN :
       "wait_any" \in Uses[t] /\ WaitAny(t, ps, forever)

Next == \E t \in Threads : Step(t) \/ Call(t) \/ Interrupted(t)

Spec == Init /\ [][Next]_vars

(* Threads run and deadlines pass; signals need not come.                   *)
LiveSpec == Spec /\ \A t \in Threads : WF_vars(Step(t))

-----------------------------------------------------------------------------
(* Properties.                                                              *)

(* The messages in the queue of p.                                          *)
Messages(p) == {entry[p].msgs[k] : k \in 1..Len(entry[p].msgs)}

(* A port the program has is an open kqueue with an entry, whatever other   *)
(* threads allocate and give up at the same time.                           *)
OwnedIsLive == \A p \in owned : kq[p].open /\ entry[p].here

(* mach_port.c, mach_port_deallocate: "close kqueue, drop its queued        *)
(* messages and rights".  A port that mach_port_allocate returns inherits   *)
(* neither messages nor rights from an earlier port with its number.        *)
FreshPort ==
  [][\A p \in owned' \ owned : entry'[p].msgs = <<>> /\ entry'[p].rights = {}]_vars

(* No wakeup is lost: while a message is queued, the port's event is on, so *)
(* nobody who waits stays asleep, or its own sender is just about to turn   *)
(* the event on, or was told that it could not.                             *)
SignalPending ==
  \A p \in Ports : \A m \in Messages(p) :
    \/ kq[p].triggered
    \/ m \in failed
    \/ \E t \in Threads : th[t].at = "trigger" /\ port(t) = p /\ th[t].mark = m

(* mach_msg_receive gives up on port p.                                     *)
GivesUp(t) ==
  /\ th[t].at \in {"dequeue", "deadline", "wait"} /\ th'[t].at = "idle"
  /\ entry'[port(t)] = entry[port(t)]

(* mach_msg_receive never reports a timeout over a message that was sent    *)
(* before it was called; and when it has waited in kevent() it gives up     *)
(* only if every message in the queue is one whose send has not returned    *)
(* or has failed.  (A message sent between its look into the queue and its  *)
(* look at the clock it may leave behind.)                                  *)
NoFalseTimeout ==
  [][\A t \in Threads : GivesUp(t) =>
       \A m \in Messages(port(t)) :
         /\ m > th[t].mark
         /\ th[t].at = "wait" =>
              \/ m \in failed
              \/ \E u \in Threads : th[u].at = "trigger" /\ th[u].mark = m]_vars

(* A message in the queue of p whose sender was not told that it failed.    *)
Waiting(p) == Messages(p) \ failed # {}

(* A receiver comes back while there are messages for it, unless the other  *)
(* receivers take them all.                                                 *)
ReceiverWakes ==
  \A t \in Threads :
    (th[t].at \in {"dequeue", "deadline", "wait"} /\ Waiting(port(t)))
      ~> (th[t].at = "idle" \/ ~Waiting(port(t)))

AnyMessage(t) == \E k \in 1..Len(th[t].ports) : Waiting(th[t].ports[k])

(* mach_port.h, mach_port_wait_any: "block until at least one of            *)
(* ports[0..count) has a message queued".  It returns then, unless the      *)
(* queues are emptied by others before it looks.                            *)
WaitAnyWakes ==
  \A t \in Threads :
    (th[t].at \in {"scan", "watch"} /\ AnyMessage(t))
      ~> (th[t].at = "idle" \/ ~AnyMessage(t))
=============================================================================
