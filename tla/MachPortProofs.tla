--------------------------- MODULE MachPortProofs ---------------------------
(***************************************************************************)
(* The Mach port shim keeps registry, descriptors and events in step for   *)
(* any number of threads, ports and messages.                              *)
(*                                                                         *)
(* No section of the code holds two of the three together, so that the     *)
(* invariants need to know who is in between: a descriptor that is being   *)
(* opened or closed belongs to one thread and to no port of the program    *)
(* (InBetween), what a call works on is not given up under it (UsedOwned), *)
(* and there are no entries but those of the program's ports (NoStray).    *)
(* Messages are numbered in the order they are sent (Numbered), so that a  *)
(* receiver that found its queue empty knows the ones that come after by   *)
(* their numbers (LookedEmpty).                                            *)
(***************************************************************************)
EXTENDS MachPort, TLAPS

(* Where a thread has a descriptor that is not yet or no longer a port.     *)
Between == {"register", "close"}

InBetween ==
  \A t \in Threads : th[t].at \in Between =>
    /\ kq[port(t)].open
    /\ port(t) \notin owned
    /\ \A u \in Threads :
         th[u].at \in Between /\ port(u) = port(t) => u = t

UsedOwned ==
  \A t \in Threads : th[t].at \notin Between \cup {"idle"} =>
    \A k \in 1..Len(th[t].ports) : th[t].ports[k] \in owned

NoStray == \A p \in Ports \ owned : entry[p] = NoEntry

Numbered ==
  /\ \A p \in Ports : \A m \in Messages(p) : m \in Nat /\ m <= sent
  /\ \A t \in Threads :
       th[t].mark <= sent /\ (th[t].at = "trigger" => th[t].mark >= 1)

LookedEmpty ==
  \A t \in Threads : th[t].at \in {"deadline", "wait"} =>
    \A m \in Messages(port(t)) : m > th[t].mark

IInv ==
  /\ TypeOK /\ OwnedIsLive /\ InBetween /\ UsedOwned /\ NoStray /\ SignalPending
  /\ Numbered /\ LookedEmpty

(* Where no entry changes, neither do the queues.                           *)
LEMMA SameMessages == entry' = entry => \A p \in Ports : Messages(p)' = Messages(p)
BY DEF Messages

LEMMA EmptyMessages ==
  ASSUME NEW p \in Ports, entry[p].msgs = <<>>
  PROVE  Messages(p) = {}
BY DEF Messages

(* Initially there are no ports, no entries and no events.                  *)
LEMMA InitInv == Init => IInv
<1> SUFFICES ASSUME Init PROVE IInv
  OBVIOUS
<1> USE MachAssumption DEF Init
<1>1. TypeOK
  BY DEF TypeOK, Kqueues, Entries, ThreadStates, Closed, NoEntry, Idle
<1>2. OwnedIsLive /\ InBetween /\ UsedOwned /\ NoStray
  BY DEF OwnedIsLive, InBetween, UsedOwned, NoStray, Between, Idle
<1>3. \A p \in Ports : Messages(p) = {}
  BY DEF Messages, NoEntry
<1>4. SignalPending /\ Numbered /\ LookedEmpty
  BY <1>3 DEF SignalPending, Numbered, LookedEmpty, Idle
<1> QED BY <1>1, <1>2, <1>4 DEF IInv

-----------------------------------------------------------------------------
(* What a thread works on is a port number.                                 *)
LEMMA PortType ==
  ASSUME TypeOK, NEW t \in Threads, th[t].at # "idle"
  PROVE  port(t) \in Ports
BY DEF TypeOK, port, ThreadStates

(* Where a thread waits for messages or looks for them.                     *)
Looking == {"dequeue", "deadline", "wait", "scan", "watch"}

(* A thread that begins to look for messages on ports of the program, goes  *)
(* on with it or gives up changes nothing but its own place.                *)
LEMMA MoveInv ==
  ASSUME IInv, NEW t \in Threads, th[t].at \in Looking \cup {"idle"},
         NEW s \in ThreadStates,
         \/ s = Idle
         \/ /\ s.at \in Looking /\ Len(s.ports) >= 1
            /\ \A k \in 1..Len(s.ports) : s.ports[k] \in owned
            /\ s.mark <= sent
            /\ s.at \in {"deadline", "wait"} =>
                 \A m \in Messages(s.ports[1]) : m > s.mark,
         th' = [th EXCEPT ![t] = s],
         UNCHANGED <<kq, entry, owned, sent, failed>>
  PROVE  IInv'
<1>1. \A u \in Threads : th'[u] = IF u = t THEN s ELSE th[u]
  BY DEF IInv, TypeOK
<1>2. TypeOK'
  BY <1>1 DEF IInv, TypeOK, Idle
<1>3. OwnedIsLive' /\ NoStray'
  BY DEF IInv, OwnedIsLive, NoStray
<1>4. InBetween'
  BY <1>1 DEF IInv, InBetween, Between, Looking, port, Idle
<1>5. UsedOwned'
  BY <1>1 DEF IInv, UsedOwned, Between, Looking, Idle
<1>6. SignalPending'
  BY <1>1, SameMessages DEF IInv, SignalPending, Looking, port, Idle
<1>7. Numbered'
  BY <1>1, SameMessages DEF IInv, Numbered, TypeOK, Looking, Idle
<1>8. \A q : Messages(q)' = Messages(q)
  BY DEF Messages
<1>9. LookedEmpty'
  BY <1>1, <1>8 DEF IInv, LookedEmpty, port, Idle
<1> QED BY <1>2, <1>3, <1>4, <1>5, <1>6, <1>7, <1>9 DEF IInv

(* A step of t that queues nothing leaves the numbering alone.              *)
LEMMA NumbersStay ==
  ASSUME IInv, NEW t \in Threads, NEW s, s.at \notin {"deadline", "wait", "trigger"},
         s.mark = 0, \A u \in Threads : th'[u] = IF u = t THEN s ELSE th[u],
         sent' = sent, \A q \in Ports : Messages(q)' \subseteq Messages(q)
  PROVE  Numbered' /\ LookedEmpty'
<1>1. Numbered'
  BY DEF IInv, TypeOK, Numbered
<1>2. \A u \in Threads : th[u].at \in {"deadline", "wait"} => port(u) \in Ports
  BY PortType DEF IInv
<1>3. \A u \in Threads : u # t => port(u)' = port(u)
  BY DEF port
<1>4. LookedEmpty'
  <2> SUFFICES ASSUME NEW u \in Threads, th'[u].at \in {"deadline", "wait"},
                      NEW m \in Messages(port(u))'
               PROVE  m > th'[u].mark
    BY DEF LookedEmpty
  <2>1. u # t /\ th'[u] = th[u] /\ port(u)' = port(u) /\ port(u) \in Ports
    BY <1>2, <1>3
  <2>2. m \in Messages(port(u))
    BY <2>1
  <2> QED BY <2>1, <2>2 DEF IInv, LookedEmpty
<1> QED BY <1>1, <1>4

-----------------------------------------------------------------------------
(* Opening a descriptor and making it a port.                               *)
LEMMA KqueueInv ==
  ASSUME IInv, NEW t \in Threads, Kqueue(t)
  PROVE  IInv'
<1>1. PICK p \in Ports :
        /\ ~kq[p].open
        /\ kq' = [kq EXCEPT ![p] = [open |-> TRUE, triggered |-> FALSE]]
        /\ Begin(t, "register", <<p>>, TRUE, 0)
  BY DEF Kqueue
<1> DEFINE s == [at |-> "register", ports |-> <<p>>, i |-> 1, forever |-> TRUE,
                  mark |-> 0]
<1>2. /\ th[t].at = "idle" /\ UNCHANGED <<entry, owned, sent, failed>>
      /\ s \in ThreadStates /\ Len(s.ports) = 1 /\ s.ports[1] = p
  BY MachAssumption DEF Kqueue, ThreadStates
<1>3. \A u \in Threads : th'[u] = IF u = t THEN s ELSE th[u]
  BY <1>1 DEF IInv, TypeOK, Begin
<1>4. \A q \in Ports : kq'[q] = IF q = p THEN [open |-> TRUE, triggered |-> FALSE] ELSE kq[q]
  BY <1>1 DEF IInv, TypeOK
<1>5. p \notin owned
  BY <1>1 DEF IInv, OwnedIsLive
<1>6. s.at = "register" /\ s.mark = 0
  OBVIOUS
<1>7. TypeOK'
  BY <1>1, <1>2, <1>3 DEF IInv, TypeOK, Kqueues, Begin
<1>8. OwnedIsLive' /\ NoStray'
  BY <1>2, <1>4, <1>5 DEF IInv, OwnedIsLive, NoStray, TypeOK
<1> HIDE DEF s
<1>9. InBetween'
  <2>1. \A u \in Threads : th[u].at \in Between => port(u) # p /\ port(u) \in Ports
    BY <1>1, PortType DEF IInv, InBetween, Between
  <2> QED BY <1>2, <1>3, <1>4, <1>5, <1>6, <2>1 DEF IInv, InBetween, Between, port
<1>10. UsedOwned'
  BY <1>2, <1>3, <1>6 DEF IInv, UsedOwned, Between
<1>11. SignalPending'
  <2>1. entry[p].msgs = <<>>
    BY <1>5 DEF IInv, NoStray, NoEntry
  <2> QED BY <1>2, <1>3, <1>4, <2>1, SameMessages, EmptyMessages
          DEF IInv, SignalPending, port
<1>12. Numbered' /\ LookedEmpty'
  BY <1>2, <1>3, <1>6, SameMessages, NumbersStay
<1> QED BY <1>7, <1>8, <1>9, <1>10, <1>11, <1>12 DEF IInv

(* The entry a new port gets.                                               *)
LEMMA RegisterInv ==
  ASSUME IInv, NEW t \in Threads, Register(t)
  PROVE  IInv'
<1> DEFINE p == port(t)
<1>1. th[t].at = "register" /\ UNCHANGED <<sent, failed>> /\ th' = [th EXCEPT ![t] = Idle]
  BY DEF Register, Returns
<1>2. p \in Ports /\ p \notin owned /\ kq[p].open /\ entry[p] = NoEntry
  BY <1>1, PortType DEF IInv, InBetween, Between, NoStray
<1>3. \A u \in Threads : th[u].at \in Between /\ port(u) = p => u = t
  BY <1>1 DEF IInv, InBetween, Between
<1>4. Idle \in ThreadStates /\ Idle.at = "idle" /\ Idle.mark = 0
  BY MachAssumption DEF Idle, ThreadStates
<1>5. \A u \in Threads : th'[u] = IF u = t THEN Idle ELSE th[u]
  BY <1>1 DEF IInv, TypeOK
<1> HIDE DEF p
<1>6. CASE /\ entry' = [entry EXCEPT ![p] = port_entry_get(p)]
           /\ owned' = owned \cup {p} /\ UNCHANGED kq
  <2>1. port_entry_get(p) = [here |-> TRUE, msgs |-> <<>>, rights |-> {}]
    BY <1>2 DEF port_entry_get, NoEntry
  <2>2. \A q \in Ports : entry'[q] = IF q = p THEN port_entry_get(p) ELSE entry[q]
    BY <1>6 DEF IInv, TypeOK
  <2>3. port_entry_get(p) \in Entries
    BY <2>1 DEF Entries
  <2>4. TypeOK'
    BY <1>1, <1>2, <1>4, <1>5, <1>6, <2>3 DEF IInv, TypeOK
  <2>5. OwnedIsLive' /\ NoStray'
    BY <1>2, <1>6, <2>1, <2>2 DEF IInv, OwnedIsLive, NoStray, TypeOK
  <2>6. InBetween'
    BY <1>3, <1>4, <1>5, <1>6 DEF IInv, InBetween, Between, port
  <2>7. UsedOwned'
    BY <1>4, <1>5, <1>6 DEF IInv, UsedOwned, Between
  <2>9. \A q \in Ports : Messages(q)' \subseteq Messages(q)
    BY <2>1, <2>2 DEF Messages
  <2>8. SignalPending'
    BY <1>1, <1>5, <1>6, <2>9 DEF IInv, SignalPending, port
  <2>10. Numbered' /\ LookedEmpty'
    BY <1>1, <1>4, <1>5, <2>9, NumbersStay
  <2> QED BY <2>4, <2>5, <2>6, <2>7, <2>8, <2>10 DEF IInv
<1>7. CASE kq' = [kq EXCEPT ![p] = Closed] /\ UNCHANGED <<entry, owned>>
  <2>1. \A q \in Ports : kq'[q] = IF q = p THEN Closed ELSE kq[q]
    BY <1>7 DEF IInv, TypeOK
  <2>2. Closed \in Kqueues
    BY DEF Closed, Kqueues
  <2>3. TypeOK'
    BY <1>1, <1>4, <1>5, <1>7, <2>2 DEF IInv, TypeOK
  <2>4. OwnedIsLive' /\ NoStray'
    BY <1>2, <1>7, <2>1 DEF IInv, OwnedIsLive, NoStray, TypeOK
  <2>5. InBetween'
    <3>1. \A u \in Threads \ {t} : th[u].at \in Between => port(u) \in Ports /\ port(u) # p
      BY <1>3, PortType DEF IInv, Between
    <3> QED BY <1>3, <1>4, <1>5, <1>7, <2>1, <3>1 DEF IInv, InBetween, Between, port
  <2>6. UsedOwned'
    BY <1>4, <1>5, <1>7 DEF IInv, UsedOwned, Between
  <2>7. SignalPending'
    <3>1. entry[p].msgs = <<>>
      BY <1>2 DEF NoEntry
    <3> QED BY <1>1, <1>2, <1>5, <1>7, <2>1, <3>1, SameMessages, EmptyMessages
            DEF IInv, SignalPending, port
  <2>8. Numbered' /\ LookedEmpty'
    BY <1>1, <1>4, <1>5, <1>7, SameMessages, NumbersStay
  <2> QED BY <2>3, <2>4, <2>5, <2>6, <2>7, <2>8 DEF IInv
<1> QED BY <1>6, <1>7 DEF Register, p

-----------------------------------------------------------------------------
(* Giving a port up.  Nobody else works on it, so its entry can go, and the *)
(* descriptor stays open until close().                                     *)
LEMMA RemoveInv ==
  ASSUME IInv, NEW t \in Threads, NEW p \in Ports, port_entry_remove(t, p)
  PROVE  IInv'
<1> DEFINE s == [at |-> "close", ports |-> <<p>>, i |-> 1, forever |-> TRUE,
                  mark |-> 0]
<1>1. /\ th[t].at = "idle" /\ p \in owned /\ ~InUse(p)
      /\ owned' = owned \ {p} /\ UNCHANGED <<kq, sent, failed>>
      /\ entry' = [entry EXCEPT ![p] = NoEntry]
      /\ th' = [th EXCEPT ![t] = s]
  BY DEF port_entry_remove, CanUse, Begin
<1>2. /\ s \in ThreadStates /\ s.at = "close" /\ s.mark = 0
      /\ Len(s.ports) = 1 /\ s.ports[1] = p
  BY MachAssumption DEF ThreadStates
<1> HIDE DEF s
<1>3. \A u \in Threads : th'[u] = IF u = t THEN s ELSE th[u]
  BY <1>1 DEF IInv, TypeOK
<1>4. \A q \in Ports : entry'[q] = IF q = p THEN NoEntry ELSE entry[q]
  BY <1>1 DEF IInv, TypeOK
<1>5. NoEntry \in Entries /\ NoEntry.msgs = <<>>
  BY DEF NoEntry, Entries
<1>6. kq[p].open
  BY <1>1 DEF IInv, OwnedIsLive
<1>7. TypeOK'
  BY <1>1, <1>2, <1>3, <1>5 DEF IInv, TypeOK
<1>8. OwnedIsLive' /\ NoStray'
  BY <1>1, <1>4 DEF IInv, OwnedIsLive, NoStray, TypeOK
<1>9. InBetween'
  BY <1>1, <1>2, <1>3, <1>6 DEF IInv, InBetween, Between, port
<1>10. UsedOwned'
  BY <1>1, <1>2, <1>3 DEF IInv, UsedOwned, Between, InUse
<1>12. \A q \in Ports : Messages(q)' \subseteq Messages(q)
  BY <1>4, <1>5 DEF Messages
<1>11. SignalPending'
  BY <1>1, <1>2, <1>3, <1>12 DEF IInv, SignalPending, port
<1>13. Numbered' /\ LookedEmpty'
  BY <1>1, <1>2, <1>3, <1>12, NumbersStay
<1> QED BY <1>7, <1>8, <1>9, <1>10, <1>11, <1>13 DEF IInv

(* close(): the event goes with a descriptor that has no queue any more.    *)
LEMMA CloseInv ==
  ASSUME IInv, NEW t \in Threads, Close(t)
  PROVE  IInv'
<1> DEFINE p == port(t)
<1>1. /\ th[t].at = "close" /\ UNCHANGED <<entry, owned, sent, failed>>
      /\ kq' = [kq EXCEPT ![p] = Closed]
      /\ th' = [th EXCEPT ![t] = Idle]
  BY DEF Close, Returns
<1>2. p \in Ports /\ p \notin owned /\ entry[p].msgs = <<>>
  BY <1>1, PortType DEF IInv, InBetween, Between, NoStray, NoEntry
<1>3. \A u \in Threads \ {t} : th[u].at \in Between => port(u) \in Ports /\ port(u) # p
  BY <1>1, PortType DEF IInv, InBetween, Between
<1>4. /\ Idle \in ThreadStates /\ Idle.at = "idle" /\ Idle.mark = 0
      /\ Closed \in Kqueues
  BY MachAssumption DEF Idle, ThreadStates, Closed, Kqueues
<1>5. \A u \in Threads : th'[u] = IF u = t THEN Idle ELSE th[u]
  BY <1>1 DEF IInv, TypeOK
<1>6. \A q \in Ports : kq'[q] = IF q = p THEN Closed ELSE kq[q]
  BY <1>1 DEF IInv, TypeOK
<1> HIDE DEF p
<1>7. TypeOK'
  BY <1>1, <1>4, <1>5 DEF IInv, TypeOK
<1>8. OwnedIsLive' /\ NoStray'
  BY <1>1, <1>2, <1>6 DEF IInv, OwnedIsLive, NoStray, TypeOK
<1>9. InBetween'
  BY <1>1, <1>3, <1>4, <1>5, <1>6 DEF IInv, InBetween, Between, port
<1>10. UsedOwned'
  BY <1>1, <1>4, <1>5 DEF IInv, UsedOwned, Between
<1>11. SignalPending'
  BY <1>1, <1>2, <1>4, <1>5, <1>6, SameMessages, EmptyMessages
     DEF IInv, SignalPending, port
<1>12. Numbered' /\ LookedEmpty'
  BY <1>1, <1>4, <1>5, SameMessages, NumbersStay
<1> QED BY <1>7, <1>8, <1>9, <1>10, <1>11, <1>12 DEF IInv

-----------------------------------------------------------------------------
(* Rights, and the two halves of a send.                                    *)
LEMMA InsertRightInv ==
  ASSUME IInv, NEW t \in Threads, NEW p \in Ports, NEW g \in Grants,
         mach_port_insert_right(t, p, g)
  PROVE  IInv'
<1> DEFINE n == [entry[p] EXCEPT !.rights = @ \cup {g}]
<1>1. p \in owned /\ UNCHANGED <<kq, th, owned, sent, failed>> /\ entry' = [entry EXCEPT ![p] = n]
  BY DEF mach_port_insert_right, CanUse, port_entry_get, IInv, OwnedIsLive
<1>2. n \in Entries /\ n.here = entry[p].here /\ n.msgs = entry[p].msgs
  BY DEF IInv, TypeOK, Entries
<1> HIDE DEF n
<1>3. \A q \in Ports : entry'[q] = IF q = p THEN n ELSE entry[q]
  BY <1>1 DEF IInv, TypeOK
<1>4. TypeOK'
  BY <1>1, <1>2 DEF IInv, TypeOK
<1>5. OwnedIsLive' /\ NoStray' /\ InBetween' /\ UsedOwned'
  BY <1>1, <1>2, <1>3 DEF IInv, OwnedIsLive, NoStray, InBetween, UsedOwned, port, TypeOK
<1>7. \A q \in Ports : Messages(q)' = Messages(q)
  BY <1>2, <1>3 DEF Messages
<1>6. SignalPending'
  BY <1>1, <1>7 DEF IInv, SignalPending, port
<1>8. Numbered' /\ LookedEmpty'
  <2>1. \A u \in Threads : th[u].at \in {"deadline", "wait"} => port(u) \in Ports
    BY PortType DEF IInv
  <2>2. \A u \in Threads : port(u)' = port(u)
    BY <1>1 DEF port
  <2> QED BY <1>1, <1>7, <2>1, <2>2 DEF IInv, Numbered, LookedEmpty
<1> QED BY <1>4, <1>5, <1>6, <1>8 DEF IInv

(* The sender that queued a message is itself the witness that the event    *)
(* will be set.                                                             *)
LEMMA EnqueueInv ==
  ASSUME IInv, NEW t \in Threads, NEW p \in Ports, Enqueue(t, p)
  PROVE  IInv'
<1> DEFINE n == [entry[p] EXCEPT !.msgs = Append(@, sent + 1)]
           s == [at |-> "trigger", ports |-> <<p>>, i |-> 1, forever |-> TRUE,
                  mark |-> sent + 1]
<1>1. /\ th[t].at = "idle" /\ p \in owned /\ UNCHANGED <<kq, owned, failed>>
      /\ sent < MaxSends /\ sent' = sent + 1
      /\ entry' = [entry EXCEPT ![p] = n] /\ th' = [th EXCEPT ![t] = s]
  BY DEF Enqueue, CanUse, port_entry_get, Begin, IInv, OwnedIsLive
<1>2. n \in Entries /\ n.here = entry[p].here
  <2>1. sent + 1 \in 1..MaxSends /\ entry[p] \in Entries
    BY <1>1, MachAssumption DEF IInv, TypeOK
  <2>2. Append(entry[p].msgs, sent + 1) \in Seq(1..MaxSends)
    BY <2>1 DEF Entries
  <2> QED BY <2>1, <2>2 DEF Entries
<1>3. /\ s \in ThreadStates /\ s.at = "trigger" /\ s.mark = sent + 1
      /\ Len(s.ports) = 1 /\ s.ports[1] = p
  <2>1. sent + 1 \in 0..MaxSends
    BY <1>1, MachAssumption DEF IInv, TypeOK
  <2> QED BY <2>1 DEF ThreadStates
<1>11. entry[p].msgs \in Seq(1..MaxSends) /\ n.msgs = Append(entry[p].msgs, sent + 1)
  BY DEF IInv, TypeOK, Entries
<1> HIDE DEF n, s
<1>4. \A u \in Threads : th'[u] = IF u = t THEN s ELSE th[u]
  BY <1>1 DEF IInv, TypeOK
<1>5. \A q \in Ports : entry'[q] = IF q = p THEN n ELSE entry[q]
  BY <1>1 DEF IInv, TypeOK
<1>6. TypeOK'
  BY <1>1, <1>2, <1>3, <1>4, MachAssumption DEF IInv, TypeOK
<1>7. OwnedIsLive' /\ NoStray'
  BY <1>1, <1>2, <1>5 DEF IInv, OwnedIsLive, NoStray, TypeOK
<1>8. InBetween'
  BY <1>1, <1>3, <1>4 DEF IInv, InBetween, Between, port
<1>9. UsedOwned'
  BY <1>1, <1>3, <1>4 DEF IInv, UsedOwned, Between
<1>12. /\ Messages(p)' \subseteq Messages(p) \cup {sent + 1}
       /\ \A q \in Ports \ {p} : Messages(q)' = Messages(q)
  <2>1. entry'[p].msgs = Append(entry[p].msgs, sent + 1)
    BY <1>5, <1>11
  <2>2. \A q \in Ports \ {p} : Messages(q)' = Messages(q)
    BY <1>5 DEF Messages
  <2>3. ASSUME NEW k \in 1..Len(entry'[p].msgs)
        PROVE  \/ entry'[p].msgs[k] = sent + 1
               \/ k \in 1..Len(entry[p].msgs) /\ entry'[p].msgs[k] = entry[p].msgs[k]
    BY <1>11, <2>1
  <2> QED BY <2>2, <2>3 DEF Messages
<1>10. SignalPending'
  <2> SUFFICES ASSUME NEW q \in Ports, NEW m \in Messages(q)'
               PROVE  \/ kq'[q].triggered \/ m \in failed'
                      \/ \E u \in Threads : /\ th'[u].at = "trigger" /\ port(u)' = q
                                             /\ th'[u].mark = m
    BY DEF SignalPending
  <2>1. CASE m \in Messages(q)
    <3>1. \A u \in Threads : th[u].at = "trigger" => th'[u] = th[u] /\ port(u)' = port(u)
      BY <1>1, <1>4 DEF port
    <3> QED BY <1>1, <2>1, <3>1 DEF IInv, SignalPending
  <2>2. CASE q = p /\ m = sent + 1
    BY <1>3, <1>4, <2>2 DEF port
  <2> QED BY <1>12, <2>1, <2>2
<1>13. sent \in Nat
  BY DEF IInv, TypeOK
<1>14. Numbered'
  <2>1. \A q \in Ports : \A m \in Messages(q)' : m \in Nat /\ m <= sent'
    BY <1>1, <1>12, <1>13 DEF IInv, Numbered
  <2>2. \A u \in Threads : th[u].mark \in Nat /\ th[u].mark <= sent
    BY MachAssumption DEF IInv, TypeOK, ThreadStates, Numbered
  <2>3. ASSUME NEW u \in Threads
        PROVE  th'[u].mark <= sent' /\ (th'[u].at = "trigger" => th'[u].mark >= 1)
    BY <1>1, <1>3, <1>4, <1>13, <2>2 DEF IInv, Numbered
  <2> QED BY <2>1, <2>3 DEF Numbered
<1>15. LookedEmpty'
  <2> SUFFICES ASSUME NEW u \in Threads, th'[u].at \in {"deadline", "wait"},
                      NEW m \in Messages(port(u))'
               PROVE  m > th'[u].mark
    BY DEF LookedEmpty
  <2>1. u # t /\ th'[u] = th[u]
    BY <1>3, <1>4
  <2>2. port(u)' = port(u) /\ port(u) \in Ports
    BY <2>1, PortType DEF IInv, port
  <2>3. m \in Messages(port(u)) \/ m = sent + 1
    BY <1>12, <2>2
  <2>4. th[u].mark \in Nat /\ th[u].mark <= sent
    BY MachAssumption DEF IInv, TypeOK, ThreadStates, Numbered
  <2> QED BY <1>13, <2>1, <2>3, <2>4 DEF IInv, LookedEmpty
<1> QED BY <1>6, <1>7, <1>8, <1>9, <1>10, <1>14, <1>15 DEF IInv

(* The port is still open when the sender comes to set the event; if it     *)
(* cannot, its own message is marked as failed and no other is concerned.   *)
LEMMA TriggerInv ==
  ASSUME IInv, NEW t \in Threads, Trigger(t)
  PROVE  IInv'
<1> DEFINE p == port(t)
           n == [kq[p] EXCEPT !.triggered = kq[p].open]
<1>1. /\ th[t].at = "trigger" /\ UNCHANGED <<entry, owned, sent>>
      /\ th' = [th EXCEPT ![t] = Idle]
  BY DEF Trigger, Returns
<1>2. p \in Ports /\ p \in owned /\ kq[p].open
  BY <1>1, PortType DEF IInv, UsedOwned, Between, OwnedIsLive, TypeOK, ThreadStates, port
<1>3. \/ kq' = [kq EXCEPT ![p] = n] /\ failed' = failed
      \/ kq' = kq /\ failed' = failed \cup {th[t].mark}
  BY <1>2 DEF Trigger, IInv, TypeOK
<1>4. n \in Kqueues /\ n.open /\ n.triggered
  BY <1>2 DEF IInv, TypeOK, Kqueues
<1>5. Idle \in ThreadStates /\ Idle.at = "idle" /\ Idle.mark = 0
  BY MachAssumption DEF Idle, ThreadStates
<1> HIDE DEF n
<1>6. \A u \in Threads : th'[u] = IF u = t THEN Idle ELSE th[u]
  BY <1>1 DEF IInv, TypeOK
<1>7. \/ /\ \A q \in Ports : kq'[q] = IF q = p THEN n ELSE kq[q]
         /\ failed' = failed
      \/ kq' = kq /\ failed' = failed \cup {th[t].mark}
  BY <1>3 DEF IInv, TypeOK
<1>13. th[t].mark \in 1..MaxSends
  <2>1. th[t].mark \in 0..MaxSends
    BY DEF IInv, TypeOK, ThreadStates
  <2> QED BY <1>1, <2>1, MachAssumption DEF IInv, Numbered
<1>8. SignalPending'
  BY <1>1, <1>4, <1>5, <1>6, <1>7, SameMessages DEF IInv, SignalPending, port
<1> HIDE DEF p
<1>9. TypeOK'
  BY <1>1, <1>2, <1>3, <1>4, <1>5, <1>6, <1>13 DEF IInv, TypeOK
<1>10. OwnedIsLive' /\ NoStray'
  BY <1>1, <1>4, <1>7 DEF IInv, OwnedIsLive, NoStray, TypeOK
<1>11. InBetween'
  <2>1. \A u \in Threads : th[u].at \in Between => port(u) \in Ports
    BY PortType DEF IInv, Between
  <2> QED BY <1>1, <1>4, <1>5, <1>6, <1>7, <2>1 DEF IInv, InBetween, Between, port
<1>12. UsedOwned'
  BY <1>1, <1>5, <1>6 DEF IInv, UsedOwned, Between
<1>14. Numbered' /\ LookedEmpty'
  BY <1>1, <1>5, <1>6, SameMessages, NumbersStay
<1> QED BY <1>8, <1>9, <1>10, <1>11, <1>12, <1>14 DEF IInv

-----------------------------------------------------------------------------
(* Receiving and waiting.                                                   *)

(* What a thread that is looking for messages has in hand.                  *)
LEMMA LookingType ==
  ASSUME IInv, NEW t \in Threads, th[t].at \in Looking
  PROVE  /\ th[t] \in ThreadStates /\ Len(th[t].ports) >= 1
         /\ \A k \in 1..Len(th[t].ports) : th[t].ports[k] \in owned
         /\ port(t) \in Ports
BY PortType DEF IInv, TypeOK, UsedOwned, Looking, Between

(* It goes on at l with the loop index i.                                   *)
LEMMA GoInv ==
  ASSUME IInv, NEW t \in Threads, th[t].at \in Looking, NEW l \in {"scan", "watch"},
         NEW j \in Nat, th' = [th EXCEPT ![t].at = l, ![t].i = j],
         UNCHANGED <<kq, entry, owned, sent, failed>>
  PROVE  IInv'
<1> DEFINE s == [th[t] EXCEPT !.at = l, !.i = j]
<1>1. th' = [th EXCEPT ![t] = s]
  BY DEF IInv, TypeOK
<1>2. s \in ThreadStates /\ s.at = l /\ s.ports = th[t].ports
  BY LookingType DEF ThreadStates, Looking
<1>3. l \in Looking /\ s.mark = th[t].mark /\ th[t].mark <= sent
  BY LookingType DEF ThreadStates, Looking, IInv, Numbered
<1> HIDE DEF s
<1> QED BY <1>1, <1>2, <1>3, MoveInv, LookingType

LEMMA GotoInv ==
  ASSUME IInv, NEW t \in Threads, th[t].at \in Looking, NEW l \in Looking,
         l \in {"deadline", "wait"} => \A m \in Messages(port(t)) : m > th[t].mark,
         Goto(t, l), UNCHANGED <<kq, entry, owned, sent, failed>>
  PROVE  IInv'
<1> DEFINE s == [th[t] EXCEPT !.at = l]
<1>1. th' = [th EXCEPT ![t] = s]
  BY DEF IInv, TypeOK, Goto
<1>2. s \in ThreadStates /\ s.at = l /\ s.ports = th[t].ports
  BY LookingType DEF ThreadStates, Looking
<1>3. s.mark = th[t].mark /\ th[t].mark <= sent
  BY LookingType DEF ThreadStates, IInv, Numbered
<1> HIDE DEF s
<1> QED BY <1>1, <1>2, <1>3, MoveInv, LookingType DEF port

(* A call that begins to look, or gives up.                                 *)
LEMMA BeginInv ==
  ASSUME IInv, NEW t \in Threads, th[t].at = "idle", NEW l \in {"dequeue", "scan"},
         NEW ps \in Seq(Ports), NEW forever \in BOOLEAN, Len(ps) >= 1,
         NEW mark \in {0, sent},
         \A k \in 1..Len(ps) : ps[k] \in owned,
         Begin(t, l, ps, forever, mark), UNCHANGED <<kq, entry, owned, sent, failed>>
  PROVE  IInv'
<1> DEFINE s == [at |-> l, ports |-> ps, i |-> 1, forever |-> forever, mark |-> mark]
<1>1. th' = [th EXCEPT ![t] = s]
  BY DEF Begin
<1>2. mark \in 0..MaxSends /\ mark <= sent
  BY MachAssumption DEF IInv, TypeOK
<1>3. s \in ThreadStates /\ s.at = l /\ s.ports = ps /\ s.mark = mark
  BY <1>2 DEF ThreadStates
<1>4. l \in Looking
  BY DEF Looking
<1> HIDE DEF s
<1> QED BY <1>1, <1>2, <1>3, <1>4, MoveInv

LEMMA GiveUpInv ==
  ASSUME IInv, NEW t \in Threads, th[t].at \in Looking, Returns(t),
         UNCHANGED <<kq, entry, owned, sent, failed>>
  PROVE  IInv'
<1>1. Idle \in ThreadStates
  BY MachAssumption DEF Idle, ThreadStates
<1> QED BY <1>1, MoveInv DEF Returns

LEMMA TailType ==
  ASSUME NEW S, NEW s \in Seq(S), s # <<>>
  PROVE  /\ Tail(s) \in Seq(S) /\ Tail(s) # s
         /\ \A k \in 1..Len(Tail(s)) : k + 1 \in 1..Len(s) /\ Tail(s)[k] = s[k + 1]
OBVIOUS

(* Taking a message leaves the event on.                                    *)
LEMMA TakeInv ==
  ASSUME IInv, NEW t \in Threads, th[t].at = "dequeue", Returns(t),
         entry[port(t)].msgs # <<>>,
         entry' = [entry EXCEPT ![port(t)].msgs = Tail(@)],
         UNCHANGED <<kq, owned, sent, failed>>
  PROVE  IInv'
<1> DEFINE p == port(t)
           n == [entry[p] EXCEPT !.msgs = Tail(@)]
<1>1. p \in Ports /\ p \in owned /\ entry[p] \in Entries
  BY LookingType DEF IInv, TypeOK, Looking, port
<1>2. entry' = [entry EXCEPT ![p] = n]
  BY <1>1 DEF IInv, TypeOK
<1>3. n \in Entries /\ n.here = entry[p].here /\ n.msgs = Tail(entry[p].msgs)
  <2>1. Tail(entry[p].msgs) \in Seq(1..MaxSends)
    BY <1>1, TailType DEF Entries
  <2> QED BY <1>1, <2>1 DEF Entries
<1>4. Idle \in ThreadStates /\ Idle.at = "idle" /\ Idle.mark = 0
  BY MachAssumption DEF Idle, ThreadStates
<1> HIDE DEF n
<1>5. \A u \in Threads : th'[u] = IF u = t THEN Idle ELSE th[u]
  BY DEF IInv, TypeOK, Returns
<1>6. \A q \in Ports : entry'[q] = IF q = p THEN n ELSE entry[q]
  BY <1>2 DEF IInv, TypeOK
<1>12. \A q \in Ports : Messages(q)' \subseteq Messages(q)
  <2>1. \A k \in 1..Len(n.msgs) :
          k + 1 \in 1..Len(entry[p].msgs) /\ n.msgs[k] = entry[p].msgs[k + 1]
    BY <1>1, <1>3, TailType DEF Entries
  <2>2. entry'[p].msgs = n.msgs /\ \A q \in Ports \ {p} : entry'[q] = entry[q]
    BY <1>1, <1>6
  <2>3. ASSUME NEW q \in Ports, q = p PROVE Messages(q)' \subseteq Messages(q)
    BY <2>1, <2>2, <2>3 DEF Messages
  <2>4. \A q \in Ports \ {p} : Messages(q)' = Messages(q)
    BY <2>2 DEF Messages
  <2> QED BY <2>3, <2>4
<1>7. SignalPending'
  <2>2. \A u \in Threads : th[u].at = "trigger" => th'[u] = th[u] /\ port(u)' = port(u)
    BY <1>5 DEF port
  <2> QED BY <1>12, <2>2 DEF IInv, SignalPending
<1>13. Numbered' /\ LookedEmpty'
  BY <1>4, <1>5, <1>12, NumbersStay
<1> HIDE DEF p
<1>8. TypeOK'
  BY <1>2, <1>3, <1>4, <1>5 DEF IInv, TypeOK, Returns
<1>9. OwnedIsLive' /\ NoStray'
  BY <1>1, <1>3, <1>6 DEF IInv, OwnedIsLive, NoStray, TypeOK
<1>10. InBetween'
  BY <1>4, <1>5 DEF IInv, InBetween, Between, port
<1>11. UsedOwned'
  BY <1>4, <1>5 DEF IInv, UsedOwned, Between
<1> QED BY <1>7, <1>8, <1>9, <1>10, <1>11, <1>13 DEF IInv

(* The steps of mach_msg_receive and mach_port_wait_any.                    *)
LEMMA LookInv ==
  ASSUME IInv, NEW t \in Threads,
         Dequeue(t) \/ Deadline(t) \/ Wait(t) \/ Scan(t) \/ Watch(t) \/ Interrupted(t)
  PROVE  IInv'
<1>1. CASE Dequeue(t)
  <2>1. CASE entry[port(t)].msgs # <<>>
    BY <1>1, <2>1, TakeInv DEF Dequeue
  <2>2. CASE entry[port(t)].msgs = <<>>
    <3>1. /\ th[t].at \in Looking /\ AfterLook(t) \in Looking
          /\ Goto(t, AfterLook(t)) /\ UNCHANGED <<kq, entry, owned, sent, failed>>
      BY <1>1, <2>2 DEF Dequeue, AfterLook, Looking
    <3>2. Messages(port(t)) = {}
      BY <2>2, <3>1, LookingType, EmptyMessages
    <3> QED BY <3>1, <3>2, GotoInv
  <2> QED BY <2>1, <2>2
<1>6. CASE Deadline(t)
  BY <1>6, GiveUpInv, GotoInv DEF Deadline, Looking, IInv, LookedEmpty
<1>2. CASE Wait(t)
  BY <1>2, GiveUpInv, GotoInv DEF Wait, Looking
<1>3. CASE Scan(t)
  <2>1. th[t].at \in Looking /\ th[t].at = "scan" /\ UNCHANGED <<kq, entry, owned, sent, failed>>
    BY <1>3 DEF Scan, Looking
  <2>2. th[t].i \in Nat /\ th[t] \in ThreadStates
    BY <2>1, LookingType DEF ThreadStates
  <2>3. CASE Returns(t)
    BY <2>1, <2>3, GiveUpInv
  <2>4. CASE th' = [th EXCEPT ![t].i = @ + 1]
    <3>1. th' = [th EXCEPT ![t].at = "scan", ![t].i = th[t].i + 1]
      BY <2>1, <2>2, <2>4 DEF IInv, TypeOK, ThreadStates
    <3>2. th[t].i + 1 \in Nat
      BY <2>2
    <3> QED BY <2>1, <3>1, <3>2, GoInv
  <2>5. CASE th' = [th EXCEPT ![t].at = "watch", ![t].i = 1]
    BY <2>1, <2>5, GoInv
  <2> QED BY <1>3, <2>3, <2>4, <2>5 DEF Scan
<1>4. CASE Watch(t)
  BY <1>4, GiveUpInv, GotoInv DEF Watch, Looking
<1>5. CASE Interrupted(t)
  BY <1>5, GotoInv DEF Interrupted, Looking
<1> QED BY <1>1, <1>2, <1>3, <1>4, <1>5, <1>6

-----------------------------------------------------------------------------
LEMMA CallInv ==
  ASSUME IInv, NEW t \in Threads, Call(t)
  PROVE  IInv'
<1>1. CASE \E p \in Ports, forever \in BOOLEAN : Receive(t, p, forever)
  <2>1. PICK p \in Ports, forever \in BOOLEAN : Receive(t, p, forever)
    BY <1>1
  <2>2. /\ <<p>> \in Seq(Ports) /\ Len(<<p>>) >= 1
        /\ \A k \in 1..Len(<<p>>) : <<p>>[k] \in owned
    BY <2>1 DEF Receive, CanUse
  <2>3. PICK mark \in {0, sent} : Begin(t, "dequeue", <<p>>, forever, mark)
    BY <2>1 DEF Receive
  <2> QED BY <2>1, <2>2, <2>3, BeginInv DEF Receive, CanUse
<1>2. CASE \E ps \in PortSets, forever \in BOOLEAN : WaitAny(t, ps, forever)
  <2>1. PICK ps \in PortSets, forever \in BOOLEAN : WaitAny(t, ps, forever)
    BY <1>2
  <2>2. ps \in Seq(Ports) /\ Len(ps) >= 1
    BY MachAssumption
  <2> QED BY <2>1, <2>2, BeginInv DEF WaitAny
<1> QED BY <1>1, <1>2, KqueueInv, RemoveInv, InsertRightInv, EnqueueInv DEF Call

(* Every step of every thread keeps the invariant.                          *)
LEMMA NextInv == IInv /\ [Next]_vars => IInv'
<1> SUFFICES ASSUME IInv, [Next]_vars PROVE IInv'
  OBVIOUS
<1>1. CASE Next
  BY <1>1, CallInv, RegisterInv, CloseInv, TriggerInv, LookInv DEF Next, Step
<1>2. CASE UNCHANGED vars
  BY <1>2 DEF vars, IInv, TypeOK, OwnedIsLive, InBetween, UsedOwned, NoStray,
              SignalPending, Numbered, LookedEmpty, Messages, port
<1> QED BY <1>1, <1>2

LEMMA Invariance == Spec => []IInv
BY InitInv, NextInv, PTL DEF Spec

(* The registry, the kqueues and the threads keep their types.              *)
THEOREM TypeCorrect == Spec => []TypeOK
<1>1. IInv => TypeOK
  BY DEF IInv
<1> QED BY <1>1, Invariance, PTL

(* A port that mach_port_allocate returned is an open descriptor with an    *)
(* entry until it is deallocated, whatever descriptors other threads open   *)
(* and close meanwhile.                                                     *)
THEOREM PortsAreLive == Spec => []OwnedIsLive
<1>1. IInv => OwnedIsLive
  BY DEF IInv
<1> QED BY <1>1, Invariance, PTL

(* mach_msg_send and mach_msg_receive lose no wakeup.                       *)
THEOREM NoWakeupLost == Spec => []SignalPending
<1>1. IInv => SignalPending
  BY DEF IInv
<1> QED BY <1>1, Invariance, PTL

(* A descriptor that is used again comes back without messages and rights.  *)
THEOREM PortsAreFresh == Spec => FreshPort
<1>1. IInv /\ [Next]_vars =>
        [\A p \in owned' \ owned : entry'[p].msgs = <<>> /\ entry'[p].rights = {}]_vars
  <2> SUFFICES ASSUME IInv, Next, NEW p \in owned' \ owned
               PROVE  entry'[p].msgs = <<>> /\ entry'[p].rights = {}
    BY DEF vars
  <2>1. PICK t \in Threads : Register(t) /\ p = port(t) /\ owned' = owned \cup {p}
    BY DEF Next, Step, Call, Register, Close, Trigger, Dequeue, Deadline, Wait, Scan, Watch,
           Kqueue, port_entry_remove, mach_port_insert_right, Enqueue, Receive,
           WaitAny, Interrupted
  <2>2. p \in Ports /\ entry[p] = NoEntry
    BY <2>1, PortType DEF Register, IInv, NoStray
  <2>3. entry'[p] = port_entry_get(p)
    BY <2>1, <2>2 DEF Register, IInv, TypeOK
  <2> QED BY <2>2, <2>3 DEF port_entry_get, NoEntry
<1> QED BY <1>1, Invariance, PTL DEF Spec, FreshPort

(* A step of one thread leaves the others where they are.                   *)
LEMMA OthersStay ==
  ASSUME IInv, NEW u \in Threads, Step(u) \/ Call(u) \/ Interrupted(u),
         NEW t \in Threads \ {u}
  PROVE  th'[t] = th[t]
<1> USE DEF IInv, TypeOK, Begin, Goto, Returns
<1>1. CASE Step(u)
  BY <1>1 DEF Step, Register, Close, Trigger, Dequeue, Deadline, Wait, Scan, Watch
<1>2. CASE Call(u)
  BY <1>2 DEF Call, Kqueue, port_entry_remove, mach_port_insert_right, Enqueue,
              Receive, WaitAny
<1>3. CASE Interrupted(u)
  BY <1>3 DEF Interrupted
<1> QED BY <1>1, <1>2, <1>3

(* A timeout of mach_msg_receive leaves no message behind that was sent     *)
(* before the call, and after a wait in kevent() none whose send has        *)
(* succeeded.                                                               *)
THEOREM TimeoutsAreTrue == Spec => NoFalseTimeout
<1> DEFINE A == \A t \in Threads : GivesUp(t) =>
       \A m \in Messages(port(t)) :
         /\ m > th[t].mark
         /\ th[t].at = "wait" =>
              \/ m \in failed
              \/ \E u \in Threads : th[u].at = "trigger" /\ th[u].mark = m
<1>1. IInv /\ [Next]_vars => [A]_vars
  <2> SUFFICES ASSUME IInv, Next, NEW t \in Threads, GivesUp(t),
                      NEW m \in Messages(port(t))
               PROVE  /\ m > th[t].mark
                      /\ th[t].at = "wait" =>
                           \/ m \in failed
                           \/ \E u \in Threads : th[u].at = "trigger" /\ th[u].mark = m
    OBVIOUS
  <2>a. /\ th[t].at \in {"dequeue", "deadline", "wait"} /\ th'[t].at = "idle"
        /\ entry'[port(t)] = entry[port(t)]
    BY DEF GivesUp
  <2>1. port(t) \in Ports
    BY <2>a, PortType DEF IInv
  <2>2. PICK u \in Threads : Step(u) \/ Call(u) \/ Interrupted(u)
    BY DEF Next
  <2>3. u = t
    BY <2>2, <2>a, OthersStay
  <2>4. th[t] \in ThreadStates /\ entry[port(t)] \in Entries
    BY <2>1 DEF IInv, TypeOK
  <2>5. ~Dequeue(t)
    <3> SUFFICES ASSUME Dequeue(t) PROVE FALSE
      OBVIOUS
    <3>1. entry[port(t)].msgs # <<>>
      BY <2>1, EmptyMessages
    <3>2. entry' = [entry EXCEPT ![port(t)].msgs = Tail(@)]
      BY <3>1 DEF Dequeue
    <3>3. entry'[port(t)].msgs = Tail(entry[port(t)].msgs)
      BY <2>1, <2>4, <3>2 DEF IInv, TypeOK, Entries
    <3>4. Tail(entry[port(t)].msgs) # entry[port(t)].msgs
      BY <2>4, <3>1, TailType DEF Entries
    <3> QED BY <2>a, <3>3, <3>4
  <2>6. CASE Deadline(t)
    BY <2>6 DEF Deadline, IInv, LookedEmpty
  <2>7. CASE Wait(t)
    <3>1. ~kq[port(t)].triggered
      <4>1. ~Goto(t, "dequeue")
        BY <2>4, <2>a DEF Goto, IInv, TypeOK, ThreadStates
      <4> QED BY <2>7, <4>1 DEF Wait
    <3>2. m > th[t].mark
      BY <2>7 DEF Wait, IInv, LookedEmpty
    <3> QED BY <2>1, <3>1, <3>2 DEF IInv, SignalPending
  <2>8. ~Interrupted(t)
    BY <2>4, <2>a DEF Interrupted, Goto, IInv, TypeOK, ThreadStates
  <2> QED BY <2>2, <2>3, <2>a, <2>5, <2>6, <2>7, <2>8
          DEF Step, Call, Register, Close, Trigger, Scan, Watch, Kqueue,
              port_entry_remove, mach_port_insert_right, Enqueue, Receive,
              WaitAny, CanUse
<1> QED BY <1>1, Invariance, PTL DEF Spec, NoFalseTimeout
=============================================================================
