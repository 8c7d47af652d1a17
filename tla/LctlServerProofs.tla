-------------------------- MODULE LctlServerProofs --------------------------
(***************************************************************************)
(* Proofs about LctlServer, for every set of clients, requests, labels and *)
(* plists: every step of the server, its clients and the embedding program *)
(* is a step of the job supervisor or leaves it alone, so what is proved   *)
(* of the supervisor holds with the control channel in place; and every    *)
(* reply is true when it is sent.                                          *)
(***************************************************************************)
EXTENDS LctlServer, LaunchJobProofs

CtlTypes ==
  /\ srv \in Servers
  /\ client \in [Clients -> ClientStates]
  /\ backlog \in Seq(Clients) /\ Len(backlog) <= Backlog

(* lctl_server_poll is entered at one place of the program, has a peer      *)
(* between accept() and the reply, and serves one peer at a time.           *)
Polling ==
  /\ srv.at \in {"accept", "receive", "serve"} => pc = "poll"
  /\ srv.at \in {"receive", "serve"} <=> srv.peer \in Clients
  /\ srv.at = "closed" => backlog = <<>>

(* While a handler waits in launch_job_stop or launch_registry_unload, the  *)
(* call in progress is the one its peer asked for, and when it is back the  *)
(* job is as the reply will say.                                            *)
ServesPeer ==
  srv.at = "serve" =>
    /\ req.label \in Labels
    /\ \/ /\ req.verb = "stop"
          /\ \/ call.at = "idle" /\ job[req.label].state = "stopped"
             \/ call.at \in Stopping /\ call.cur = req.label /\ call.back = "idle"
       \/ /\ req.verb = "unload"
          /\ \/ call.at = "idle" /\ req.label \notin Registered
             \/ /\ call.at \in Stopping /\ call.cur = req.label
                /\ call.back = "remove"
             \/ call.at = "remove" /\ call.cur = req.label

(* A client that waits for an answer is in the listen queue or being        *)
(* served: no connection is forgotten.                                      *)
Waiting ==
  \A c \in Clients :
    client[c].up /\ client[c].got = "none" => c \in Queued \/ c = srv.peer

CtlInv == CtlTypes /\ Polling /\ ServesPeer /\ Waiting

(* No reply code is the mark of a connection that ended without one.        *)
LEMMA CodesAreReplies ==
  /\ "none" \notin Answers /\ "closed" \notin Answers
  /\ Codes \subseteq Answers /\ "nocode" \in Answers
BY DEF Answers, Codes

(* A client without a connection is a client.                                *)
LEMMA AwayType == Away \in ClientStates
BY DEF Away, ClientStates, NoRequest, AllRequests, Verbs

(* What the end of a connection does to the clients.                        *)
LEMMA AnsweredEffect ==
  ASSUME CtlTypes, NEW c \in Clients, NEW k \in Answers \cup {"closed"},
         client' = Answered(c, k)
  PROVE  /\ client' \in [Clients -> ClientStates]
         /\ \A d \in Clients : d # c => client'[d] = client[d]
         /\ client'[c].got \in {k, "none"}
         /\ client'[c].up => client'[c].got = k
         /\ client'[c].got = k => client'[c].req = client[c].req
<1>1. client \in [Clients -> ClientStates] /\ client[c] \in ClientStates
  BY DEF CtlTypes
<1>2. [client[c] EXCEPT !.got = k] \in ClientStates
  BY <1>1 DEF ClientStates
<1>3. client'[c] = IF client[c].up THEN [client[c] EXCEPT !.got = k] ELSE Away
  BY <1>1 DEF Answered
<1>4. client' \in [Clients -> ClientStates]
  BY <1>1, <1>2, AwayType DEF Answered
<1>5. \A d \in Clients : d # c => client'[d] = client[d]
  BY <1>1 DEF Answered
<1>6. CASE client[c].up
  <2>1. client'[c] = [client[c] EXCEPT !.got = k]
    BY <1>3, <1>6
  <2>2. client'[c].got = k /\ client'[c].req = client[c].req
    BY <1>1, <2>1 DEF ClientStates
  <2> QED BY <1>4, <1>5, <2>2
<1>7. CASE ~client[c].up
  <2>1. client'[c].got = "none" /\ ~client'[c].up
    BY <1>3, <1>7 DEF Away
  <2>2. k # "none"
    BY CodesAreReplies
  <2> QED BY <1>4, <1>5, <2>1, <2>2
<1> QED BY <1>6, <1>7

(* The server is done with a client that is at the head of the queue or is  *)
(* its peer: the invariant of the channel holds when poll returns.          *)
LEMMA DoneWith ==
  ASSUME CtlInv, NEW c \in Clients, NEW k \in Answers \cup {"closed"},
         client' = Answered(c, k), PollReturns,
         backlog' \in Seq(Clients), Len(backlog') <= Backlog,
         \A d \in Clients : d # c /\ (d \in Queued \/ d = srv.peer) => d \in Queued'
  PROVE  CtlInv'
<1>1. /\ client' \in [Clients -> ClientStates]
      /\ \A d \in Clients : d # c => client'[d] = client[d]
      /\ client'[c].up => client'[c].got = k
  BY AnsweredEffect DEF CtlInv
<1>2. srv' = [at |-> "out", peer |-> NoClient, left |-> 0]
  BY DEF PollReturns, Out
<1>3. CtlTypes' /\ Polling'
  BY <1>1, <1>2, LctlAssumption DEF CtlTypes, Polling, Servers
<1>4. ServesPeer'
  BY <1>2 DEF ServesPeer
<1>5. Waiting'
  <2> SUFFICES ASSUME NEW d \in Clients, client'[d].up, client'[d].got = "none"
               PROVE  d \in Queued'
    BY DEF Waiting
  <2>1. d # c
    BY <1>1, CodesAreReplies
  <2>2. client[d].up /\ client[d].got = "none"
    BY <1>1, <2>1
  <2> QED BY <2>1, <2>2 DEF CtlInv, Waiting
<1> QED BY <1>3, <1>4, <1>5 DEF CtlInv

(* One reply to the peer: who gets it, and that poll returns in order.      *)
LEMMA ReplyEffect ==
  ASSUME CtlInv, srv.at \in {"receive", "serve"}, NEW code \in Codes, Reply(code)
  PROVE  /\ CtlInv'
         /\ \A c \in Clients, k \in Answers :
              client[c].got = "none" /\ client'[c].got = k =>
                /\ c = srv.peer /\ k \in {code, "nocode"}
                /\ client'[c].req = req
<1>1. srv.peer \in Clients
  BY DEF CtlInv, Polling
<1>2. PICK k \in {code, "closed", "nocode"} : client' = Answered(srv.peer, k)
  BY DEF Reply
<1>3. PollReturns /\ backlog' = backlog /\ Queued' = Queued
  BY DEF Reply, Queued
<1>6. k \in Answers \cup {"closed"}
  BY CodesAreReplies
<1>4. CtlInv'
  BY <1>1, <1>2, <1>3, <1>6, DoneWith DEF CtlInv, CtlTypes
<1>5. /\ \A d \in Clients : d # srv.peer => client'[d] = client[d]
      /\ client'[srv.peer].got \in {k, "none"}
      /\ client'[srv.peer].got = k => client'[srv.peer].req = client[srv.peer].req
  BY <1>1, <1>2, <1>6, AnsweredEffect DEF CtlInv
<1> QED BY <1>4, <1>5, CodesAreReplies DEF req

-----------------------------------------------------------------------------
(* The steps of lctl_server_poll.                                           *)

(* A job that is not RUNNING has no process but one that was sent SIGKILL.  *)
LEMMA IdleJobHasNoProcess ==
  ASSUME IInv, NEW l \in Labels, job[l].state # "running"
  PROVE  NoProcessOf(l)
BY LaunchAssumption DEF IInv, PidWhileRunning, ProcOwned, NoProcessOf

(* A code, and a reply that lost it, are both true of request r.            *)
AnswerIsTrue(r, code) == ReplyIsTrue(r, code) /\ ReplyIsTrue(r, "nocode")

(* A handler that replies without touching the supervisor tells the truth   *)
(* if its reply is true of the state it found.                              *)
LEMMA PlainReply ==
  ASSUME CtlInv, srv.at \in {"receive", "serve"}, NEW code \in Codes, Reply(code),
         UNCHANGED vars, AnswerIsTrue(req, code)
  PROVE  CtlInv' /\ Truthful
<1>1. /\ CtlInv'
      /\ \A c \in Clients, k \in Answers :
           client[c].got = "none" /\ client'[c].got = k =>
             k \in {code, "nocode"} /\ client'[c].req = req
  BY ReplyEffect
<1>2. Registered' = Registered /\ job' = job /\ proc' = proc
  BY DEF vars, Registered
<1>3. ASSUME NEW c \in Clients, client'[c].req = req, NEW k \in {code, "nocode"}
      PROVE  ReplyIsTrue(client[c].req, k)'
  <2>1. ReplyIsTrue(req, k)
    BY DEF AnswerIsTrue
  <2> QED BY <1>2, <1>3, <2>1 DEF ReplyIsTrue, NoProcessOf, check_reply
<1> QED BY <1>1, <1>3 DEF Truthful

(* The checks of a label that every verb about one job begins with.         *)
LEMMA BadLabelReply ==
  ASSUME IInv, CtlInv, srv.at = "receive", BadLabel
  PROVE  CtlInv' /\ Truthful /\ UNCHANGED vars
<1>1. UNCHANGED vars /\ {"badarg", "notfound"} \subseteq Codes
  BY DEF BadLabel, Codes
<1>2. CASE req.label = NoLabel /\ Reply("badarg")
  <2>1. AnswerIsTrue(req, "badarg")
    <3>1. NoLabel \notin Labels
      BY LaunchAssumption
    <3>2. Registered \subseteq Labels
      BY DEF IInv, TypeOK, Registered
    <3> QED BY <1>2, <3>1, <3>2 DEF AnswerIsTrue, ReplyIsTrue, check_reply
  <2> QED BY <1>1, <1>2, <2>1, PlainReply
<1>3. CASE ~launch_registry_find(req.label) /\ Reply("notfound")
  <2>1. req.label \notin Registered
    BY <1>3 DEF launch_registry_find
  <2>2. req.label \in Labels => NoProcessOf(req.label)
    BY <2>1, IdleJobHasNoProcess DEF IInv, PidWhileRunning
  <2>3. AnswerIsTrue(req, "notfound")
    BY <2>1, <2>2 DEF AnswerIsTrue, ReplyIsTrue, check_reply
  <2> QED BY <1>1, <1>3, <2>3, PlainReply
<1> QED BY <1>2, <1>3 DEF BadLabel

(* handle_unknown, handle_list, handle_status only look.                    *)
LEMMA LookingVerbs ==
  ASSUME IInv, CtlInv, handle_unknown \/ handle_list \/ handle_status
  PROVE  CtlInv' /\ Truthful /\ UNCHANGED vars
<1>1. srv.at = "receive" /\ {"ok", "badverb", "internal"} \subseteq Codes
  BY DEF handle_unknown, handle_list, handle_status, Verb, Codes
<1>2. CASE handle_unknown
  <2>1. AnswerIsTrue(req, "badverb")
    BY <1>2 DEF AnswerIsTrue, ReplyIsTrue, check_reply, handle_unknown, Verb
  <2> QED BY <1>1, <1>2, <2>1, PlainReply DEF handle_unknown
<1>3. CASE req.verb \in {"list", "status"} /\ Report
  <2>1. PICK code \in {"ok", "internal"} : Reply(code) /\ UNCHANGED vars
    BY <1>3 DEF Report
  <2>2. AnswerIsTrue(req, code)
    BY <1>3 DEF AnswerIsTrue, ReplyIsTrue, check_reply
  <2> QED BY <1>1, <2>1, <2>2, PlainReply
<1>4. CASE BadLabel
  BY <1>1, <1>4, BadLabelReply
<1> QED BY <1>2, <1>3, <1>4 DEF handle_list, handle_status, Verb

(* The requests a client sends are well-formed.                             *)
LEMMA RequestType ==
  ASSUME CtlInv, srv.at \in {"receive", "serve"}
  PROVE  /\ srv.peer \in Clients
         /\ req.label \in Labels \cup {NoLabel}
         /\ req.file \in Plists \cup {NoFile}
BY DEF CtlInv, CtlTypes, Polling, req, ClientStates, AllRequests

(* handle_load is launch_registry_load_plist, and "ok" says that the job is *)
(* in the registry now.                                                     *)
LEMMA LoadVerb ==
  ASSUME IInv, CtlInv, handle_load
  PROVE  CtlInv' /\ Truthful /\ [Next]_vars
<1>1. /\ srv.at = "receive" /\ req.verb = "load"
      /\ {"ok", "badarg", "plist"} \subseteq Codes
  BY DEF handle_load, Verb, Codes
<1>2. CASE Reply("badarg") /\ UNCHANGED vars
  <2>1. AnswerIsTrue(req, "badarg")
    BY <1>1 DEF AnswerIsTrue, ReplyIsTrue, check_reply
  <2> QED BY <1>1, <1>2, <2>1, PlainReply
<1>3. CASE /\ req.file # NoFile
           /\ launch_registry_load_plist(req.file)
           /\ Reply(IF reg' = reg THEN "plist" ELSE "ok")
  <2>1. req.file \in Plists
    BY <1>1, <1>3, RequestType
  <2>2. Next
    BY <1>3, <2>1 DEF Next, Caller
  <2>3. PICK code \in {"plist", "ok"} :
          code = (IF reg' = reg THEN "plist" ELSE "ok") /\ Reply(code)
    BY <1>3
  <2>4. /\ CtlInv'
        /\ \A c \in Clients, k \in Answers :
             client[c].got = "none" /\ client'[c].got = k =>
               k \in {code, "nocode"} /\ client'[c].req = req
    BY <1>1, <2>3, ReplyEffect
  <2>5. code = "ok" => DefOf[req.file].label \in Registered'
    <3> SUFFICES ASSUME reg' # reg PROVE DefOf[req.file].label \in Registered'
      BY <2>3
    <3>1. reg' = Append(reg, DefOf[req.file].label)
      BY <1>3 DEF launch_registry_load_plist
    <3>2. reg \in Seq(Labels) /\ DefOf[req.file].label \in Labels
      BY <2>1, LaunchAssumption DEF IInv, TypeOK, Defs
    <3>3. Len(reg') = Len(reg) + 1 /\ reg'[Len(reg) + 1] = DefOf[req.file].label
          /\ Len(reg) + 1 \in 1..(Len(reg) + 1)
      BY <3>1, <3>2
    <3> QED BY <3>3 DEF Registered
  <2>6. ASSUME NEW c \in Clients, client'[c].req = req, NEW k \in {code, "nocode"}
        PROVE  ReplyIsTrue(client[c].req, k)'
    BY <1>1, <2>3, <2>5, <2>6 DEF ReplyIsTrue, check_reply
  <2> QED BY <2>2, <2>4, <2>6 DEF Truthful
<1> QED BY <1>2, <1>3 DEF handle_load

(* handle_start is launch_job_start: "ok" says that the job runs a child of *)
(* its own, and so does "already" unless children are reaped elsewhere.     *)
LEMMA StartVerb ==
  ASSUME IInv, CtlInv, handle_start
  PROVE  CtlInv' /\ Truthful /\ [Next]_vars
<1>1. /\ srv.at = "receive" /\ req.verb = "start"
      /\ {"ok", "already", "internal"} \subseteq Codes
  BY DEF handle_start, Verb, Codes
<1>2. CASE BadLabel
  BY <1>1, <1>2, BadLabelReply
<1>3. CASE /\ GoodLabel /\ job[req.label].state = "running"
           /\ Reply("already") /\ UNCHANGED vars
  <2>1. req.label \in Labels
    BY <1>1, <1>3, RequestType DEF GoodLabel
  <2>2. AnswerIsTrue(req, "already")
    BY <1>1, <1>3, <2>1 DEF AnswerIsTrue, ReplyIsTrue, check_reply, IInv, PidOwn
  <2> QED BY <1>1, <1>3, <2>2, PlainReply
<1>4. CASE /\ GoodLabel /\ Start(req.label)
           /\ Reply(IF job'[req.label].state = "running" THEN "ok" ELSE "internal")
  <2>1. req.label \in Labels
    BY <1>1, <1>4, RequestType DEF GoodLabel
  <2>2. Next
    BY <1>4, <2>1 DEF Next, Caller
  <2>3. PICK code \in {"ok", "internal"} :
          /\ code = (IF job'[req.label].state = "running" THEN "ok" ELSE "internal")
          /\ Reply(code)
    BY <1>4
  <2>4. /\ CtlInv'
        /\ \A c \in Clients, k \in Answers :
             client[c].got = "none" /\ client'[c].got = k =>
               k \in {code, "nocode"} /\ client'[c].req = req
    BY <1>1, <2>3, ReplyEffect
  <2>5. code = "ok" => /\ job'[req.label].state = "running"
                       /\ proc'[job'[req.label].pid].job = req.label
    <3> SUFFICES ASSUME job'[req.label].state = "running"
                 PROVE  proc'[job'[req.label].pid].job = req.label
      BY <2>3
    <3>1. job[req.label].state \in States
      BY <2>1 DEF IInv, TypeOK, Jobs
    <3>2. PICK p \in Pids :
            /\ proc' = [proc EXCEPT ![p] =
                 [NoProc EXCEPT !.st = "alive", !.job = req.label]]
            /\ job'[req.label].pid = p
      <4>1. launch_job_start(req.label, job[req.label].state)
        BY <1>4 DEF Start
      <4>2. \/ \E p \in Pids :
                 /\ proc' = [proc EXCEPT ![p] =
                      [NoProc EXCEPT !.st = "alive", !.job = req.label]]
                 /\ job'[req.label].pid = p
            \/ job'[req.label].state \in {"failed", job[req.label].state}
        BY <2>1, <3>1, <4>1, StartEffect DEF IInv
      <4>3. job[req.label].state # "running"
        BY <4>1 DEF launch_job_start
      <4> QED BY <4>2, <4>3
    <3>3. proc \in [Pids -> Procs]
      BY DEF IInv, TypeOK
    <3> QED BY <3>2, <3>3 DEF NoProc
  <2>6. ASSUME NEW c \in Clients, client'[c].req = req, NEW k \in {code, "nocode"}
        PROVE  ReplyIsTrue(client[c].req, k)'
    BY <1>1, <2>3, <2>5, <2>6 DEF ReplyIsTrue, check_reply
  <2> QED BY <2>2, <2>4, <2>6 DEF Truthful
<1> QED BY <1>2, <1>3, <1>4 DEF handle_start

(* A handler goes to wait in a call of the supervisor; nobody is told       *)
(* anything yet.                                                            *)
LEMMA ServingKeeps ==
  ASSUME CtlInv, srv.at = "receive", Serving,
         req.label \in Labels,
         \/ /\ req.verb = "stop"
            /\ \/ call'.at = "idle" /\ job'[req.label].state = "stopped"
               \/ /\ call'.at \in Stopping /\ call'.cur = req.label
                  /\ call'.back = "idle"
         \/ /\ req.verb = "unload"
            /\ \/ /\ call'.at \in Stopping /\ call'.cur = req.label
                  /\ call'.back = "remove"
               \/ call'.at = "remove" /\ call'.cur = req.label
  PROVE  CtlInv' /\ Truthful
<1>1. /\ srv \in Servers /\ srv' = [srv EXCEPT !.at = "serve"]
      /\ UNCHANGED <<pc, client, backlog>> /\ Queued' = Queued
  BY DEF CtlInv, CtlTypes, Serving, Queued
<1>2. srv' \in Servers /\ srv'.at = "serve" /\ srv'.peer = srv.peer
  BY <1>1 DEF Servers
<1>3. CtlTypes' /\ Polling' /\ Waiting'
  BY <1>1, <1>2 DEF CtlInv, CtlTypes, Polling, Waiting
<1>4. req' = req
  BY <1>1, <1>2 DEF req
<1>5. ServesPeer'
  BY <1>2, <1>4 DEF ServesPeer
<1>6. Truthful
  BY <1>1, CodesAreReplies DEF Truthful
<1> QED BY <1>3, <1>5, <1>6 DEF CtlInv

(* handle_stop is launch_job_stop; "already" is said of a STOPPED job only. *)
LEMMA StopVerb ==
  ASSUME IInv, CtlInv, handle_stop
  PROVE  CtlInv' /\ Truthful /\ [Next]_vars
<1>1. srv.at = "receive" /\ req.verb = "stop" /\ "already" \in Codes
  BY DEF handle_stop, Verb, Codes
<1>2. CASE BadLabel
  BY <1>1, <1>2, BadLabelReply
<1>3. CASE /\ GoodLabel /\ job[req.label].state = "stopped"
           /\ Reply("already") /\ UNCHANGED vars
  <2>1. req.label \in Labels
    BY <1>1, <1>3, RequestType DEF GoodLabel
  <2>2. NoProcessOf(req.label)
    BY <1>3, <2>1, IdleJobHasNoProcess
  <2>3. AnswerIsTrue(req, "already")
    BY <1>1, <1>3, <2>2 DEF AnswerIsTrue, ReplyIsTrue, check_reply
  <2> QED BY <1>1, <1>3, <2>3, PlainReply
<1>4. CASE GoodLabel /\ Stop(req.label, StopGrace) /\ Serving
  <2>1. req.label \in Labels
    BY <1>1, <1>4, RequestType DEF GoodLabel
  <2>2. Next
    BY <1>4, <2>1, LctlAssumption DEF Next, Caller
  <2>3. job \in [Labels -> Jobs] /\ call \in Calls
    BY DEF IInv, TypeOK
  <2>4. \/ call'.at = "idle" /\ job'[req.label].state = "stopped"
        \/ call'.at = "poll" /\ call'.cur = req.label /\ call'.back = "idle"
    <3>1. launch_job_stop(req.label, StopGrace, "idle")
      BY <1>4 DEF Stop
    <3>2. CASE job[req.label].state # "running" \/ job[req.label].pid = NoPid
      <4>1. /\ job' = [job EXCEPT ![req.label].state = "stopped",
                                  ![req.label].restart_in = 0]
            /\ call' = Idle
        BY <3>1, <3>2 DEF launch_job_stop
      <4> QED BY <2>1, <2>3, <4>1 DEF Idle, Jobs
    <3>3. CASE ~(job[req.label].state # "running" \/ job[req.label].pid = NoPid)
      <4>1. call' = [call EXCEPT !.at = "poll", !.cur = req.label,
                                 !.back = "idle", !.left = StopGrace]
        BY <3>1, <3>3 DEF launch_job_stop
      <4> QED BY <2>3, <4>1 DEF Calls
    <3> QED BY <3>2, <3>3
  <2> QED BY <1>1, <1>4, <2>1, <2>2, <2>4, ServingKeeps DEF Stopping
<1> QED BY <1>2, <1>3, <1>4 DEF handle_stop

(* handle_unload is launch_registry_unload.                                 *)
LEMMA UnloadVerb ==
  ASSUME IInv, CtlInv, handle_unload
  PROVE  CtlInv' /\ Truthful /\ [Next]_vars
<1>1. srv.at = "receive" /\ req.verb = "unload"
  BY DEF handle_unload, Verb
<1>2. CASE BadLabel
  BY <1>1, <1>2, BadLabelReply
<1>3. CASE GoodLabel /\ launch_registry_unload(req.label, UnloadGrace) /\ Serving
  <2>1. req.label \in Labels
    BY <1>1, <1>3, RequestType DEF GoodLabel
  <2>2. Next
    BY <1>3, <2>1, LctlAssumption DEF Next, Caller
  <2>3. call \in Calls /\ (job[req.label].state = "running" => job[req.label].pid # NoPid)
    BY <2>1 DEF IInv, TypeOK, PidWhileRunning
  <2>4. \/ call'.at = "remove" /\ call'.cur = req.label
        \/ call'.at = "poll" /\ call'.cur = req.label /\ call'.back = "remove"
    BY <1>3, <2>3 DEF launch_registry_unload, launch_job_stop, Idle, Calls
  <2> QED BY <1>1, <1>3, <2>1, <2>2, <2>4, ServingKeeps DEF Stopping
<1> QED BY <1>2, <1>3 DEF handle_unload

(* The "ok" of a stop or an unload, sent when the call is back.             *)
LEMMA ServedReply ==
  ASSUME IInv, CtlInv, Served
  PROVE  CtlInv' /\ Truthful /\ UNCHANGED vars
<1>1. /\ srv.at = "serve" /\ call.at = "idle" /\ Reply("ok") /\ UNCHANGED vars
      /\ "ok" \in Codes
  BY DEF Served, Codes
<1>2. /\ req.label \in Labels
      /\ \/ req.verb = "stop" /\ job[req.label].state = "stopped"
         \/ req.verb = "unload" /\ req.label \notin Registered
  BY <1>1 DEF CtlInv, ServesPeer, Stopping
<1>3. job[req.label].state # "running"
  BY <1>2 DEF IInv, PidWhileRunning
<1>4. NoProcessOf(req.label)
  BY <1>2, <1>3, IdleJobHasNoProcess
<1>5. AnswerIsTrue(req, "ok")
  BY <1>2, <1>4 DEF AnswerIsTrue, ReplyIsTrue, check_reply
<1> QED BY <1>1, <1>5, PlainReply

(* Waiting for a connection and for its request leaves the supervisor alone *)
(* and sends no reply.                                                      *)
LEMMA WaitingSteps ==
  ASSUME CtlInv,
         \/ lctl_server_poll \/ AcceptTimeout \/ Accept \/ AcceptNoMemory
         \/ ReceiveFails
  PROVE  CtlInv' /\ Truthful /\ UNCHANGED vars
<1>1. /\ srv \in Servers /\ client \in [Clients -> ClientStates]
      /\ backlog \in Seq(Clients) /\ Len(backlog) <= Backlog
  BY DEF CtlInv, CtlTypes
<1>2. client' = client => Truthful
  BY CodesAreReplies DEF Truthful
<1>3. CASE lctl_server_poll
  <2>1. /\ UNCHANGED <<vars, pc, client, backlog>> /\ Queued' = Queued
        /\ srv.at = "out" /\ pc = "poll"
        /\ srv' = [at |-> "accept", peer |-> NoClient, left |-> PollTimeout]
    BY <1>3 DEF lctl_server_poll, Queued, Out
  <2>2. CtlTypes' /\ Polling' /\ ServesPeer'
    BY <1>1, <2>1, LctlAssumption DEF CtlTypes, Polling, ServesPeer, Servers
  <2>3. srv.peer \notin Clients
    BY <2>1 DEF CtlInv, Polling
  <2>4. Waiting'
    BY <2>1, <2>3 DEF CtlInv, Waiting
  <2> QED BY <1>2, <2>1, <2>2, <2>4 DEF CtlInv
<1>4. CASE AcceptTimeout
  <2>1. /\ UNCHANGED <<vars, client, backlog>> /\ Queued' = Queued
        /\ srv.at = "accept"
        /\ srv' = [at |-> "out", peer |-> NoClient, left |-> 0]
    BY <1>4 DEF AcceptTimeout, PollReturns, Queued, Out
  <2>2. CtlTypes' /\ Polling' /\ ServesPeer'
    BY <1>1, <2>1, LctlAssumption DEF CtlTypes, Polling, ServesPeer, Servers
  <2>3. srv.peer \notin Clients
    BY <2>1 DEF CtlInv, Polling
  <2>4. Waiting'
    BY <2>1, <2>3 DEF CtlInv, Waiting
  <2> QED BY <1>2, <2>1, <2>2, <2>4 DEF CtlInv
<1>5. backlog # <<>> =>
        /\ Head(backlog) \in Clients /\ Tail(backlog) \in Seq(Clients)
        /\ Len(Tail(backlog)) <= Backlog
        /\ \A c \in Queued : c # Head(backlog) =>
             c \in {Tail(backlog)[i] : i \in 1..Len(Tail(backlog))}
  <2> SUFFICES ASSUME backlog # <<>>
               PROVE  /\ Head(backlog) \in Clients /\ Tail(backlog) \in Seq(Clients)
                      /\ Len(Tail(backlog)) <= Backlog
                      /\ \A c \in Queued : c # Head(backlog) =>
                           c \in {Tail(backlog)[i] : i \in 1..Len(Tail(backlog))}
    OBVIOUS
  <2>1. /\ Head(backlog) = backlog[1] /\ Head(backlog) \in Clients
        /\ Tail(backlog) \in Seq(Clients) /\ Len(backlog) \in Nat \ {0}
        /\ Len(Tail(backlog)) = Len(backlog) - 1
        /\ \A i \in 1..(Len(backlog) - 1) : Tail(backlog)[i] = backlog[i + 1]
    BY <1>1
  <2>2. Len(Tail(backlog)) <= Backlog
    BY <1>1, <2>1, LctlAssumption
  <2>3. ASSUME NEW c \in Queued, c # Head(backlog)
        PROVE  c \in {Tail(backlog)[i] : i \in 1..Len(Tail(backlog))}
    <3>1. PICK i \in 1..Len(backlog) : backlog[i] = c
      BY DEF Queued
    <3>2. i - 1 \in 1..(Len(backlog) - 1) /\ (i - 1) + 1 = i
      BY <2>1, <2>3, <3>1
    <3>3. Tail(backlog)[i - 1] = c
      BY <2>1, <3>1, <3>2
    <3> QED BY <2>1, <3>2, <3>3
  <2> QED BY <2>1, <2>2, <2>3
<1>6. CASE Accept
  <2>1. /\ UNCHANGED <<vars, pc, client>> /\ srv.at = "accept"
        /\ backlog # <<>> /\ backlog' = Tail(backlog)
        /\ srv' = [at |-> "receive", peer |-> Head(backlog), left |-> ReceiveTimeout]
    BY <1>6 DEF Accept
  <2>2. CtlTypes' /\ Polling' /\ ServesPeer'
    BY <1>1, <1>5, <2>1, LctlAssumption
       DEF CtlInv, CtlTypes, Polling, ServesPeer, Servers
  <2>3. srv.peer \notin Clients
    BY <2>1 DEF CtlInv, Polling
  <2>4. \A c \in Queued : c \in Queued' \/ c = srv'.peer
    BY <1>5, <2>1 DEF Queued
  <2>5. Waiting'
    BY <2>1, <2>3, <2>4 DEF CtlInv, Waiting
  <2> QED BY <1>2, <2>1, <2>2, <2>5 DEF CtlInv
<1>7. ASSUME NEW c \in Clients, client' = Answered(c, "closed") PROVE Truthful
  <2>1. /\ \A d \in Clients : d # c => client'[d] = client[d]
        /\ client'[c].got \in {"closed", "none"}
    BY <1>7, AnsweredEffect DEF CtlInv
  <2> QED BY <2>1, CodesAreReplies DEF Truthful
<1>8. CASE AcceptNoMemory
  <2>1. /\ UNCHANGED vars /\ srv.at = "accept" /\ PollReturns
        /\ backlog # <<>> /\ backlog' = Tail(backlog)
        /\ client' = Answered(Head(backlog), "closed")
    BY <1>8 DEF AcceptNoMemory
  <2>2. srv.peer \notin Clients
    BY <2>1 DEF CtlInv, Polling
  <2>3. \A c \in Queued : c # Head(backlog) => c \in Queued'
    BY <1>5, <2>1 DEF Queued
  <2>4. CtlInv'
    BY <1>5, <2>1, <2>2, <2>3, DoneWith
  <2> QED BY <1>5, <1>7, <2>1, <2>4
<1>9. CASE ReceiveFails
  <2>1. /\ UNCHANGED vars /\ srv.at = "receive" /\ PollReturns
        /\ backlog' = backlog /\ Queued' = Queued
        /\ client' = Answered(srv.peer, "closed")
    BY <1>9 DEF ReceiveFails, Queued
  <2>2. srv.peer \in Clients
    BY <2>1 DEF CtlInv, Polling
  <2>3. CtlInv'
    BY <1>1, <2>1, <2>2, DoneWith
  <2> QED BY <1>7, <2>1, <2>2, <2>3
<1> QED BY <1>3, <1>4, <1>6, <1>8, <1>9

(* Every step of lctl_server_poll.                                          *)
LEMMA PollSteps ==
  ASSUME IInv, CtlInv, PollStep
  PROVE  CtlInv' /\ Truthful /\ [Next]_vars
BY WaitingSteps, LookingVerbs, LoadVerb, StartVerb, StopVerb, UnloadVerb,
   ServedReply DEF PollStep, handle_request

(* lctl_server_poll runs at one point of the program and comes back to the  *)
(* next; it neither opens nor closes the listener.                          *)
LEMMA PollMoves ==
  ASSUME CtlInv, PollStep
  PROVE  /\ pc = "poll" /\ pc' \in {"poll", "tick"}
         /\ srv.at # "closed" /\ srv'.at # "closed"
<1>0. srv \in Servers /\ (srv.at \in {"accept", "receive", "serve"} => pc = "poll")
  BY DEF CtlInv, CtlTypes, Polling
<1>1. PollReturns => pc' = "tick" /\ srv'.at = "out"
  BY DEF PollReturns, Out
<1>2. Serving => pc' = pc /\ srv'.at = "serve"
  BY <1>0 DEF Serving, Servers
<1>3. BadLabel \/ (\E k \in Codes : Reply(k)) => pc' = "tick" /\ srv'.at = "out"
  BY <1>1 DEF BadLabel, Reply
<1>a. CASE lctl_server_poll
  <2>1. /\ pc = "poll" /\ pc' = pc /\ srv.at = "out"
        /\ srv' = [at |-> "accept", peer |-> NoClient, left |-> PollTimeout]
    BY <1>a DEF lctl_server_poll, Out
  <2> QED BY <2>1
<1>4. CASE AcceptTimeout \/ AcceptNoMemory \/ ReceiveFails
  BY <1>0, <1>1, <1>4 DEF AcceptTimeout, AcceptNoMemory, ReceiveFails
<1>b. CASE Accept
  BY <1>0, <1>b DEF Accept
<1>5. CASE handle_unknown \/ handle_list \/ handle_status \/ Served
  BY <1>0, <1>3, <1>5 DEF handle_unknown, handle_list, handle_status, Served,
     Verb, Report, Codes
<1>6. CASE handle_load \/ handle_start
  <2>1. srv.at = "receive" /\ (BadLabel \/ \E k \in Codes : Reply(k))
    BY <1>6 DEF handle_load, handle_start, Verb, Codes
  <2> QED BY <1>0, <1>3, <2>1
<1>7. CASE handle_unload \/ handle_stop
  <2>1. srv.at = "receive" /\ (BadLabel \/ Serving \/ \E k \in Codes : Reply(k))
    BY <1>7 DEF handle_unload, handle_stop, Verb, Codes
  <2> QED BY <1>0, <1>2, <1>3, <2>1
<1> QED BY <1>a, <1>b, <1>4, <1>5, <1>6, <1>7 DEF PollStep, handle_request

-----------------------------------------------------------------------------
(* The rest of the program, the clients, the kernel and the clock.          *)

(* A step that leaves the channel alone and does not disturb the call the   *)
(* peer waits for.                                                          *)
LEMMA ChannelAlone ==
  ASSUME CtlInv, UNCHANGED <<srv, client, backlog>>, ServesPeer',
         srv.at \in {"accept", "receive", "serve"} => pc' = "poll"
  PROVE  CtlInv' /\ Truthful
<1>1. Queued' = Queued
  BY DEF Queued
<1>2. CtlTypes' /\ Polling' /\ Waiting'
  BY <1>1 DEF CtlInv, CtlTypes, Polling, Waiting
<1>3. Truthful
  BY CodesAreReplies DEF Truthful
<1> QED BY <1>2, <1>3 DEF CtlInv

(* The call a peer waits for goes on, comes to its end and leaves the job   *)
(* STOPPED or removed.                                                      *)
LEMMA CallSteps ==
  ASSUME IInv, CtlInv, InCall
  PROVE  CtlInv' /\ Truthful /\ Next
<1>1. CallStep /\ UNCHANGED <<pc, srv, client, backlog>> /\ Next
  BY DEF InCall, lctl_vars, Next
<1>2. req' = req
  BY <1>1 DEF req
<1>3. job \in [Labels -> Jobs] /\ call \in Calls
  BY DEF IInv, TypeOK
<1>4. ASSUME srv.at = "serve" PROVE ServesPeer'
  <2> DEFINE l == req.label
  <2>1. /\ l \in Labels
        /\ \/ /\ req.verb = "stop"
              /\ \/ call.at = "idle"
                 \/ call.at \in Stopping /\ call.cur = l /\ call.back = "idle"
           \/ /\ req.verb = "unload"
              /\ \/ call.at = "idle"
                 \/ call.at \in Stopping /\ call.cur = l /\ call.back = "remove"
                 \/ call.at = "remove" /\ call.cur = l
    BY <1>4 DEF CtlInv, ServesPeer
  <2> HIDE DEF l
  <2>2. \/ StopPoll /\ call.at = "poll"
        \/ Escalate /\ call.at = "escalate"
        \/ KillWait /\ call.at = "killwait"
        \/ job_free /\ call.at = "remove"
    BY <1>1, <2>1 DEF CallStep, launch_registry_start_all, StopPoll, Escalate,
       KillWait, job_free, launch_registry_stop_all, launch_registry_free,
       TickReap, TickRestart, Stopping
  <2>3. ASSUME NEW st, StopDone(st), call.at \in Stopping PROVE ServesPeer'
    <3>1. job'[l].state = "stopped"
      BY <1>3, <2>1, <2>3 DEF StopDone, Stopping, Jobs
    <3>2. CASE req.verb = "stop"
      <4>1. call' = Idle
        BY <2>1, <2>3, <3>2 DEF StopDone, Stopping
      <4> QED BY <1>2, <2>1, <3>1, <3>2, <4>1 DEF ServesPeer, Idle, l
    <3>3. CASE req.verb = "unload"
      <4>1. call' = [call EXCEPT !.at = "remove", !.back = "idle", !.left = 0]
            /\ call.cur = l
        BY <2>1, <2>3, <3>3 DEF StopDone, Stopping
      <4>2. call'.at = "remove" /\ call'.cur = l
        BY <1>3, <4>1 DEF Calls
      <4> QED BY <1>2, <2>1, <3>3, <4>2 DEF ServesPeer, l
    <3> QED BY <2>1, <3>2, <3>3
  <2>4. ASSUME call'.at \in Stopping, call'.cur = call.cur, call'.back = call.back,
               call.at \in Stopping
        PROVE  ServesPeer'
    BY <1>2, <2>1, <2>4 DEF ServesPeer, l, Stopping
  <2>5. CASE StopPoll /\ call.at = "poll"
    <3>1. CASE \E st : StopDone(st)
      BY <2>3, <2>5, <3>1 DEF Stopping
    <3>2. CASE call' = [call EXCEPT !.at = "escalate"]
      BY <1>3, <2>4, <2>5, <3>2 DEF Stopping, Calls
    <3> QED BY <2>5, <3>1, <3>2 DEF StopPoll
  <2>6. CASE Escalate /\ call.at = "escalate"
    <3>1. call' = [call EXCEPT !.at = "killwait"]
      BY <2>6 DEF Escalate
    <3> QED BY <1>3, <2>4, <2>6, <3>1 DEF Stopping, Calls
  <2>7. CASE KillWait /\ call.at = "killwait"
    BY <2>3, <2>7 DEF KillWait, Stopping
  <2>8. CASE job_free /\ call.at = "remove"
    <3>1. call' = Idle /\ reg' = Without(l) /\ req.verb = "unload"
      BY <2>1, <2>8 DEF job_free, Stopping
    <3>2. l \in Registered
      BY <2>1, <2>8 DEF IInv, CallConsistent, Stopping
    <3>3. l \notin Registered'
      BY <3>1, <3>2, WithoutReg DEF IInv
    <3> QED BY <1>2, <2>1, <3>1, <3>3 DEF ServesPeer, Idle, l
  <2> QED BY <2>2, <2>5, <2>6, <2>7, <2>8
<1>5. ASSUME srv.at # "serve" PROVE ServesPeer'
  BY <1>1, <1>5 DEF ServesPeer
<1>6. ServesPeer'
  BY <1>4, <1>5
<1> QED BY <1>1, <1>6, ChannelAlone DEF CtlInv, Polling

(* The program does something outside lctl_server_poll.                     *)
LEMMA OutsidePoll ==
  ASSUME CtlInv, pc # "poll", UNCHANGED <<srv, client, backlog>>
  PROVE  CtlInv' /\ Truthful
<1>1. srv.at \notin {"accept", "receive", "serve"}
  BY DEF CtlInv, Polling
<1>2. ServesPeer'
  BY <1>1 DEF ServesPeer
<1> QED BY <1>1, <1>2, ChannelAlone

(* A step of somebody else.                                                 *)
LEMMA ChannelStutter ==
  ASSUME CtlInv, UNCHANGED all_vars
  PROVE  CtlInv' /\ Truthful
<1>1. UNCHANGED <<pc, srv, client, backlog>> /\ UNCHANGED vars
  BY DEF all_vars, lctl_vars
<1>2. ServesPeer'
  BY <1>1 DEF CtlInv, ServesPeer, req, vars, Registered
<1> QED BY <1>1, <1>2, ChannelAlone DEF CtlInv, Polling

(* A tick is a call of the program outside lctl_server_poll.                *)
LEMMA TickSteps ==
  ASSUME CtlInv, Tick
  PROVE  CtlInv' /\ Truthful /\ Next
BY OutsidePoll DEF Tick, Next, Caller

(* Children that end change neither a call nor what a reply says.           *)
LEMMA ExitSteps ==
  ASSUME CtlInv, Exits
  PROVE  CtlInv' /\ Truthful /\ Next
<1>1. /\ UNCHANGED <<reg, job, call, pc, srv, client, backlog>>
      /\ Next /\ Registered' = Registered
  BY DEF Exits, ProcExit, ReapedElsewhere, lctl_vars, Next, Kernel, Registered
<1>2. ServesPeer'
  BY <1>1 DEF CtlInv, ServesPeer, req
<1> QED BY <1>1, <1>2, ChannelAlone DEF CtlInv, Polling

(* Time only runs down what is left of the waits.                           *)
LEMMA ClockSteps ==
  ASSUME IInv, CtlInv, Clock
  PROVE  CtlInv' /\ Truthful /\ Next
<1>1. /\ srv \in Servers /\ srv' = [srv EXCEPT !.left = Less1(@)]
      /\ UNCHANGED <<pc, client, backlog, reg>> /\ TimePasses
      /\ Next /\ Registered' = Registered /\ Queued' = Queued
  BY DEF CtlInv, CtlTypes, Clock, TimePasses, Next, Kernel, Registered, Queued
<1>2. Less1(srv.left) \in Nat
  BY <1>1 DEF Less1, Servers
<1>3. srv' \in Servers /\ srv'.at = srv.at /\ srv'.peer = srv.peer
  BY <1>1, <1>2 DEF Servers
<1>4. /\ call'.at = call.at /\ call'.cur = call.cur /\ call'.back = call.back
      /\ \A l \in Labels : job'[l].state = job[l].state
  BY <1>1 DEF IInv, TypeOK, TimePasses, Calls, Jobs
<1>5. CtlTypes' /\ Polling' /\ Waiting'
  BY <1>1, <1>3 DEF CtlInv, CtlTypes, Polling, Waiting
<1>6. req' = req
  BY <1>1, <1>3 DEF req
<1>7. ServesPeer'
  BY <1>1, <1>3, <1>4, <1>6 DEF CtlInv, ServesPeer
<1>8. Truthful
  BY <1>1, CodesAreReplies DEF Truthful
<1> QED BY <1>1, <1>5, <1>7, <1>8 DEF CtlInv

(* A client may connect, send and hang up at any moment; it neither reaches *)
(* the supervisor nor changes the request that is being served.             *)
LEMMA ClientSteps ==
  ASSUME CtlInv, NEW c \in Clients, ClientStep(c)
  PROVE  CtlInv' /\ Truthful /\ UNCHANGED vars
<1>1. /\ srv \in Servers /\ client \in [Clients -> ClientStates]
      /\ backlog \in Seq(Clients) /\ Len(backlog) <= Backlog
      /\ UNCHANGED <<vars, pc, srv>>
  BY DEF CtlInv, CtlTypes, ClientStep, Connect, Send, Quit
<1>2. /\ \A d \in Clients : d # c => client'[d] = client[d]
      /\ client'[c] \in ClientStates
      /\ client' \in [Clients -> ClientStates]
      /\ client'[c].got \in {client[c].got, "none"}
      /\ c = srv.peer => client'[c].req = client[c].req
      /\ client'[c].up /\ client'[c].got = "none" => 
           \/ c \in Queued'
           \/ client[c].up /\ client[c].got = "none"
      /\ backlog' \in Seq(Clients) /\ Len(backlog') <= Backlog
      /\ Queued \subseteq Queued'
      /\ srv.at = "closed" => backlog' = backlog
  <2>1. CASE Connect(c)
    <3>1. PICK r \in Requests[c] :
            client' = [client EXCEPT ![c] = [Away EXCEPT !.up = TRUE, !.req = r]]
      BY <2>1 DEF Connect
    <3>2. r \in AllRequests
      BY LctlAssumption
    <3>4. client'[c] = [Away EXCEPT !.up = TRUE, !.req = r]
      BY <1>1, <3>1
    <3>3. client'[c].up /\ client'[c].got = "none"
      BY <3>4, AwayType DEF Away, ClientStates
    <3>5. client'[c] \in ClientStates
      BY <3>2, <3>4, AwayType DEF ClientStates
    <3>6. /\ client' \in [Clients -> ClientStates]
          /\ \A d \in Clients : d # c => client'[d] = client[d]
      BY <1>1, <3>1, <3>5
    <3>7. /\ backlog' = Append(backlog, c) /\ Len(backlog) < Backlog
          /\ c # srv.peer /\ srv.at # "closed"
      BY <2>1 DEF Connect
    <3>8. /\ backlog' \in Seq(Clients) /\ Len(backlog') = Len(backlog) + 1
          /\ backlog'[Len(backlog) + 1] = c /\ Len(backlog) \in Nat
          /\ \A i \in 1..Len(backlog) : backlog'[i] = backlog[i]
      BY <1>1, <3>7
    <3>9. Len(backlog') <= Backlog /\ c \in Queued' /\ Queued \subseteq Queued'
      BY <3>7, <3>8, LctlAssumption DEF Queued
    <3> QED BY <3>3, <3>5, <3>6, <3>7, <3>8, <3>9
  <2>2. CASE Send(c)
    <3>1. /\ client' = [client EXCEPT ![c].sent = TRUE] /\ backlog' = backlog
          /\ Queued' = Queued
      BY <2>2 DEF Send, Queued
    <3>2. [client[c] EXCEPT !.sent = TRUE] \in ClientStates
      BY <1>1 DEF ClientStates
    <3>3. client'[c] = [client[c] EXCEPT !.sent = TRUE]
      BY <1>1, <3>1
    <3>4. /\ client' \in [Clients -> ClientStates]
          /\ \A d \in Clients : d # c => client'[d] = client[d]
      BY <1>1, <3>1, <3>2
    <3>5. /\ client'[c].got = client[c].got /\ client'[c].req = client[c].req
          /\ client'[c].up = client[c].up
      BY <1>1, <3>3 DEF ClientStates
    <3> QED BY <1>1, <3>1, <3>2, <3>3, <3>4, <3>5
  <2>3. CASE Quit(c)
    <3>1. /\ client' = [client EXCEPT ![c] = IF c \in Queued \/ c = srv.peer
                                       THEN [@ EXCEPT !.up = FALSE] ELSE Away]
          /\ backlog' = backlog /\ Queued' = Queued
      BY <2>3 DEF Quit, Queued
    <3>2. [client[c] EXCEPT !.up = FALSE] \in ClientStates
      BY <1>1 DEF ClientStates
    <3>3. client'[c] = IF c \in Queued \/ c = srv.peer
                         THEN [client[c] EXCEPT !.up = FALSE] ELSE Away
      BY <1>1, <3>1
    <3>4. /\ client'[c] \in ClientStates
          /\ client' \in [Clients -> ClientStates]
          /\ \A d \in Clients : d # c => client'[d] = client[d]
      BY <1>1, <3>1, <3>2, <3>3, AwayType
    <3>5. /\ client'[c].got \in {client[c].got, "none"} /\ ~client'[c].up
          /\ c = srv.peer => client'[c].req = client[c].req
      <4>1. CASE c \in Queued \/ c = srv.peer
        BY <1>1, <3>3, <4>1 DEF ClientStates
      <4>2. CASE ~(c \in Queued \/ c = srv.peer)
        BY <3>3, <4>2 DEF Away
      <4> QED BY <4>1, <4>2
    <3> QED BY <1>1, <3>1, <3>4, <3>5
  <2> QED BY <2>1, <2>2, <2>3 DEF ClientStep
<1>3. CtlTypes' /\ Polling'
  BY <1>1, <1>2 DEF CtlInv, CtlTypes, Polling
<1>4. Waiting'
  BY <1>1, <1>2 DEF CtlInv, Waiting
<1>5. ServesPeer'
  <2>1. srv.at = "serve" => req' = req
    BY <1>1, <1>2 DEF CtlInv, Polling, req
  <2>2. job' = job /\ call' = call /\ Registered' = Registered
    BY <1>1 DEF vars, Registered
  <2> QED BY <1>1, <2>1, <2>2 DEF CtlInv, ServesPeer
<1>6. Truthful
  BY <1>2, CodesAreReplies DEF Truthful
<1> QED BY <1>1, <1>3, <1>4, <1>5, <1>6 DEF CtlInv

-----------------------------------------------------------------------------
(* The theorems.                                                            *)

LctlInv == IInv /\ CtlInv /\ pc \in {"poll", "tick", "ticking"}

(* The server starts with an empty registry and nobody connected.           *)
LEMMA LctlInitInv == LctlInit => LctlInv
<1> SUFFICES ASSUME LctlInit PROVE LctlInv
  OBVIOUS
<1>1. IInv
  BY InitInv DEF LctlInit
<1>2. /\ srv = [at |-> "out", peer |-> NoClient, left |-> 0]
      /\ client = [c \in Clients |-> Away] /\ backlog = <<>> /\ pc = "poll"
  BY DEF LctlInit, Out
<1>3. CtlTypes
  BY <1>2, AwayType, LctlAssumption DEF CtlTypes, Servers
<1>4. Polling /\ ServesPeer
  BY <1>2, LctlAssumption DEF Polling, ServesPeer
<1>5. Waiting
  BY <1>2 DEF Waiting, Away
<1> QED BY <1>1, <1>2, <1>3, <1>4, <1>5 DEF LctlInv, CtlInv

(* The simulation step: whatever the server, a client, the program or the   *)
(* kernel does is a step of the supervisor or invisible to it, keeps the    *)
(* invariant, and tells no client anything that is not so.                  *)
LEMMA LctlStep ==
  ASSUME LctlInv, [LctlNext]_all_vars
  PROVE  LctlInv' /\ [Next]_vars /\ [Truthful]_all_vars
<1> DEFINE PCs3 == {"poll", "tick", "ticking"}
<1>0. IInv /\ CtlInv /\ pc \in PCs3
  BY DEF LctlInv
<1> SUFFICES CtlInv' /\ pc' \in PCs3 /\ [Next]_vars /\ [Truthful]_all_vars
  BY <1>0, NextInv DEF LctlInv
<1> HIDE DEF PCs3
<1>1. CASE PollStep
  BY <1>0, <1>1, PollSteps, PollMoves DEF PCs3
<1>2. CASE Tick
  BY <1>0, <1>2, TickSteps DEF PCs3, Tick
<1>3. CASE TickReturns
  BY <1>0, <1>3, OutsidePoll DEF PCs3, TickReturns
<1>4. CASE InCall
  BY <1>0, <1>4, CallSteps DEF InCall, lctl_vars
<1>5. CASE \E c \in Clients : ClientStep(c)
  BY <1>0, <1>5, ClientSteps DEF ClientStep, Connect, Send, Quit
<1>6. CASE Exits
  BY <1>0, <1>6, ExitSteps DEF Exits, lctl_vars
<1>7. CASE Clock
  BY <1>0, <1>7, ClockSteps DEF Clock
<1>8. CASE UNCHANGED all_vars
  BY <1>0, <1>8, ChannelStutter DEF all_vars, lctl_vars
<1> QED BY <1>1, <1>2, <1>3, <1>4, <1>5, <1>6, <1>7, <1>8 DEF LctlNext

(* The inductive invariant of the control channel.                          *)
THEOREM LctlInvariant == LctlSpec => []LctlInv
<1>1. LctlInv /\ [LctlNext]_all_vars => LctlInv'
  BY LctlStep
<1> QED BY <1>1, LctlInitInv, PTL DEF LctlSpec

(* The program with the control channel implements the supervisor: every    *)
(* verb ends in calls that launch_job.h allows, made one at a time and from *)
(* outside any other call.                                                  *)
THEOREM ServerImplementsSupervisor == LctlSpec => Spec
<1>1. LctlInit => Init
  BY DEF LctlInit
<1>2. LctlInv /\ [LctlNext]_all_vars => [Next]_vars
  BY LctlStep
<1> QED BY <1>1, <1>2, LctlInvariant, PTL DEF LctlSpec, Spec

(* Every variable of the server and its clients keeps its type; the listen  *)
(* queue stays within its limit.                                            *)
THEOREM LctlTypeCorrect == LctlSpec => []LctlTypeOK
<1>1. LctlInv => LctlTypeOK
  BY DEF LctlInv, IInv, CtlInv, CtlTypes, LctlTypeOK
<1> QED BY <1>1, LctlInvariant, PTL

(* With requests coming in at any moment, every zombie is still the         *)
(* recorded child of its job, so the next tick or stop reaps it.            *)
THEOREM ServerKeepsZombies == LctlSpec => []NoLeakedZombie
BY ServerImplementsSupervisor, ZombiesHaveJobs, PTL

(* The same for live children: none is lost by any sequence of requests.    *)
THEOREM ServerLosesNoProcess == LctlSpec => []NoStrayProcess
BY ServerImplementsSupervisor, NoProcessIsLost, PTL

(* Every reply is true of the supervisor in the state it is sent in,        *)
(* however long the call took and whatever children and clients did.        *)
THEOREM RepliesTellTheTruth == LctlSpec => RepliesAreTrue
<1>1. LctlInv /\ [LctlNext]_all_vars => [Truthful]_all_vars
  BY LctlStep
<1> QED BY <1>1, LctlInvariant, PTL DEF LctlSpec, RepliesAreTrue
=============================================================================
