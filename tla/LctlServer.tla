----------------------------- MODULE LctlServer -----------------------------
(***************************************************************************)
(* The control channel of the supervisor: the server of                    *)
(* launchd/launchctl_server.c, the clients that talk to it (launchctl.c),  *)
(* and the loop of the program that embeds both,                           *)
(*                                                                         *)
(*     for (;;) { lctl_server_poll(srv, t); launch_registry_tick(reg); }   *)
(*                                                                         *)
(* as launchctl_server.h gives it.  Every verb ends in calls of the job    *)
(* supervisor: this module adds who makes those calls and when, so that    *)
(* its steps are steps of LaunchJob or leave the supervisor alone.         *)
(*                                                                         *)
(* A connection carries one request and one reply.  The request is one     *)
(* message: the bytes of a frame are the business of the XPC shim.         *)
(***************************************************************************)
EXTENDS LaunchJob

CONSTANTS
  Clients,          \* client processes
  NoClient,         \* no peer is being served
  Requests,         \* Requests[c]: what client c may ask for
  NoFile,           \* a request without the key "path"
  Backlog,          \* listen(fd, 16)
  PollTimeout,      \* lctl_server_poll's timeout
  ReceiveTimeout,   \* handle_request's wait for the request (5 s)
  StopGrace,        \* handle_stop's launch_job_stop timeout (5 s)
  UnloadGrace       \* launch_registry_unload's (2 s)

Verbs == {"list", "status", "load", "unload", "start", "stop", "unknown"}
AllRequests == [verb : Verbs, label : Labels \cup {NoLabel},
                file : Plists \cup {NoFile}]
Codes == {"ok", "notfound", "already", "badverb", "badarg", "internal", "plist"}

(* What a reply may carry: a code, or none.                                 *)
Answers == Codes \cup {"nocode"}

ASSUME LctlAssumption ==
  /\ Requests \in [Clients -> SUBSET AllRequests]
  /\ NoClient \notin Clients /\ NoFile \notin Plists
  /\ Backlog \in Nat \ {0} /\ PollTimeout \in Nat /\ ReceiveTimeout \in Nat
  /\ {StopGrace, UnloadGrace} \subseteq Graces

VARIABLES
  pc,       \* where the embedding program is
  srv,      \* struct lctl_server: what lctl_server_poll is doing
  client,   \* the client processes
  backlog   \* connections the kernel holds for accept()

lctl_vars == <<pc, srv, client, backlog>>
all_vars == <<vars, lctl_vars>>

(* "out": not in lctl_server_poll; "closed": no listener.                   *)
Servers == [at : {"out", "accept", "receive", "serve", "closed"},
            peer : Clients \cup {NoClient}, left : Nat]

(* up: the client holds its end open; sent: the request is on its way or    *)
(* with the server; got: the code of the reply, "nocode" if the reply has   *)
(* none, or "closed" without a reply.                                       *)
ClientStates == [up : BOOLEAN, sent : BOOLEAN, req : AllRequests,
                 got : Answers \cup {"none", "closed"}]

Out == [at |-> "out", peer |-> NoClient, left |-> 0]

NoRequest == [verb |-> "unknown", label |-> NoLabel, file |-> NoFile]

(* A client without a connection.                                           *)
Away == [up |-> FALSE, sent |-> FALSE, req |-> NoRequest, got |-> "none"]

LctlTypeOK ==
  /\ TypeOK
  /\ pc \in {"poll", "tick", "ticking"}
  /\ srv \in Servers
  /\ client \in [Clients -> ClientStates]
  /\ backlog \in Seq(Clients) /\ Len(backlog) <= Backlog

LctlInit ==
  /\ Init
  /\ pc = "poll"
  /\ srv = Out
  /\ client = [c \in Clients |-> Away]
  /\ backlog = <<>>

-----------------------------------------------------------------------------
(* The client, roundtrip() of launchctl.c.                                  *)

Queued == {backlog[i] : i \in 1..Len(backlog)}

Connect(c) ==
  /\ ~client[c].up
  /\ c \notin Queued /\ c # srv.peer          \* a new process, a new socket
  /\ srv.at # "closed" /\ Len(backlog) < Backlog
  /\ \E r \in Requests[c] :
       client' = [client EXCEPT ![c] = [Away EXCEPT !.up = TRUE, !.req = r]]
  /\ backlog' = Append(backlog, c)
  /\ UNCHANGED <<vars, pc, srv>>

(* catbsd_xpc_connection_send_message_with_reply_sync, its first half.      *)
Send(c) ==
  /\ client[c].up /\ ~client[c].sent /\ client[c].got = "none"
  /\ client' = [client EXCEPT ![c].sent = TRUE]
  /\ UNCHANGED <<vars, pc, srv, backlog>>

(* The client cancels its connection: it has its reply, its 10 s are over,  *)
(* or it died.  What it sent stays in the socket.                           *)
Quit(c) ==
  /\ client[c].up
  /\ client' = [client EXCEPT ![c] = IF c \in Queued \/ c = srv.peer
                                       THEN [@ EXCEPT !.up = FALSE] ELSE Away]
  /\ UNCHANGED <<vars, pc, srv, backlog>>

-----------------------------------------------------------------------------
(* The end of a connection, as the server sees it.                          *)

(* The reply k, or just the end of the stream if k is "closed".             *)
Answered(c, k) ==
  [client EXCEPT ![c] = IF @.up THEN [@ EXCEPT !.got = k] ELSE Away]

(* lctl_server_poll returns and the program goes on to the tick.            *)
PollReturns == srv' = Out /\ pc' = "tick"

(* One reply; then the peer is cancelled and released.  Without memory for  *)
(* the dictionary or the frame there is no reply, and without memory for    *)
(* the entry LCTL_KEY_CODE, whose setter nobody checks, it has no code.     *)
Reply(code) ==
  /\ \E k \in {code} \cup (IF "memory" \in Failures THEN {"closed", "nocode"}
                                                    ELSE {}) :
       client' = Answered(srv.peer, k)
  /\ PollReturns
  /\ UNCHANGED backlog

-----------------------------------------------------------------------------
(* lctl_server_poll: wait for a connection, take its request, dispatch.     *)

lctl_server_poll ==
  /\ pc = "poll" /\ srv.at = "out"
  /\ srv' = [Out EXCEPT !.at = "accept", !.left = PollTimeout]
  /\ UNCHANGED <<vars, pc, client, backlog>>

(* Mutant: with nobody there, accept() waits for somebody.                  *)
MutantAcceptTimeout ==
  /\ srv.at = "accept" /\ srv.left = 0 /\ backlog # <<>>
  /\ PollReturns
  /\ UNCHANGED <<vars, client, backlog>>

(* The deadline is looked at before the descriptor.                         *)
AcceptTimeout ==
  /\ srv.at = "accept" /\ srv.left = 0
  /\ PollReturns
  /\ UNCHANGED <<vars, client, backlog>>

Accept ==
  /\ srv.at = "accept" /\ srv.left > 0 /\ backlog # <<>>
  /\ srv' = [at |-> "receive", peer |-> Head(backlog), left |-> ReceiveTimeout]
  /\ backlog' = Tail(backlog)
  /\ UNCHANGED <<vars, pc, client>>

(* conn_alloc fails: the connection is closed and poll returns an error.    *)
AcceptNoMemory ==
  /\ srv.at = "accept" /\ srv.left > 0 /\ backlog # <<>>
  /\ "memory" \in Failures
  /\ client' = Answered(Head(backlog), "closed")
  /\ backlog' = Tail(backlog)
  /\ PollReturns
  /\ UNCHANGED vars

(* Mutant: the wait for the request has no deadline.                        *)
MutantReceiveFails ==
  /\ srv.at = "receive" /\ ~client[srv.peer].sent
  /\ ~client[srv.peer].up
  /\ client' = Answered(srv.peer, "closed")
  /\ PollReturns
  /\ UNCHANGED <<vars, backlog>>

(* The peer hung up without a request, or did not send one in time.         *)
ReceiveFails ==
  /\ srv.at = "receive" /\ ~client[srv.peer].sent
  /\ ~client[srv.peer].up \/ srv.left = 0
  /\ client' = Answered(srv.peer, "closed")
  /\ PollReturns
  /\ UNCHANGED <<vars, backlog>>

-----------------------------------------------------------------------------
(* The verb handlers.                                                       *)

req == client[srv.peer].req

(* The request arrived and names the verb.                                  *)
Verb(v) == srv.at = "receive" /\ client[srv.peer].sent /\ req.verb = v

(* The checks every verb with a label begins with.                          *)
BadLabel ==
  /\ \/ req.label = NoLabel /\ Reply("badarg")
     \/ req.label # NoLabel /\ ~launch_registry_find(req.label) /\ Reply("notfound")
  /\ UNCHANGED vars

GoodLabel == req.label # NoLabel /\ launch_registry_find(req.label)

handle_unknown == Verb("unknown") /\ Reply("badverb") /\ UNCHANGED vars

(* The reply of list or status, or "out of memory" with what is left of it. *)
Report ==
  /\ Reply("ok") \/ ("memory" \in Failures /\ Reply("internal"))
  /\ UNCHANGED vars

handle_list == Verb("list") /\ Report

handle_status == Verb("status") /\ (BadLabel \/ (GoodLabel /\ Report))

handle_load ==
  /\ Verb("load")
  /\ \/ req.file = NoFile /\ Reply("badarg") /\ UNCHANGED vars
     \/ /\ req.file # NoFile
        /\ launch_registry_load_plist(req.file)
        /\ Reply(IF reg' = reg THEN "plist" ELSE "ok")

(* The handler waits in a call of the supervisor.                           *)
Serving == /\ srv' = [srv EXCEPT !.at = "serve"]
           /\ UNCHANGED <<pc, client, backlog>>

handle_unload ==
  /\ Verb("unload")
  /\ \/ BadLabel
     \/ GoodLabel /\ launch_registry_unload(req.label, UnloadGrace) /\ Serving

handle_start ==
  /\ Verb("start")
  /\ \/ BadLabel
     \/ /\ GoodLabel /\ job[req.label].state = "running"
        /\ Reply("already") /\ UNCHANGED vars
     \/ /\ GoodLabel /\ Start(req.label)
        /\ Reply(IF job'[req.label].state = "running" THEN "ok" ELSE "internal")

(* Mutant: a job without a process counts as stopped.                       *)
MutantHandleStop ==
  /\ Verb("stop")
  /\ \/ BadLabel
     \/ /\ GoodLabel /\ job[req.label].state # "running"
        /\ Reply("already") /\ UNCHANGED vars
     \/ /\ GoodLabel /\ job[req.label].state = "running"
        /\ Stop(req.label, StopGrace) /\ Serving

handle_stop ==
  /\ Verb("stop")
  /\ \/ BadLabel
     \/ /\ GoodLabel /\ job[req.label].state = "stopped"
        /\ Reply("already") /\ UNCHANGED vars
     \/ /\ GoodLabel /\ job[req.label].state # "stopped"
        /\ Stop(req.label, StopGrace) /\ Serving

(* launch_job_stop or launch_registry_unload is back.                       *)
Served ==
  /\ srv.at = "serve" /\ call.at = "idle"
  /\ Reply("ok")
  /\ UNCHANGED vars

handle_request ==
  \/ ReceiveFails
  \/ handle_unknown \/ handle_list \/ handle_status \/ handle_load
  \/ handle_unload \/ handle_start \/ handle_stop \/ Served

-----------------------------------------------------------------------------
(* The embedding program and its surroundings.                              *)

Tick ==
  /\ pc = "tick"
  /\ BeginTick
  /\ pc' = "ticking"
  /\ UNCHANGED <<srv, client, backlog>>

TickReturns ==
  /\ pc = "ticking" /\ call.at = "idle"
  /\ pc' = "poll"
  /\ UNCHANGED <<vars, srv, client, backlog>>

InCall == CallStep /\ UNCHANGED lctl_vars

ClientStep(c) == Connect(c) \/ Send(c) \/ Quit(c)

Exits == (\E p \in Pids : ProcExit(p) \/ ReapedElsewhere(p)) /\ UNCHANGED lctl_vars

Clock ==
  /\ TimePasses
  /\ srv' = [srv EXCEPT !.left = Less1(@)]
  /\ UNCHANGED <<pc, client, backlog>>

PollStep == lctl_server_poll \/ AcceptTimeout \/ Accept \/ AcceptNoMemory
              \/ handle_request

LctlNext ==
  \/ PollStep \/ Tick \/ TickReturns \/ InCall
  \/ \E c \in Clients : ClientStep(c)
  \/ Exits \/ Clock

LctlSpec == LctlInit /\ [][LctlNext]_all_vars

(* The program is scheduled, time goes on, a child that was sent SIGKILL    *)
(* dies.  A pending connection is accepted before the timeout of            *)
(* lctl_server_poll runs out if there are always more attempts: the program *)
(* does not lose PollTimeout between two instructions every time.  Nothing  *)
(* is assumed of the clients.                                               *)
LctlFairness ==
  /\ WF_all_vars(PollStep \/ InCall)
  /\ WF_all_vars(Tick \/ TickReturns)
  /\ WF_all_vars(Clock)
  /\ SF_all_vars(Accept)
  /\ \A p \in Pids : WF_all_vars(proc[p].kill /\ ProcExit(p) /\ UNCHANGED lctl_vars)

LctlLiveSpec == LctlSpec /\ LctlFairness

-----------------------------------------------------------------------------
(* Properties.                                                              *)

(* No process of l runs, unless SIGKILL is on its way to it.                *)
NoProcessOf(l) ==
  \A p \in Pids : proc[p].job = l /\ proc[p].st = "alive" => proc[p].kill

(* What launchctl makes of a reply: a code that is not there reads as       *)
(* LCTL_OK.                                                                 *)
check_reply(k) == IF k = "nocode" THEN "ok" ELSE k

(* What launchctl tells its user is true of the supervisor when the reply   *)
(* is sent: a stopped job is STOPPED (so neither tick nor start_all revives *)
(* it) and has no process, an unloaded one is gone with its process, a      *)
(* started one runs its own child, a loaded one is in the registry, and "no *)
(* such job" means there is none.  A reply that lost its code for want of   *)
(* memory tells nothing of a start, a load, or a stop of a job that is not  *)
(* there (section 6 of the README); what it says of the rest is still so.   *)
ReplyIsTrue(r, k) ==
  /\ /\ r.verb = "stop" /\ check_reply(k) \in {"ok", "already"}
     /\ k = "nocode" => r.label \in Registered
     => job[r.label].state = "stopped" /\ NoProcessOf(r.label)
  /\ r.verb = "unload" /\ check_reply(k) = "ok" /\ r.label \in Labels =>
       r.label \notin Registered /\ NoProcessOf(r.label)
  /\ r.verb = "start" /\ k \in {"ok", "already"} =>
       /\ job[r.label].state = "running"
       /\ proc[job[r.label].pid].job = r.label \/ (k = "already" /\ ForeignReaper)
  /\ r.verb = "load" /\ k = "ok" => DefOf[r.file].label \in Registered
  /\ k = "notfound" => r.label \notin Registered

Truthful ==
  \A c \in Clients, k \in Answers :
    client[c].got = "none" /\ client'[c].got = k => ReplyIsTrue(client[c].req, k)'

RepliesAreTrue == [][Truthful]_all_vars

(* launchctl_server.c: a handler "must send exactly one reply before        *)
(* returning", and lctl_server_poll serves one peer at a time.  Whatever    *)
(* the other clients do (connect and say nothing, hang up, stop a job that  *)
(* ignores SIGTERM), a client that sent its request and waits is answered.  *)
RequestsAnswered ==
  \A c \in Clients :
    (client[c].up /\ client[c].sent) ~> (client[c].got # "none" \/ ~client[c].up)

(* The control channel does not starve supervision: a job that KeepAlive    *)
(* keeps alive whatever happens and whose process ended gets a new process, *)
(* unless an operator stopped or removed it or it cannot be started.        *)
KeptAlive ==
  \A l \in Labels :
    (/\ job[l].keepalive = "always" /\ job[l].state = "running"
     /\ proc[job[l].pid].st = "zombie")
      ~> (\/ job[l].state = "running" /\ proc[job[l].pid].st = "alive"
          \/ job[l].state \in {"stopped", "failed"} \/ l \notin Registered
          \/ pc = "exited")
=============================================================================
