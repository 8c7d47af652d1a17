----------------------------- MODULE MCJobPlist -----------------------------
(* Job plists and configuration files, intact and damaged, for TLC.         *)
EXTENDS JobPlist

CONSTANT MaxCalls     \* more allocations than any of the files takes

-----------------------------------------------------------------------------
(* Trees.                                                                   *)

S(text) == [type |-> "string", string |-> text]
I(n)    == [type |-> "integer", integer |-> n]
R(n)    == [type |-> "real", real |-> n]
B(b)    == [type |-> "bool", boolean |-> b]
A(vs)   == [type |-> "array", array |-> vs]
D(es)   == [type |-> "dict", dict |-> [i \in DOMAIN es |-> <<<<es[i][1]>>, es[i][2]>>]]
X(bs)   == [type |-> "data", data |-> bs]

(* How numbers and bytes are written.                                       *)
Digits == (12 :> <<"1", "2">>) @@ (-3 :> <<" ", "-", "3">>) @@ (7 :> <<"+", "7">>)
            @@ (99999 :> <<"1", "0", "0", "0", "0", "0">>)
Base64 == (<<65>> :> <<"Q", "Q">>) @@ (<<205, 13>> :> <<"z", "Q", " ", "1", "=">>)
            @@ (<<255, 255, 255, 205, 13, 64>> :>
                  <<"/", "/", "/", "/", "z", "Q", "1", "A">>)

-----------------------------------------------------------------------------
(* Documents.                                                               *)

Text(t) == [i \in DOMAIN t |-> IF t[i] = "amp" THEN Ent("amp") ELSE Char(t[i])]

Element(n, body) == <<Open(n)>> \o body \o <<Close(n)>>

(* The items of a tree.  gap goes between tags; short writes <n/> for what  *)
(* is empty.                                                                *)
RECURSIVE Render(_, _, _)
Render(v, gap, short) ==
  LET element(n, body) ==
        IF short /\ body = <<>> THEN <<Self(n)>> ELSE Element(n, body)
  IN CASE v.type = "string"  -> element("string", Text(v.string))
       [] v.type = "integer" -> Element("integer", Text(Digits[v.integer]))
       [] v.type = "real"    -> Element("real", Text(Digits[v.real]))
       [] v.type = "bool"    -> element(IF v.boolean THEN "true" ELSE "false", <<>>)
       [] v.type = "data"    ->
            element("data", IF v.data = <<>> THEN <<>> ELSE Text(Base64[v.data]))
       [] v.type = "array"   ->
            element("array", FlattenSeq([i \in DOMAIN v.array |->
                               gap \o Render(v.array[i], gap, short)]))
       [] v.type = "dict"    ->
            element("dict", FlattenSeq([i \in DOMAIN v.dict |->
                      gap \o Element("key", Text(v.dict[i][1])) \o gap \o
                      Render(v.dict[i][2], gap, short)]))

Comment == <<Mark("<!--")>> \o Element("key", <<Char("Label")>>) \o <<Char("-->")>>
Prologue == <<Mark("<?"), Char("xml"), Char("?>"), Char(" "), Mark("<!"), Char("["),
              Mark("<!"), Char(">"), Char("]"), Char(">")>>

Plain(v) == Element("plist", Render(v, <<>>, TRUE))
Airy(v)  == Prologue \o Element("plist", Comment \o Render(v, <<Char(" ")>>, FALSE)
                                           \o <<Char(" ")>>) \o <<Char(" ")>>
Bare(v)  == Render(v, <<Char(" ")>>, TRUE) \o Comment

(* A tag is lost, doubled, takes another form or name, or changes places    *)
(* with a neighbour; an entity or a base64 character is not a known one.    *)
Forms(x) ==
  CASE x.k = "self" -> {Open(x.n), Close(x.n)}
    [] x.k \in {"open", "close"} ->
         {Open(x.n), Close(x.n), Self(x.n)}
           \cup {[x EXCEPT !.n = n] : n \in {"dict", "array", "string", "date"}}
    [] x.k = "ent"    -> {Ent("unknown")}
    [] x = Char("z")  -> {Char("*")}
    [] OTHER          -> {}

Damaged(d) ==
  LET tags == {i \in DOMAIN d : IsTag(d[i])}
  IN (UNION {{[d EXCEPT ![i] = y] : y \in Forms(d[i])} : i \in DOMAIN d}
        \cup {RemoveAt(d, i) : i \in tags}
        \cup {InsertAt(d, i, d[i]) : i \in tags}
        \cup {[d EXCEPT ![i] = d[i + 1], ![i + 1] = d[i]] :
                i \in {j \in tags : j + 1 \in tags}}) \ {d}

-----------------------------------------------------------------------------
(* Jobs.                                                                    *)

T(name) == <<name>>
Job(label, argv) ==
  [label |-> label, plist_path |-> path, working_dir |-> NoText, stdin_path |-> NoText,
   stdout_path |-> NoText, stderr_path |-> NoText, run_at_load |-> FALSE,
   keepalive |-> "never", throttle_ms |-> DefaultThrottle, argv |-> argv,
   env |-> <<>>, sockets |-> <<>>]

(* The tree of a file and what it means.                                    *)
Daemon ==
  [tree |-> D(<< <<"Label", S(T("d"))>>,
                 <<"ProgramArguments", A(<<S(<<"r", "amp", "s">>), S(T("-f"))>>)>>,
                 <<"KeepAlive", D(<< <<"SuccessfulExit", B(FALSE)>> >>)>>,
                 <<"RunAtLoad", B(TRUE)>>,
                 <<"ThrottleInterval", I(12)>>,
                 <<"EnvironmentVariables", D(<< <<"P", S(<<>>)>>, <<"Q", S(T("q"))>> >>)>>,
                 <<"Sockets", D(<< <<"l", D(<< <<"SockPathName", S(T("x"))>> >>)>> >>)>> >>),
   means |-> [Job(T("d"), <<<<"r", "amp", "s">>, T("-f")>>) EXCEPT
                !.keepalive = "on_failure", !.run_at_load = TRUE, !.throttle_ms = 12000,
                !.env = << <<T("P"), <<>>>>, <<T("Q"), T("q")>> >>,
                !.sockets = << <<T("l"), T("x")>> >>]]

Tool ==
  [tree |-> D(<< <<"ProgramArguments", A(<<S(T("zero")), S(T("one"))>>)>>,
                 <<"Program", S(T("bin"))>>,
                 <<"Label", S(<<"amp", "t">>)>>,
                 <<"Label", S(T("other"))>>,
                 <<"KeepAlive", D(<< <<"Crashed", B(TRUE)>> >>)>>,
                 <<"ThrottleInterval", R(-3)>>,
                 <<"WorkingDirectory", S(T("/"))>>,
                 <<"StandardOutPath", S(T("o"))>>,
                 <<"Cookie", X(<<205, 13>>)>> >>),
   means |-> [Job(<<"amp", "t">>, <<T("bin"), T("one")>>) EXCEPT
                !.keepalive = "always", !.throttle_ms = 0, !.working_dir = T("/"),
                !.stdout_path = T("o")]]

(* Plists that describe no job.                                             *)
NoJobs ==
  {[tree |-> v, means |-> Refused] :
     v \in {A(<<>>), S(T("d")), D(<<>>),
            D(<< <<"Label", S(<<>>)>>, <<"Program", S(T("bin"))>> >>),
            D(<< <<"Label", S(T("d"))>>, <<"Program", I(7)>> >>),
            D(<< <<"Label", S(T("d"))>>, <<"Program", S(T("bin"))>>,
                 <<"ProgramArguments", A(<<>>)>> >>),
            D(<< <<"Label", S(T("d"))>>,
                 <<"ProgramArguments", A(<<S(T("bin")), I(7)>>)>> >>),
            D(<< <<"Label", S(T("d"))>>, <<"Program", S(T("bin"))>>,
                 <<"Sockets", D(<< <<"l", D(<<>>)>> >>)>> >>)}}

(* Odd plists that do: wrong types and other keys count as absent.          *)
OddJobs ==
  {[tree |-> D(<< <<"Label", S(T("d"))>>, <<"Program", S(T("bin"))>> >> \o es),
    means |-> Job(T("d"), <<T("bin")>>)] :
     es \in {<<>>,
             << <<"ProgramArguments", S(T("-f"))>>, <<"KeepAlive", I(99999)>>,
                <<"RunAtLoad", S(T("true"))>>, <<"Sockets", A(<<>>)>> >>,
             << <<"EnvironmentVariables", D(<< <<"P", I(7)>> >>)>>,
                <<"Cookie", X(<<255, 255, 255, 205, 13, 64>>)>>,
                <<"Salt", X(<<65>>)>>, <<"Pepper", X(<<>>)>> >>}}

(* Configuration files.                                                     *)
Config ==
  [tree |-> D(<< <<"DaemonDirectory", S(<<"/", "d">>)>>, <<"SingleUser", B(TRUE)>>,
                 <<"ShutdownTimeoutMs", I(-3)>>, <<"LogLevel", R(12)>>,
                 <<"ControlSocket", S(<<"c", "t", "l">>)>>, <<"SingleUserShell", I(7)>> >>),
   means |-> [Defaults EXCEPT !.daemon_dir = <<"/", "d">>,
                !.control_socket = <<"c", "t", "l">>, !.single_user = TRUE,
                !.shutdown_timeout_ms = -3, !.log_level = 12]]

-----------------------------------------------------------------------------
File(kind, j, doc) ==
  [kind |-> kind, tree |-> j.tree, means |-> j.means, doc |-> doc,
   intact |-> TRUE, got |-> {Len(doc)}, oom |-> {}]

MCInputs ==
  LET whole == {File("job", j, Plain(j.tree)) : j \in NoJobs \cup OddJobs \cup {Daemon, Tool}}
                 \cup {File("job", j, Airy(j.tree)) : j \in {Daemon, Tool}}
                 \cup {File("job", j, Bare(j.tree)) : j \in {Daemon, Tool}}
                 \cup {File("config", Config, Plain(Config.tree))}
      large == {f \in whole : f.kind = "config" \/ f.tree \in {Daemon.tree, Tool.tree}}
  IN whole
     \cup {[f EXCEPT !.got = 0..Len(f.doc)] : f \in large}
     \cup {[f EXCEPT !.oom = s] : f \in large,
                s \in UNION {{{n}, n..MaxCalls} : n \in 1..MaxCalls}}
     \cup UNION {{[f EXCEPT !.doc = d, !.got = {Len(d)}, !.intact = FALSE] :
                    d \in Damaged(f.doc)} : f \in large}

(* The byte is zero, or it is not.                                          *)
MCLeftovers == {<<>>, T("?")}

MCDefaults ==
  [daemon_dir |-> T("daemons"), control_socket |-> <<>>, single_user_shell |-> T("sh"),
   single_user |-> FALSE, shutdown_timeout_ms |-> 5000, log_level |-> 1]
=============================================================================
