----------------------------- MODULE JobPlist ------------------------------
(***************************************************************************)
(* From a property list to what the supervisor runs: the accessors of      *)
(* plist_lite.c, job_from_plist of launch_job.c with its helpers, and      *)
(* config_load_file of catbsd-init.c.  A job plist that is read wrongly    *)
(* is a daemon started with the wrong arguments.                           *)
(*                                                                         *)
(* Text is a sequence of characters; a key is written as one character.    *)
(* The allocations of job_from_plist follow those of the parser and may    *)
(* fail like them; LaunchJob knows them as the failure "memory".           *)
(***************************************************************************)
EXTENDS PlistLite

CONSTANTS
  DefaultThrottle,   \* reg->default_throttle_ms
  Defaults,          \* config_defaults: daemon_dir, ...
  FieldMax,          \* what strncpy fills of a field of init_config_t (511, 255)
  Leftovers,         \* what the bytes after that, never written, may read as
  CIntMax            \* INT_MAX

ASSUME JobPlistAssumption ==
  DefaultThrottle \in Nat /\ {FieldMax, CIntMax} \subseteq Nat \ {0} /\ <<>> \in Leftovers

NoText == <<"NULL">>

-----------------------------------------------------------------------------
(* Accessors.  A value of the wrong type gives the fallback.                *)

(* plist_dict_count, plist_dict_key_at, plist_dict_value_at                 *)
Entries(d) == IF d.type = "dict" THEN d.dict ELSE <<>>

(* plist_array_count, plist_array_get                                       *)
Elements(a) == IF a.type = "array" THEN a.array ELSE <<>>

(* The first entry with the key counts.                                     *)
plist_dict_get(d, key) ==
  LET i == SelectInSeq(Entries(d), LAMBDA e : e[1] = <<key>>)
  IN IF i = 0 THEN Null ELSE Entries(d)[i][2]

plist_string_value(v, fallback) ==
  IF v.type # "string" THEN fallback
  ELSE IF "null" \in DOMAIN v THEN NoText ELSE v.string

plist_integer_value(v, fallback) ==
  CASE v.type = "integer" -> v.integer
    [] v.type = "real"    -> v.real
    [] OTHER              -> fallback

plist_bool_value(v, fallback) ==
  IF v.type = "bool" THEN v.boolean ELSE fallback

plist_dict_get_string(d, key, fallback) ==
  plist_string_value(plist_dict_get(d, key), fallback)

-----------------------------------------------------------------------------
(* launch_job.c                                                             *)

parse_keepalive(ka) ==
  LET se == plist_dict_get(ka, "SuccessfulExit")
  IN CASE ka.type = "bool" /\ ka.boolean        -> "always"
       [] ka.type = "dict" /\ se = Null         -> "always"
       [] ka.type = "dict" /\ se # Null         ->
            IF plist_bool_value(se, FALSE) THEN "on_success" ELSE "on_failure"
       [] OTHER                                 -> "never"

(* Mutant: Program comes before all of ProgramArguments.                    *)
MutantSetArgv(root) ==
  LET args == plist_dict_get(root, "ProgramArguments")
      program == plist_dict_get_string(root, "Program", NoText)
      texts == [i \in DOMAIN Elements(args) |->
                  plist_string_value(Elements(args)[i], NoText)]
  IN CASE args.type = "array" ->
            IF texts = <<>> \/ NoText \in ToSet(texts) THEN <<>>
            ELSE IF program = NoText THEN texts ELSE <<program>> \o texts
       [] args.type # "array" /\ program # NoText -> <<program>>
       [] OTHER -> <<>>

(* Program is the executable; ProgramArguments gives the rest, and the      *)
(* executable too if there is no Program.  <<>> if the plist is refused.    *)
job_set_argv(root) ==
  LET args == plist_dict_get(root, "ProgramArguments")
      program == plist_dict_get_string(root, "Program", NoText)
      texts == [i \in DOMAIN Elements(args) |->
                  plist_string_value(Elements(args)[i], NoText)]
  IN CASE args.type = "array" ->
            IF texts = <<>> \/ NoText \in ToSet(texts) THEN <<>>
            ELSE IF program = NoText THEN texts ELSE <<program>> \o Tail(texts)
       [] args.type # "array" /\ program # NoText -> <<program>>
       [] OTHER -> <<>>

(* Entries that are not strings are passed over.                            *)
job_set_env(root) ==
  LET env == Entries(plist_dict_get(root, "EnvironmentVariables"))
      pairs == [i \in DOMAIN env |-> <<env[i][1], plist_string_value(env[i][2], NoText)>>]
  IN SelectSeq(pairs, LAMBDA e : e[2] # NoText)

(* A socket without a path is refused.                                      *)
job_set_sockets(root) ==
  LET socks == Entries(plist_dict_get(root, "Sockets"))
      list == [i \in DOMAIN socks |->
                 <<socks[i][1], plist_dict_get_string(socks[i][2], "SockPathName", NoText)>>]
  IN [list |-> list, ok |-> \A i \in DOMAIN list : list[i][2] # NoText]

(* n in a signed integer whose largest value is max.                        *)
Signed(n, max) == ((n + max + 1) % (2 * (max + 1))) - max - 1

(* The product wraps.                                                       *)
Times1000(n) == Signed(n * 1000, IntMax)

ThrottleOf(root) ==
  LET v == plist_dict_get(root, "ThrottleInterval")
      ms == IF v = Null THEN DefaultThrottle ELSE Times1000(plist_integer_value(v, 0))
  IN IF ms < 0 THEN 0 ELSE ms

Refused == [label |-> NoText]

(* The texts that are copied with dup_or_null, by field; path is that of    *)
(* the plist.                                                               *)
path == <<"path">>
Duplicated(root) ==
  LET file(key) == plist_dict_get_string(root, key, NoText)
  IN << <<"plist_path", path>>,
        <<"working_dir", file("WorkingDirectory")>>,
        <<"stdin_path", file("StandardInPath")>>,
        <<"stdout_path", file("StandardOutPath")>>,
        <<"stderr_path", file("StandardErrorPath")>> >>

(* The blocks a job takes, in the order in which they are asked for: the    *)
(* job, its label, the files that are named; argv, Program ("argv[0]") and  *)
(* the other arguments; the environment; name and path of every socket.     *)
Requests(root) ==
  LET files == SelectSeq(Duplicated(root), LAMBDA f : f[2] # NoText)
      program == plist_dict_get_string(root, "Program", NoText) # NoText
      argc == Len(job_set_argv(root))
      env == plist_dict_get(root, "EnvironmentVariables")
      sockets == Len(job_set_sockets(root).list)
      blocks(n) == [i \in 1..n |-> "block"]
  IN <<"job", "label">> \o [i \in DOMAIN files |-> files[i][1]] \o <<"argv">>
     \o (IF program THEN <<"argv[0]">> \o blocks(argc - 1) ELSE blocks(argc))
     \o blocks(IF env.type = "dict" THEN 1 + Len(job_set_env(root)) ELSE 0)
     \o blocks(IF sockets > 0 THEN 1 + 2 * sockets ELSE 0)

(* What is not checked after strdup: the field stays NULL.                  *)
Unchecked == {"plist_path", "working_dir", "stdin_path", "stdout_path", "stderr_path",
              "argv[0]"}

(* The job with NULL where a block of Unchecked is missing.                 *)
Without(job, missing) ==
  [f \in DOMAIN job |->
     CASE f \in missing                      -> NoText
       [] f = "argv" /\ "argv[0]" \in missing -> [job.argv EXCEPT ![1] = NoText]
       [] OTHER                              -> job[f]]

(* The job, or Refused.                                                     *)
job_from_plist(root) ==
  LET label == plist_dict_get_string(root, "Label", NoText)
      asked == Requests(root)
      missing == {asked[i] : i \in {k \in DOMAIN asked : ~Granted(k)}}
      file == [i \in 1..5 |-> Duplicated(root)[i][2]]
      job == [label |-> label,
              plist_path |-> file[1], working_dir |-> file[2], stdin_path |-> file[3],
              stdout_path |-> file[4], stderr_path |-> file[5],
              run_at_load |-> plist_bool_value(plist_dict_get(root, "RunAtLoad"), FALSE),
              keepalive |-> parse_keepalive(plist_dict_get(root, "KeepAlive")),
              throttle_ms |-> ThrottleOf(root),
              argv |-> job_set_argv(root),
              env |-> job_set_env(root),
              sockets |-> job_set_sockets(root).list]
  IN IF \/ root.type # "dict" \/ label \in {NoText, <<>>}
        \/ job.argv = <<>> \/ ~job_set_sockets(root).ok
        \/ ~(missing \subseteq Unchecked)
       THEN Refused ELSE Without(job, missing)

-----------------------------------------------------------------------------
(* catbsd-init.c                                                            *)

(* Keys that are missing, and a file that cannot be read, leave the         *)
(* defaults.  strncpy stops before the last byte of a field, and nobody     *)
(* ever writes that byte: a text of FieldMax characters or more is cut and  *)
(* goes on with the rest of what is on the stack.  Numbers are cut to int.  *)
config_load_file(root, rest) ==
  LET text(key, default) ==
        LET s == plist_dict_get_string(root, key, NoText)
        IN CASE s = NoText        -> default
             [] Len(s) < FieldMax -> s
             [] OTHER             -> SubSeq(s, 1, FieldMax) \o rest
      number(key, default) ==
        Signed(plist_integer_value(plist_dict_get(root, key), default), CIntMax)
  IN [daemon_dir |-> text("DaemonDirectory", Defaults.daemon_dir),
      control_socket |-> text("ControlSocket", Defaults.control_socket),
      single_user_shell |-> text("SingleUserShell", Defaults.single_user_shell),
      single_user |-> \/ Defaults.single_user
                      \/ plist_bool_value(plist_dict_get(root, "SingleUser"), FALSE),
      shutdown_timeout_ms |-> number("ShutdownTimeoutMs", Defaults.shutdown_timeout_ms),
      log_level |-> number("LogLevel", Defaults.log_level)]

-----------------------------------------------------------------------------
(* Properties.  input.tree is what the author of the file wrote,            *)
(* input.means the job or configuration it describes; the file may have     *)
(* been damaged since (intact is FALSE).                                    *)

(* Nothing went wrong while the file was read.                              *)
Undisturbed == input.intact /\ input.oom = {} /\ buf = input.doc

(* The parser got to the end of the document.  Without <plist> it stops at  *)
(* the end of the first value, whatever follows.                            *)
ReadToTheEnd == wrapped \/ skip_noise(p) = End

(* plist_lite.c, header: "Failing loudly matters more than tolerance here   *)
(* -- a job plist that silently half-parses turns into a daemon started     *)
(* with the wrong arguments."  A file that lost its end, a tag or a         *)
(* tag's form, or that is read while memory runs out, is refused or gives   *)
(* exactly what was written.  Left out: characters lost to sb_putc or       *)
(* strdup, whose failure nobody looks at.                                   *)
NeverHalfRead ==
  pc = "done" /\ ret.v # Null /\ ~lost /\ ReadToTheEnd => ret.v = input.tree

Understood(rest) == IF input.kind = "job" THEN job_from_plist(ret.v)
                                            ELSE config_load_file(ret.v, rest)

Rejected == IF input.kind = "job" THEN Refused ELSE Defaults

(* As written: a job up to the copies of its paths and of Program whose     *)
(* strdup failed, a text of the configuration that fills its field in its   *)
(* first FieldMax characters.                                               *)
Faithful(got) ==
  IF input.kind = "job"
    THEN \E missing \in SUBSET Unchecked :
           /\ Cardinality(missing) <= Cardinality(input.oom)
           /\ got = IF input.means = Refused THEN Refused ELSE Without(input.means, missing)
    ELSE \A f \in DOMAIN Defaults :
           \/ got[f] = input.means[f]
           \/ /\ f \in {"daemon_dir", "control_socket", "single_user_shell"}
              /\ Len(input.means[f]) >= FieldMax
              /\ SubSeq(got[f], 1, FieldMax) = SubSeq(input.means[f], 1, FieldMax)

(* What load_plist and config_load_file make of the file is what it says:   *)
(* every argument in its place, all or nothing if the file is damaged.  If  *)
(* memory runs out a job may lose a path or its Program, whose copies       *)
(* nobody checks, but no argument, variable or socket.                      *)
LoadedAsWritten ==
  pc = "done" =>
    \A rest \in Leftovers :
      /\ Undisturbed => Faithful(Understood(rest))
      /\ ~lost /\ ReadToTheEnd => Understood(rest) = Rejected \/ Faithful(Understood(rest))

(* The blocks of the dicts and arrays being read, and of the keys whose     *)
(* values are being read.                                                   *)
OwnedBy(s) ==
  LET sum[i \in 0..Len(s)] ==
        IF i = 0 THEN 0 ELSE sum[i - 1] + s[i].own + Len(s[i].key)
  IN sum[Len(s)]

(* Every block is owned by exactly one value, key or buffer at every step,  *)
(* so that each way out of the recursion frees what it must and no more:    *)
(* after a failure nothing is left, after success just the tree.            *)
Accounted ==
  heap.live = (IF pc \in {"open", "done"} THEN 0 ELSE 1) + ret.own + OwnedBy(stack)

(* The cursor stays inside the text, and nothing is written past the end of *)
(* what was allocated for it: the text of an element with its final zero,   *)
(* the bytes base64_decode makes of it, however it is padded, and the       *)
(* entries of a dict or array.                                              *)
InBounds ==
  /\ p \in 1..End
  /\ \A i \in DOMAIN stack : Len(stack[i].body) <= stack[i].cap
  /\ pc = "after" =>
       LET t == read_text(p, 1)
       IN /\ Len(t.text) < t.cap
          /\ Len(base64_decode(t.text).bytes) <= DecodeRoom(t.text)

HeapSound == Accounted /\ InBounds

(* The parser returns for every document, finished or not: no loop of it    *)
(* stands still.                                                            *)
ParserReturns == <>(pc = "done")
=============================================================================
