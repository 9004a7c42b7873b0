---------------------------- MODULE LaunchctlLimit ----------------------------
(***************************************************************************)
(* `launchctl limit` (limit_cmd in src/launchd/src/launchctl.c) against    *)
(* launchd's resource limits (adjust_rlimits in launchd.c, reached from    *)
(* ipc_readmsg2 by GetResourceLimits and SetResourceLimits).  A command    *)
(* that sets a limit reads the whole table with one request, changes its  *)
(* entry in the copy, and sends the whole copy back with a second request. *)
(* launchd compares each entry with its cached table and calls setrlimit  *)
(* for those that differ, then refreshes the cache with getrlimit.        *)
(*                                                                         *)
(* launchd handles one request at a time and the client blocks in         *)
(* launch_msg for the answer, so a request and its answer are one step;  *)
(* several launchctl processes interleave between their two requests.    *)
(* The per-user launchd is modelled: the kern.maxproc/maxfiles sysctls of *)
(* PID 1 are not.                                                          *)
(***************************************************************************)
EXTENDS Naturals

CONSTANTS
  Procs,       \* launchctl processes (model values)
  Res,         \* resources (RLIMIT_CPU, RLIMIT_NOFILE, ...)
  MaxFiles,    \* RLIMIT_NOFILE, the element of Res named "maxfiles"
  Inf,         \* RLIM_INFINITY, the largest value
  Privileged,  \* launchd runs as the superuser
  NULL         \* the static table not yet allocated (a model value)

ASSUME MaxFiles \in Res /\ Inf \in Nat /\ Privileged \in BOOLEAN

\* rlim_t values: 0 .. Inf, Inf printed and parsed as "unlimited".
Vals == 0 .. Inf

\* struct rlimit.
Rlimit == [cur : Vals, max : Vals]

\* What limit_cmd parsed from argv: which resource, the soft and hard
\* limits (one number sets both), or only printing the table.
Cmds == [set : {TRUE}, which : Res, s : Vals, h : Vals]
        \cup [set : {FALSE}]

VARIABLES
  kern,    \* launchd's limits as the kernel holds them
  cache,   \* adjust_rlimits' static table l, NULL before its first call
  pc,      \* per process: where limit_cmd is
  cmd,     \* per process: the parsed arguments
  lmts,    \* per process: its copy of the table from GetResourceLimits
  ret      \* per process: limit_cmd's return value

vars == <<kern, cache, pc, cmd, lmts, ret>>

Init ==
  /\ kern \in [Res -> {l \in Rlimit : l.cur <= l.max}]
  /\ cache = NULL
  /\ pc = [p \in Procs |-> "Start"]
  /\ cmd = [p \in Procs |-> [set |-> FALSE]]
  /\ lmts = [p \in Procs |-> [r \in Res |-> [cur |-> 0, max |-> 0]]]
  /\ ret = [p \in Procs |-> 0]

----------------------------------------------------------------------------
(* launchd: adjust_rlimits(in).                                            *)

\* The table l, filled by getrlimit on the first call.
Table == IF cache = NULL THEN kern ELSE cache

\* setrlimit(i, v) succeeds unless the soft limit exceeds the hard one
\* (EINVAL) or an unprivileged process raises its hard limit (EPERM).
setrlimitOk(r, v) == v.cur <= v.max /\ (Privileged \/ v.max <= kern[r].max)

\* Entries of in that differ from l are passed to setrlimit; each is then
\* read back with getrlimit into l (the kernel may have refused it).
NewKern(in) ==
  [r \in Res |-> IF in[r] # Table[r] /\ setrlimitOk(r, in[r]) THEN in[r]
                 ELSE kern[r]]

adjust_rlimits(in) ==
  /\ kern' = NewKern(in)
  /\ cache' = [r \in Res |-> IF in[r] # Table[r] THEN NewKern(in)[r]
                             ELSE Table[r]]

----------------------------------------------------------------------------
(* launchctl: limit_cmd.                                                   *)

\* Argument parsing: a usage error returns 1 before any request.
Parse(p) ==
  /\ pc[p] = "Start"
  /\ \/ \E c \in Cmds : cmd' = [cmd EXCEPT ![p] = c] /\ pc' = [pc EXCEPT ![p] = "Get"]
                        /\ UNCHANGED ret
     \/ pc' = [pc EXCEPT ![p] = "Exit"] /\ ret' = [ret EXCEPT ![p] = 1]
                        /\ UNCHANGED cmd
  /\ UNCHANGED <<kern, cache, lmts>>

\* GetResourceLimits: adjust_rlimits(NULL) returns l.  Printing ends the
\* command; otherwise the entry is changed in the copy, and "unlimited"
\* for maxfiles is refused after the request.
GetLimits(p) ==
  LET c == cmd[p]
  IN  /\ pc[p] = "Get"
      /\ cache' = Table
      /\ UNCHANGED kern
      /\ IF ~c.set
         THEN pc' = [pc EXCEPT ![p] = "Exit"] /\ UNCHANGED <<lmts, ret>>
         ELSE /\ lmts' = [lmts EXCEPT ![p] = [Table EXCEPT ![c.which] =
                                               [cur |-> c.s, max |-> c.h]]]
              /\ IF c.which = MaxFiles /\ Inf \in {c.s, c.h}
                 THEN pc' = [pc EXCEPT ![p] = "Exit"] /\ ret' = [ret EXCEPT ![p] = 1]
                 ELSE pc' = [pc EXCEPT ![p] = "Set"] /\ UNCHANGED ret
      /\ UNCHANGED cmd

\* SetResourceLimits with the whole copy; the answer is the table, so the
\* command returns 0.
SetLimits(p) ==
  /\ pc[p] = "Set"
  /\ adjust_rlimits(lmts[p])
  /\ pc' = [pc EXCEPT ![p] = "Exit"]
  /\ UNCHANGED <<cmd, lmts, ret>>

\* launch_msg returns NULL (the connection to launchd failed): the
\* command returns 1, before or instead of either request.
LaunchMsgFails(p) ==
  /\ pc[p] \in {"Get", "Set"}
  /\ pc' = [pc EXCEPT ![p] = "Exit"]
  /\ ret' = [ret EXCEPT ![p] = 1]
  /\ UNCHANGED <<kern, cache, cmd, lmts>>

Next ==
  \E p \in Procs :
    Parse(p) \/ GetLimits(p) \/ SetLimits(p) \/ LaunchMsgFails(p)

Spec == Init /\ [][Next]_vars

----------------------------------------------------------------------------
(* Properties.                                                             *)

TypeOK ==
  /\ kern \in [Res -> Rlimit]
  /\ cache \in [Res -> Rlimit] \cup {NULL}
  /\ pc \in [Procs -> {"Start", "Get", "Set", "Exit"}]
  /\ ret \in [Procs -> {0, 1}]

\* limit_cmd's usage line, "limit [cpu | filesize | ...] [both | soft hard]",
\* sets the limits of the one resource named in argv[1]: a
\* SetResourceLimits request sent by limit_cmd changes no other resource's
\* limit than the one its command named.
OnlyNamedLimitChanges ==
  [][\A p \in Procs :
       pc[p] = "Set" /\ pc'[p] = "Exit" =>
         \A r \in Res : kern'[r] # kern[r] => r = cmd[p].which]_vars

================================================================================
