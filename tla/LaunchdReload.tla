----------------------------- MODULE LaunchdReload -----------------------------
(***************************************************************************)
(* Reloading launchd.conf (src/launchd/src/launchd.c): signal_callback on  *)
(* SIGHUP calls reload_launchd_config, which forks a launchctl reading the *)
(* file on its stdin and talking to launchd over a socketpair (ipc_open),  *)
(* records it in readcfg_pid and watches its exit; readcfg_callback reaps *)
(* it with a blocking waitpid(readcfg_pid).  The launchctl child runs one  *)
(* request per line of the file (main's readline loop and demux_cmd in    *)
(* launchctl.c) and waits for each answer.                                *)
(*                                                                         *)
(* launchd is the single-threaded reactor: a callback runs to completion,  *)
(* and a blocking waitpid stops every other event until it returns.  The  *)
(* per-user launchd is modelled (getpid() != 1); its jobs call setsid(),  *)
(* so waitpid(0) can only return one of these launchctl children.        *)
(***************************************************************************)
EXTENDS Naturals

CONSTANTS
  Kids,   \* launchctl children a reload can fork (model values)
  NoKid,  \* readcfg_pid == 0 (a model value)
  Lines   \* command lines in launchd.conf

ASSUME Lines \in Nat /\ NoKid \notin Kids

VARIABLES
  readcfg_pid, \* the child the last reload forked, or NoKid
  kid,         \* per child: not forked, running, waiting for an answer, exited, reaped
  left,        \* per child: lines it has still to run
  procq,       \* children whose EVFILT_PROC NOTE_EXIT is pending on mainkq
  waitOn       \* launchd is blocked in waitpid for this pid (NoKid: pid 0), or "None"

vars == <<readcfg_pid, kid, left, procq, waitOn>>

Init ==
  /\ readcfg_pid = NoKid
  /\ kid = [k \in Kids |-> "Unborn"]
  /\ left = [k \in Kids |-> 0]
  /\ procq = {}
  /\ waitOn = "None"

\* main's loop takes the next event only when no callback is blocked.
Reactor == waitOn = "None"

----------------------------------------------------------------------------
(* waitpid(pid, &status, 0) as launchd calls it.                           *)

\* Children waitpid(pid) may return: pid 0 means any child of launchd's
\* process group.
Waitable(t) == IF t = NoKid THEN {k \in Kids : kid[k] \in {"Run", "Wait", "Zombie"}}
               ELSE {t}

\* readcfg_callback after waitpid returns pid z: readcfg_pid = 0.
Reaped(z) ==
  /\ kid' = [kid EXCEPT ![z] = "Reaped"]
  /\ readcfg_pid' = NoKid
  /\ waitOn' = "None"

\* waitpid(t): return an exited child, fail with ECHILD (log and return
\* without touching readcfg_pid), or block until one exits.
waitpid(t) ==
  LET zs == {z \in Waitable(t) : kid[z] = "Zombie"}
  IN  IF zs # {} THEN \E z \in zs : Reaped(z)
      ELSE IF Waitable(t) = {} THEN UNCHANGED <<kid, readcfg_pid, waitOn>>
      ELSE waitOn' = t /\ UNCHANGED <<kid, readcfg_pid>>

----------------------------------------------------------------------------
(* launchd.                                                                *)

\* signal_callback(SIGHUP), and main once at startup:
\* reload_launchd_config finds the file (lstat),
\* and forks the launchctl; on fork failure readcfg_pid = 0.  A child
\* whose open(ldconf) or execl fails exits at once, with no line run.
SigHup ==
  /\ Reactor
  /\ \E k \in Kids, n \in {0, Lines} :
       /\ kid[k] = "Unborn"
       /\ \/ /\ kid' = [kid EXCEPT ![k] = "Run"]
             /\ left' = [left EXCEPT ![k] = n]
             /\ readcfg_pid' = k
          \/ /\ readcfg_pid' = NoKid
             /\ UNCHANGED <<kid, left>>
  /\ UNCHANGED <<procq, waitOn>>

\* ipc_readmsg sends the answer (launchd_msg_send): the child's launch_msg
\* returns and it goes on with its next line.
Answer(k) ==
  /\ kid' = [kid EXCEPT ![k] = "Run"]
  /\ left' = [left EXCEPT ![k] = @ - 1]

\* ipc_callback reads the child's request on its connection and
\* ipc_readmsg2 handles it, whatever the command (its effect on jobs is
\* not modelled here), and it is answered.
IpcRequest(k) ==
  /\ Reactor
  /\ kid[k] = "Wait"
  /\ Answer(k)
  /\ UNCHANGED <<readcfg_pid, procq, waitOn>>

\* readcfg_callback on the EVFILT_PROC of child k: waitpid(readcfg_pid).
readcfg_callback(k) ==
  /\ Reactor
  /\ k \in procq
  /\ procq' = procq \ {k}
  /\ waitpid(readcfg_pid)
  /\ UNCHANGED left

\* The blocked waitpid returns once a child it waits for has exited.
WaitpidReturns ==
  /\ waitOn # "None"
  /\ \E z \in Waitable(waitOn) : kid[z] = "Zombie" /\ Reaped(z)
  /\ UNCHANGED <<left, procq>>

----------------------------------------------------------------------------
(* The launchctl child.                                                    *)

\* readline returns a line and demux_cmd runs a command that sends its
\* request with launch_msg and blocks for the answer.
KidRequest(k) ==
  /\ kid[k] = "Run"
  /\ left[k] > 0
  /\ kid' = [kid EXCEPT ![k] = "Wait"]
  /\ UNCHANGED <<readcfg_pid, left, procq, waitOn>>

\* A line whose command sends nothing: an unknown subcommand, or a usage
\* error, returns from demux_cmd at once.
KidLocalLine(k) ==
  /\ kid[k] = "Run"
  /\ left[k] > 0
  /\ left' = [left EXCEPT ![k] = @ - 1]
  /\ UNCHANGED <<readcfg_pid, kid, procq, waitOn>>

\* readline returns NULL at the end of the file: exit(EXIT_SUCCESS).
KidExit(k) ==
  /\ kid[k] = "Run"
  /\ left[k] = 0
  /\ kid' = [kid EXCEPT ![k] = "Zombie"]
  /\ procq' = procq \cup {k}
  /\ UNCHANGED <<readcfg_pid, left, waitOn>>

Next ==
  \/ SigHup
  \/ WaitpidReturns
  \/ \E k \in Kids :
       \/ IpcRequest(k) \/ readcfg_callback(k)
       \/ KidRequest(k) \/ KidLocalLine(k) \/ KidExit(k)

\* kevent returns a pending event while launchd is not blocked, and a
\* running launchctl goes on; SIGHUP is not assumed.
Fairness ==
  /\ WF_vars(WaitpidReturns)
  /\ \A k \in Kids :
       /\ WF_vars(IpcRequest(k))
       /\ WF_vars(readcfg_callback(k))
       /\ WF_vars(KidRequest(k) \/ KidLocalLine(k) \/ KidExit(k))

Spec == Init /\ [][Next]_vars /\ Fairness

----------------------------------------------------------------------------
(* Properties.                                                             *)

\* launchd is a kqueue reactor that must keep serving events: a waitpid
\* that readcfg_callback blocks in always returns.
WaitpidReturnsEventually == waitOn # "None" ~> waitOn = "None"

================================================================================
