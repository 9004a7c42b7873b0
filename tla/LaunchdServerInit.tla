-------------------------- MODULE LaunchdServerInit --------------------------
(***************************************************************************)
(* The per-user launchd's control socket (src/launchd/src/launchd.c):     *)
(* launchd_server_init, its retry from fs_callback, the idle exit of main *)
(* and launchd_clean_up registered with atexit.                            *)
(*                                                                         *)
(* Several launchd processes of one uid start independently; without a    *)
(* session argument they all use the directory <prefix>/<uid> and the     *)
(* socket <prefix>/<uid>/sock, and flock(LOCK_EX|LOCK_NB) on the          *)
(* directory decides which one serves.  Every system call is a step, as   *)
(* the processes interleave between any two.  A directory is an inode:    *)
(* mkdir creates generation nextDir + 1, rmdir removes the one at the      *)
(* path, and a descriptor and its lock stay on the inode they were opened *)
(* on.                                                                     *)
(***************************************************************************)
EXTENDS Naturals, FiniteSets

CONSTANTS
  Insts,    \* launchd processes of the same uid (model values)
  NoInst,   \* no process (a model value)
  MaxDirs   \* directory inodes mkdir may create

ASSUME MaxDirs \in Nat \ {0} /\ NoInst \notin Insts

Dirs == 1 .. MaxDirs
NoDir == 0

Pcs == {"NotStarted", "Prefix", "Mkdir", "Open", "Flock", "UnlinkSock", "Bind",
        "Running", "CleanUnlink", "CleanRmdir", "Dead"}

VARIABLES
  pc,       \* per process: its next step
  ourdirfd, \* per process: the directory inode its descriptor is open on
  inited,   \* per process: launchd_inited
  dir,      \* the inode at <prefix>/<uid>, or NoDir
  nextDir,  \* inodes created so far
  sockAt,   \* per inode: whose socket is bound as "sock" in it
  lock,     \* per inode: the process whose descriptor holds the flock
  rofs      \* the root file system is still read-only (EROFS)

vars == <<pc, ourdirfd, inited, dir, nextDir, sockAt, lock, rofs>>

\* No launchd has run yet; the root may still be mounted read-only.
Init ==
  /\ pc = [i \in Insts |-> "NotStarted"]
  /\ ourdirfd = [i \in Insts |-> NoDir]
  /\ inited = [i \in Insts |-> FALSE]
  /\ dir = NoDir
  /\ nextDir = 0
  /\ sockAt = [d \in Dirs |-> NoInst]
  /\ lock = [d \in Dirs |-> NoInst]
  /\ rofs \in BOOLEAN

----------------------------------------------------------------------------
(* Helpers.                                                                *)

Goto(i, l) == pc' = [pc EXCEPT ![i] = l]

\* Closing a process's directory descriptor drops the flock it holds.
Unlocked(i) == [d \in Dirs |-> IF lock[d] = i THEN NoInst ELSE lock[d]]

\* The process ends (exit or a signal): its descriptors are closed.
Die(i) ==
  /\ Goto(i, "Dead")
  /\ lock' = Unlocked(i)
  /\ ourdirfd' = [ourdirfd EXCEPT ![i] = NoDir]

\* out_bad with launchd_inited false: close the socket and ourdirfd, and
\* go on to main's kevent loop without a control socket.
OutBad(i) ==
  /\ Goto(i, "Running")
  /\ lock' = Unlocked(i)
  /\ ourdirfd' = [ourdirfd EXCEPT ![i] = NoDir]

----------------------------------------------------------------------------
(* launchd_server_init(false), one step per system call.                  *)

\* main: a launchd that is not PID 1 calls launchd_server_init.
Launch(i) ==
  /\ pc[i] = "NotStarted"
  /\ Goto(i, "Prefix")
  /\ UNCHANGED <<ourdirfd, inited, dir, nextDir, sockAt, lock, rofs>>

\* mkdir(LAUNCHD_SOCK_PREFIX): EROFS goes to out_bad; EEXIST on a
\* directory is fine.
MkdirPrefix(i) ==
  /\ pc[i] = "Prefix"
  /\ IF rofs THEN OutBad(i) ELSE Goto(i, "Mkdir") /\ UNCHANGED <<lock, ourdirfd>>
  /\ UNCHANGED <<inited, dir, nextDir, sockAt, rofs>>

\* unlink(ourdir) fails on a directory; mkdir(ourdir) creates a new inode
\* unless one exists (EEXIST on a directory is fine).
MkdirDir(i) ==
  /\ pc[i] = "Mkdir"
  /\ IF dir = NoDir
     THEN /\ nextDir < MaxDirs
          /\ nextDir' = nextDir + 1
          /\ dir' = nextDir + 1
     ELSE UNCHANGED <<dir, nextDir>>
  /\ Goto(i, "Open")
  /\ UNCHANGED <<ourdirfd, inited, sockAt, lock, rofs>>

\* open(ourdir, O_RDONLY): fails (out_bad) if the directory was removed.
OpenDir(i) ==
  /\ pc[i] = "Open"
  /\ IF dir = NoDir
     THEN OutBad(i)
     ELSE /\ ourdirfd' = [ourdirfd EXCEPT ![i] = dir]
          /\ Goto(i, "Flock")
          /\ UNCHANGED lock
  /\ UNCHANGED <<inited, dir, nextDir, sockAt, rofs>>

\* Defect: the flock result is not checked.
Flock_noCheck(i) ==
  /\ pc[i] = "Flock"
  /\ lock' = [lock EXCEPT ![ourdirfd[i]] = i]
  /\ Goto(i, "UnlinkSock")
  /\ UNCHANGED <<ourdirfd, inited, dir, nextDir, sockAt, rofs>>

\* flock(ourdirfd, LOCK_EX|LOCK_NB): EWOULDBLOCK means another launchd
\* serves, and this one exits.
Flock(i) ==
  /\ pc[i] = "Flock"
  /\ IF lock[ourdirfd[i]] # NoInst
     THEN Die(i)
     ELSE /\ lock' = [lock EXCEPT ![ourdirfd[i]] = i]
          /\ Goto(i, "UnlinkSock")
          /\ UNCHANGED ourdirfd
  /\ UNCHANGED <<inited, dir, nextDir, sockAt, rofs>>

\* unlink(sun.sun_path): removes a stale socket, or whatever socket is at
\* the path; ENOENT is fine.
UnlinkSock(i) ==
  /\ pc[i] = "UnlinkSock"
  /\ sockAt' = IF dir = NoDir THEN sockAt ELSE [sockAt EXCEPT ![dir] = NoInst]
  /\ Goto(i, "Bind")
  /\ UNCHANGED <<ourdirfd, inited, dir, nextDir, lock, rofs>>

\* socket, bind under umask 077, listen, kevent_mod(listen_callback):
\* bind fails if the directory is gone or the name is taken (out_bad);
\* else launchd_inited, and atexit(launchd_clean_up).
Bind(i) ==
  /\ pc[i] = "Bind"
  /\ IF dir = NoDir \/ sockAt[dir] # NoInst
     THEN OutBad(i) /\ UNCHANGED <<sockAt, inited>>
     ELSE /\ sockAt' = [sockAt EXCEPT ![dir] = i]
          /\ inited' = [inited EXCEPT ![i] = TRUE]
          /\ Goto(i, "Running")
          /\ UNCHANGED <<lock, ourdirfd>>
  /\ UNCHANGED <<dir, nextDir, rofs>>

----------------------------------------------------------------------------
(* After launchd_server_init.                                              *)

\* fs_callback on an EVFILT_FS event: a launchd without its socket runs
\* launchd_server_init(false) again.
fs_callback(i) ==
  /\ pc[i] = "Running"
  /\ ~inited[i]
  /\ Goto(i, "Prefix")
  /\ UNCHANGED <<ourdirfd, inited, dir, nextDir, sockAt, lock, rofs>>

\* The root file system is remounted read-write.
Mount ==
  /\ rofs
  /\ rofs' = FALSE
  /\ UNCHANGED <<pc, ourdirfd, inited, dir, nextDir, sockAt, lock>>

\* main: no jobs and no event for 30 s, exit(EXIT_SUCCESS); the atexit
\* handler launchd_clean_up runs only in a launchd that set its socket up.
IdleExit(i) ==
  /\ pc[i] = "Running"
  /\ IF inited[i]
     THEN Goto(i, "CleanUnlink") /\ UNCHANGED <<lock, ourdirfd>>
     ELSE Die(i)
  /\ UNCHANGED <<inited, dir, nextDir, sockAt, rofs>>

\* launchd_clean_up: unlink(sockpath), by name, and only if it succeeded
\* rmdir(sockdir), by name.
CleanUnlink(i) ==
  /\ pc[i] = "CleanUnlink"
  /\ IF dir # NoDir /\ sockAt[dir] # NoInst
     THEN /\ sockAt' = [sockAt EXCEPT ![dir] = NoInst]
          /\ Goto(i, "CleanRmdir")
          /\ UNCHANGED <<lock, ourdirfd>>
     ELSE Die(i) /\ UNCHANGED sockAt
  /\ UNCHANGED <<inited, dir, nextDir, rofs>>

\* rmdir succeeds on an empty directory; then the process is gone.
CleanRmdir(i) ==
  /\ pc[i] = "CleanRmdir"
  /\ dir' = IF dir # NoDir /\ sockAt[dir] = NoInst THEN NoDir ELSE dir
  /\ Die(i)
  /\ UNCHANGED <<inited, nextDir, sockAt, rofs>>

\* A signal or abort() ends the process anywhere; no atexit handler runs.
Crash(i) ==
  /\ pc[i] \notin {"NotStarted", "Dead"}
  /\ Die(i)
  /\ UNCHANGED <<inited, dir, nextDir, sockAt, rofs>>

Next ==
  \/ Mount
  \/ \E i \in Insts :
       \/ Launch(i) \/ MkdirPrefix(i) \/ MkdirDir(i) \/ OpenDir(i) \/ Flock(i)
       \/ UnlinkSock(i) \/ Bind(i) \/ fs_callback(i) \/ IdleExit(i)
       \/ CleanUnlink(i) \/ CleanRmdir(i) \/ Crash(i)

Spec == Init /\ [][Next]_vars

----------------------------------------------------------------------------
(* Properties.                                                             *)

\* A launchd that set up its socket and has not begun to exit.
Serving(i) == pc[i] = "Running" /\ inited[i]

\* Spec 6.1: "An exclusive lock on the session directory ensures a single
\* live supervisor per (uid, session)": at most one launchd of the uid has
\* its control socket set up and is running.
SingleSupervisor == Cardinality({i \in Insts : Serving(i)}) <= 1

\* What flock(LOCK_EX|LOCK_NB) on the directory does guarantee, whatever
\* the number of launchds: of those serving, at most one holds the lock of
\* the directory now at <prefix>/<uid>; any other holds the lock of a
\* directory launchd_clean_up has removed since it was opened.
ServesOnCurrentDirAlone ==
  Cardinality({i \in Insts : Serving(i) /\ ourdirfd[i] = dir}) <= 1

================================================================================
