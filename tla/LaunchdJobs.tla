----------------------------- MODULE LaunchdJobs -----------------------------
(***************************************************************************)
(* The job registry and job lifecycle of launchd (src/launchd/src/         *)
(* launchd.c): load_job, job_start, job_reap, job_restart_fitness_test,    *)
(* job_callback, job_watch, job_ignore, job_remove, job_stop, do_shutdown, *)
(* simple_zombie_reaper and the CheckIn / EOF handling of the connection   *)
(* bound to a ServiceIPC job.                                              *)
(*                                                                         *)
(* launchd is single-threaded: main() blocks in kevent() and runs one      *)
(* callback per returned event with giant_lock held.  Every handler is     *)
(* therefore one atomic action.  Its C helpers are written as operators    *)
(* from a world record W to a new world record, so that a handler that     *)
(* calls job_reap, then job_restart_fitness_test, then job_start is their  *)
(* composition, in the order of the code.                                  *)
(*                                                                         *)
(* The kernel side (the forked children, the exec pipe, readiness of       *)
(* listening sockets, watched paths and queue directories) is modelled by  *)
(* environment actions.  Timer and vnode filters live on asynckq and are   *)
(* only delivered while asynckq is enabled on mainkq (kevent_mod).         *)
(***************************************************************************)
EXTENDS Integers, FiniteSets

CONSTANTS
  Labels,                  \* job labels (model values)
  Descs,                   \* job descriptions a SubmitJob request may carry
  MaxLoads,                \* number of jobcb allocations (load_job calls) explored
  FAILED_EXITS_THRESHOLD,  \* LAUNCHD_FAILED_EXITS_THRESHOLD (10 in the code)
  ForkMayFail,             \* whether fork_with_bootstrap_port() may return -1
  MaxProcRegFails,         \* kevent_mod(c, EVFILT_PROC) failures (ENOMEM) explored
  Clients                  \* control connections accepted by listen_callback

\* The keys of a job description that arm a trigger (launch.h key names).
Triggers == {"Sockets", "WatchPaths", "QueueDirectories",
             "StartInterval", "StartCalendarInterval"}

\* The kevent filters registered with udata = the job: its triggers, the
\* child's EVFILT_PROC, the exec pipe's EVFILT_READ and the one-shot
\* throttle timer whose ident is the jobcb pointer.
Filters == Triggers \cup {"proc", "execfd", "throttle"}

\* Abstract job description: what load_job and the lifecycle read of ldj.
\* sipc is ServiceIPC, or the presence of InetdCompatibility (job_start).
DescType == [label : Labels, ondemand : BOOLEAN, sipc : BOOLEAN,
             runatload : BOOLEAN, triggers : SUBSET Triggers]

ASSUME /\ Descs \subseteq DescType
       /\ MaxLoads \in Nat \ {0}
       /\ FAILED_EXITS_THRESHOLD \in Nat \ {0}
       /\ ForkMayFail \in BOOLEAN
       /\ MaxProcRegFails \in Nat
       /\ IsFiniteSet(Clients)

\* struct jobcb allocations, in load order.
Slots == 1..MaxLoads

\* How a child ended, as job_reap classifies the wait status.
ExitStatus == {"Success", "Fail", "SigTerm", "SigAbnormal"}

\* time(NULL) - j->start_time at reap: below LAUNCHD_MIN_JOB_RUN_TIME,
\* in between, or at least LAUNCHD_REWARD_JOB_RUN_TIME.
RunTimes == {"Short", "Medium", "Long"}

\* The kernel's view of the last process forked for a jobcb: not there (or
\* reaped), blocked on the exec pipe before exec, exec'd, exited (zombie),
\* or reaped by another waitpid() while its EVFILT_PROC event is pending.
ProcStates == {"None", "Released", "Running", "Dead", "Reaped"}

\* What launchd's end of the exec socketpair has to read: nothing yet, the
\* errno the child wrote after a failed execv, or end of file.
PipeStates == {"Empty", "Errno", "Eof"}

\* A connection opened by ipc_open(spair[0], j): its peer alive and quiet,
\* a CheckIn message queued (peer alive or dead), or only EOF queued.
ConnStates == {"Idle", "CheckIn", "CheckInEof", "Eof"}

\* Why a jobcb left the jobs list (a history variable, not program state).
Reasons == {"None", "Request", "ExecFailure", "CheckIn", "Failures"}

VARIABLES
  jobs,                  \* the slots on the jobs TAILQ
  nextSlot,              \* next jobcb allocation
  jcb,                   \* per slot: ldj and the fields of struct jobcb
  proc,                  \* per slot: the kernel state of its child
  status,                \* per slot: the wait status of a Dead child
  execpipe,              \* per slot: pending data on the exec pipe
  kq,                    \* registrations <<slot, filter>> with udata = the job
  pend,                  \* EV_CLEAR vnode events pending on those registrations
  zombies,               \* slots whose child is watched by simple_zombie_reaper
  termed,                \* slots whose current child was sent SIGTERM
  conns,                 \* per slot: connections whose c->j is that jobcb
  total_children,
  shutdown_in_progress,
  async_enabled,         \* asynckq's EVFILT_READ enabled on mainkq
  sockq,                 \* per slot: a client is waiting on a listening socket
  qfull,                 \* per slot: its queue directory has entries
  exited,                \* main() has called exit()
  ctl,                   \* open control connections (conncb with c->j NULL)
  disabled_batch,        \* those whose c->disabled_batch is set
  batch_disabler_count,
  waitany,               \* the slot whose job_reap blocks in waitpid(0, ...), or 0
  strays,                \* slots whose child no waitpid() will ever collect
  procRegFails,          \* EVFILT_PROC registrations that failed and returned
  why                    \* history: why the slot was removed

vars == <<jobs, nextSlot, jcb, proc, status, execpipe, kq, pend, zombies,
          termed, conns, total_children, shutdown_in_progress, async_enabled,
          sockq, qfull, exited, ctl, disabled_batch, batch_disabler_count,
          waitany, strays, procRegFails, why>>

\* The state only control connections change.
batchVars == <<ctl, disabled_batch, batch_disabler_count>>

\* The state only a failed EVFILT_PROC registration changes.
waitVars == <<waitany, strays, procRegFails>>

JcbType == [desc : DescType, p : BOOLEAN, execfd : BOOLEAN,
            failed_exits : 0..FAILED_EXITS_THRESHOLD + 1, throttle : BOOLEAN,
            checkedin : BOOLEAN, vnode : BOOLEAN]

\* A calloc'ed jobcb for description d (load_job); vnode is whether
\* open(WatchPaths[0], O_EVTONLY) succeeded.
NewJcb(d, vnodeOpen) ==
  [desc |-> d, p |-> FALSE, execfd |-> FALSE, failed_exits |-> 0,
   throttle |-> FALSE, checkedin |-> FALSE,
   vnode |-> "WatchPaths" \in d.triggers /\ vnodeOpen]

----------------------------------------------------------------------------
(* The world record the C helpers transform, and its commit.               *)

W == [jobs |-> jobs, jcb |-> jcb, proc |-> proc, status |-> status,
      execpipe |-> execpipe,
      kq |-> kq, pend |-> pend, zombies |-> zombies, termed |-> termed,
      conns |-> conns, total |-> total_children,
      shutdown |-> shutdown_in_progress, waitany |-> waitany, why |-> why]

Commit(w) ==
  /\ jobs' = w.jobs
  /\ jcb' = w.jcb
  /\ proc' = w.proc
  /\ status' = w.status
  /\ execpipe' = w.execpipe
  /\ kq' = w.kq
  /\ pend' = w.pend
  /\ zombies' = w.zombies
  /\ termed' = w.termed
  /\ conns' = w.conns
  /\ total_children' = w.total
  /\ shutdown_in_progress' = w.shutdown
  /\ waitany' = w.waitany
  /\ why' = w.why

OnDemand(w, s) == w.jcb[s].desc.ondemand
Has(w, s, t) == t \in w.jcb[s].desc.triggers

\* Outcomes of job_start's fork and EVFILT_PROC registration explored
\* (a failed registration blocks launchd until it returns, so at most one
\* is outstanding).
ForkOutcomes == {"Ok"} \cup (IF ForkMayFail THEN {"Fail"} ELSE {})
                       \cup (IF procRegFails < MaxProcRegFails
                              THEN {"NoProcEvent"} ELSE {})

----------------------------------------------------------------------------
(* The C helpers.                                                          *)

\* job_ignore: EV_DELETE the listening sockets, watch paths and queue
\* directories; a pending EV_CLEAR event goes with its registration.
job_ignore(w, s) ==
  LET gone == {<<s, f>> : f \in {"Sockets", "WatchPaths", "QueueDirectories"}}
  IN  [w EXCEPT !.kq = @ \ gone, !.pend = @ \ gone]

\* job_start: nothing if a child is already supervised; otherwise fork.
\* On fork failure the pipes are closed and an OnDemand job's triggers are
\* ignored; nothing else is armed.  After a fork the parent opens the IPC
\* connection of a ServiceIPC job and registers the exec pipe.  If
\* EVFILT_PROC is registered, it records the pid, counts the child and
\* ignores an OnDemand job's triggers; if not, job_reap(j) runs with
\* j->p still 0: it closes the exec pipe (the child reads end of file and
\* goes on to exec) and blocks in waitpid(0, ...) until any child exits.
job_start(w, s, fo) ==
  IF w.jcb[s].p THEN w
  ELSE LET w0 == [w EXCEPT !.jcb[s].checkedin = FALSE]
           w1 == [w0 EXCEPT !.proc[s] = "Released",
                            !.execpipe[s] = "Empty",
                            !.conns[s] = IF w0.jcb[s].desc.sipc
                                         THEN @ \cup {"Idle"} ELSE @]
           w2 == [w1 EXCEPT !.jcb[s].execfd = TRUE,
                            !.jcb[s].p = TRUE,
                            !.kq = @ \cup {<<s, "execfd">>, <<s, "proc">>},
                            !.total = @ + 1]
       IN  CASE fo = "Fail" -> IF OnDemand(w0, s) THEN job_ignore(w0, s) ELSE w0
             [] fo = "Ok"   -> IF OnDemand(w2, s) THEN job_ignore(w2, s) ELSE w2
             [] fo = "NoProcEvent" -> [w1 EXCEPT !.waitany = s]

\* Defect: job_watch re-arms the queue directories without probing them.
job_watch_noProbe(w, s, openOk, fo) ==
  LET vn == Has(w, s, "WatchPaths") /\ (w.jcb[s].vnode \/ openOk)
  IN  [w EXCEPT !.jcb[s].vnode = vn,
                !.kq = @ \cup {<<s, f>> : f \in {f2 \in {"Sockets", "QueueDirectories"} :
                                                   Has(w, s, f2)}}
                         \cup (IF vn THEN {<<s, "WatchPaths">>} ELSE {})]

\* job_watch: watch the listening sockets; re-open a watch path whose
\* descriptor was closed (it may fail again) and watch it; watch the queue
\* directories, then start the job if one of them is not empty.
job_watch(w, s, openOk, fo) ==
  LET vn   == Has(w, s, "WatchPaths") /\ (w.jcb[s].vnode \/ openOk)
      regs == {<<s, f>> : f \in {f2 \in {"Sockets", "QueueDirectories"} :
                                          Has(w, s, f2)}}
              \cup (IF vn THEN {<<s, "WatchPaths">>} ELSE {})
      w1   == [w EXCEPT !.jcb[s].vnode = vn, !.kq = @ \cup regs]
  IN  IF Has(w, s, "QueueDirectories") /\ qfull[s] /\ ~w.shutdown
      THEN job_start(w1, s, fo)
      ELSE w1

\* job_reap after its waitpid returned the status of slot t's child:
\* classify the exit, throttle a KeepAlive job that ran too briefly or
\* forgive one that ran long enough, count a bad exit, decrement
\* total_children and forget the pid.  A child whose EVFILT_PROC is still
\* registered (its job's, or simple_zombie_reaper's) keeps its event.
job_reap_status(w, s, t, ran) ==
  LET od     == OnDemand(w, s)
      short  == ~od /\ ran = "Short"
      reward == ~od /\ ran = "Long"
      bad    == w.status[t] \in {"Fail", "SigAbnormal"} \/ short
      f0     == IF reward THEN 0 ELSE w.jcb[s].failed_exits
  IN  [w EXCEPT !.jcb[s].throttle = @ \/ short,
                !.jcb[s].failed_exits = IF bad THEN f0 + 1 ELSE f0,
                !.jcb[s].p = FALSE,
                !.proc[t] = IF <<t, "proc">> \in w.kq \/ t \in w.zombies
                            THEN "Reaped" ELSE "None",
                !.status[t] = "Success",
                !.termed = @ \ {t},
                !.total = @ - 1]

\* job_reap: close the exec pipe, then waitpid(j->p).  A child another
\* waitpid already collected makes it fail (ECHILD): job_reap returns with
\* j->p still set.
job_reap(w, s, ran) ==
  LET w0 == [w EXCEPT !.jcb[s].execfd = FALSE,
                      !.kq = @ \ {<<s, "execfd">>},
                      !.execpipe[s] = "Empty"]
  IN  IF w.proc[s] = "Reaped" THEN [w0 EXCEPT !.proc[s] = "None"]
      ELSE job_reap_status(w0, s, s, ran)

\* Defect: job_remove forgets the EV_DELETE of the throttle timer.
JobRemoveClosed_keepsThrottle(s) == {<<s, f>> : f \in Filters \ {"proc", "throttle"}}

\* The registrations job_remove tears down besides EVFILT_PROC: closing
\* the socket descriptors of ldj, the exec pipe, the watch-path and
\* queue-directory descriptors, and EV_DELETE of the three timers.
JobRemoveClosed(s) == {<<s, f>> : f \in Filters \ {"proc"}}

\* job_remove: unlink the jobcb; if a child is supervised, hand its
\* EVFILT_PROC to simple_zombie_reaper and SIGTERM it (kevent_mod fails only
\* for an exited child, and then the child is reaped at once); close and
\* delete everything the job armed.  Connections bound to the jobcb are
\* left alone.
job_remove(w, s, reaperOk, ran, reason) ==
  LET w1 == [w EXCEPT !.jobs = @ \ {s}, !.why[s] = reason,
                      !.kq = @ \ {<<s, "proc">>}]
      w2 == IF ~w.jcb[s].p THEN w1
            ELSE IF reaperOk \/ w.proc[s] \notin {"Dead", "Reaped"}
                 THEN [w1 EXCEPT !.zombies = @ \cup {s}, !.termed = @ \cup {s}]
                 ELSE job_reap(w1, s, ran)
  IN  [w2 EXCEPT !.kq = @ \ JobRemoveClosed(s), !.pend = @ \ JobRemoveClosed(s)]

\* Defect: job_restart_fitness_test without the failure threshold.
job_restart_fitness_test_noThreshold(w, s, openOk, fo, ran) ==
  IF w.jcb[s].desc.sipc /\ ~w.jcb[s].checkedin
  THEN <<FALSE, job_remove(w, s, TRUE, ran, "CheckIn")>>
  ELSE IF OnDemand(w, s) \/ w.shutdown
  THEN <<FALSE, job_watch(w, s, openOk, fo)>>
  ELSE <<TRUE, w>>

\* job_restart_fitness_test: <<restart?, world>>.
job_restart_fitness_test(w, s, openOk, fo, ran) ==
  IF w.jcb[s].desc.sipc /\ ~w.jcb[s].checkedin
  THEN <<FALSE, job_remove(w, s, TRUE, ran, "CheckIn")>>
  ELSE IF w.jcb[s].failed_exits >= FAILED_EXITS_THRESHOLD
  THEN <<FALSE, job_remove(w, s, TRUE, ran, "Failures")>>
  ELSE IF OnDemand(w, s) \/ w.shutdown
  THEN <<FALSE, job_watch(w, s, openOk, fo)>>
  ELSE <<TRUE, w>>

\* job_stop: SIGTERM the supervised child.
job_stop(w, s) ==
  IF w.jcb[s].p THEN [w EXCEPT !.termed = @ \cup {s}] ELSE w

----------------------------------------------------------------------------
Init ==
  /\ jobs = {}
  /\ nextSlot = 1
  /\ jcb = [s \in Slots |-> NewJcb(CHOOSE d \in Descs : TRUE, FALSE)]
  /\ proc = [s \in Slots |-> "None"]
  /\ status = [s \in Slots |-> "Success"]
  /\ execpipe = [s \in Slots |-> "Empty"]
  /\ kq = {}
  /\ pend = {}
  /\ zombies = {}
  /\ termed = {}
  /\ conns = [s \in Slots |-> {}]
  /\ total_children = 0
  /\ shutdown_in_progress = FALSE
  /\ async_enabled = TRUE
  /\ sockq = [s \in Slots |-> FALSE]
  /\ qfull = [s \in Slots |-> FALSE]
  /\ exited = FALSE
  /\ ctl = {}
  /\ disabled_batch = {}
  /\ batch_disabler_count = 0
  /\ waitany = 0
  /\ strays = {}
  /\ procRegFails = 0
  /\ why = [s \in Slots |-> "None"]

TypeOK ==
  /\ jobs \subseteq Slots
  /\ nextSlot \in 1..MaxLoads + 1
  /\ jcb \in [Slots -> JcbType]
  /\ proc \in [Slots -> ProcStates]
  /\ status \in [Slots -> ExitStatus]
  /\ execpipe \in [Slots -> PipeStates]
  /\ kq \subseteq Slots \X Filters
  /\ pend \subseteq Slots \X {"WatchPaths", "QueueDirectories"}
  /\ zombies \subseteq Slots
  /\ termed \subseteq Slots
  /\ conns \in [Slots -> SUBSET ConnStates]
  /\ total_children \in Int
  /\ shutdown_in_progress \in BOOLEAN
  /\ async_enabled \in BOOLEAN
  /\ sockq \in [Slots -> BOOLEAN]
  /\ qfull \in [Slots -> BOOLEAN]
  /\ exited \in BOOLEAN
  /\ ctl \subseteq Clients
  /\ disabled_batch \subseteq ctl
  /\ batch_disabler_count \in Nat
  /\ waitany \in Slots \cup {0}
  /\ strays \subseteq Slots
  /\ procRegFails \in 0..MaxProcRegFails
  /\ why \in [Slots -> Reasons]

----------------------------------------------------------------------------
(* main(): the loop exits when a per-user launchd has no jobs and kevent() *)
(* times out, or when shutdown is in progress and total_children is 0.     *)
(* The test runs before every kevent(), so no handler runs once it holds.  *)

MustExit == shutdown_in_progress /\ total_children = 0

\* A handler can run: launchd is still in its loop, did not exit first and
\* is not blocked in a handler's waitpid(0, ...).
Handling == ~exited /\ ~MustExit /\ waitany = 0

LaunchdExit ==
  /\ ~exited
  /\ waitany = 0
  /\ jobs = {} \/ MustExit
  /\ exited' = TRUE
  /\ UNCHANGED <<batchVars, waitVars, jobs, nextSlot, jcb, proc, status, execpipe, kq, pend,
                 zombies, termed, conns, total_children, shutdown_in_progress,
                 async_enabled, sockq, qfull, why>>

EnvUnchanged == UNCHANGED <<batchVars, strays, procRegFails, nextSlot, async_enabled, sockq, qfull, exited>>

----------------------------------------------------------------------------
(* job_callback, one action per filter.                                    *)

\* Defect: a throttled restart clears the flag but arms no timer.
JobCallbackProc_noTimer(s) ==
  /\ Handling
  /\ <<s, "proc">> \in kq
  /\ proc[s] \in {"Dead", "Reaped"}
  /\ \E ran \in RunTimes, openOk \in BOOLEAN, fo \in ForkOutcomes :
       LET w0 == job_reap([W EXCEPT !.kq = @ \ {<<s, "proc">>}], s, ran)
           ft == job_restart_fitness_test(w0, s, openOk, fo, ran)
           w1 == ft[2]
       IN  Commit(IF ~ft[1] THEN w1
                  ELSE IF w1.jcb[s].throttle
                  THEN [w1 EXCEPT !.jcb[s].throttle = FALSE]
                  ELSE job_start(w1, s, fo))
  /\ EnvUnchanged

\* EVFILT_PROC: job_reap, job_restart_fitness_test, then either arm the
\* one-shot throttle timer or job_start.
JobCallbackProc(s) ==
  /\ Handling
  /\ <<s, "proc">> \in kq
  /\ proc[s] \in {"Dead", "Reaped"}
  /\ \E ran \in RunTimes, openOk \in BOOLEAN, fo \in ForkOutcomes :
       LET w0 == job_reap([W EXCEPT !.kq = @ \ {<<s, "proc">>}], s, ran)
           ft == job_restart_fitness_test(w0, s, openOk, fo, ran)
           w1 == ft[2]
       IN  Commit(IF ~ft[1] THEN w1
                  ELSE IF w1.jcb[s].throttle
                  THEN [w1 EXCEPT !.jcb[s].throttle = FALSE,
                                  !.kq = @ \cup {<<s, "throttle">>}]
                  ELSE job_start(w1, s, fo))
  /\ EnvUnchanged

\* EVFILT_READ on the exec pipe: an errno from a failed execve() removes
\* the job; end of file closes the pipe.
JobCallbackExecFd(s) ==
  /\ Handling
  /\ <<s, "execfd">> \in kq
  /\ execpipe[s] # "Empty"
  /\ \E reaperOk \in BOOLEAN, ran \in RunTimes :
       Commit(IF execpipe[s] = "Errno"
              THEN job_remove(W, s, reaperOk, ran, "ExecFailure")
              ELSE [W EXCEPT !.jcb[s].execfd = FALSE,
                             !.execpipe[s] = "Empty",
                             !.kq = @ \ {<<s, "execfd">>}])
  /\ EnvUnchanged

\* EVFILT_READ on a listening socket of the job: job_start.
JobCallbackSockets(s) ==
  /\ Handling
  /\ <<s, "Sockets">> \in kq
  /\ sockq[s]
  /\ \E fo \in ForkOutcomes : Commit(job_start(W, s, fo))
  /\ EnvUnchanged

\* EVFILT_VNODE, delivered through asynckq: an invalidated watch path is
\* closed (job_watch re-opens it); a queue directory found empty is a
\* spurious wake-up.  Otherwise job_start.
JobCallbackVnode(s, k) ==
  /\ Handling
  /\ async_enabled
  /\ <<s, k>> \in pend
  /\ \E invalidated \in BOOLEAN, fo \in ForkOutcomes :
       LET w0 == [W EXCEPT !.pend = @ \ {<<s, k>>}]
           w1 == IF k = "WatchPaths" /\ invalidated
                 THEN [w0 EXCEPT !.jcb[s].vnode = FALSE,
                                 !.kq = @ \ {<<s, k>>}]
                 ELSE w0
       IN  Commit(IF k = "QueueDirectories" /\ ~qfull[s] THEN w1
                  ELSE job_start(w1, s, fo))
  /\ EnvUnchanged

\* EVFILT_TIMER, delivered through asynckq: the StartInterval timer
\* (periodic), the calendar alarm (re-armed by job_set_alarm) and the
\* one-shot throttle timer all end in job_start.
JobCallbackTimer(s, k) ==
  /\ Handling
  /\ async_enabled
  /\ <<s, k>> \in kq
  /\ \E fo \in ForkOutcomes :
       Commit(job_start(IF k = "throttle"
                        THEN [W EXCEPT !.kq = @ \ {<<s, k>>}] ELSE W,
                        s, fo))
  /\ EnvUnchanged

\* simple_zombie_reaper: waitpid() on a removed job's child (it fails if
\* another waitpid collected the child first).
SimpleZombieReaper(s) ==
  /\ Handling
  /\ s \in zombies
  /\ proc[s] \in {"Dead", "Reaped"}
  /\ proc' = [proc EXCEPT ![s] = "None"]
  /\ status' = [status EXCEPT ![s] = "Success"]
  /\ zombies' = zombies \ {s}
  /\ termed' = termed \ {s}
  /\ UNCHANGED <<batchVars, waitVars, jobs, nextSlot, jcb, execpipe, kq, pend, conns,
                 total_children, shutdown_in_progress, async_enabled, sockq,
                 qfull, exited, why>>

\* The waitpid(0, ...) of job_start's job_reap returns the status of some
\* exited child of launchd's process group, the job's own or another's,
\* and job_reap goes on with it; job_start then writes the pid to the
\* closed exec pipe descriptor and returns.  A job whose own child was
\* not the one collected has lost it: no EVFILT_PROC and no waitpid will
\* ever be armed for it.
WaitAnyReturns(t) ==
  /\ ~exited
  /\ waitany # 0
  /\ proc[t] = "Dead"
  /\ \E ran \in RunTimes :
       LET s  == waitany
           w0 == job_reap_status(W, s, t, ran)
       IN  IF t = s
           THEN Commit([w0 EXCEPT !.waitany = 0]) /\ UNCHANGED strays
           ELSE /\ Commit([w0 EXCEPT !.waitany = 0, !.proc[s] = "None",
                                     !.status[s] = "Success"])
                /\ strays' = strays \cup {s}
  /\ procRegFails' = procRegFails + 1
  /\ UNCHANGED <<batchVars, nextSlot, async_enabled, sockq, qfull, exited>>

----------------------------------------------------------------------------
(* The connection bound to a ServiceIPC job (ipc_callback, ipc_readmsg2). *)

\* The child's end of a connection is gone: what remains queued is EOF,
\* after a CheckIn the child sent before dying.
PeerGone(cs) ==
  {IF c = "Idle" THEN "Eof" ELSE IF c = "CheckIn" THEN "CheckInEof" ELSE c : c \in cs}

\* CheckIn: answered with a copy of c->j->ldj, and c->j->checkedin = true.
\* c->j is whatever jobcb the connection was opened for.
IpcCheckIn(s) ==
  /\ Handling
  /\ \E c \in conns[s] \cap {"CheckIn", "CheckInEof"} :
       conns' = [conns EXCEPT ![s] = (@ \ {c}) \cup
                                     {IF c = "CheckIn" THEN "Idle" ELSE "Eof"}]
  /\ jcb' = [jcb EXCEPT ![s].checkedin = TRUE]
  /\ UNCHANGED <<batchVars, waitVars, jobs, nextSlot, proc, status, execpipe, kq, pend, zombies,
                 termed, total_children, shutdown_in_progress, async_enabled,
                 sockq, qfull, exited, why>>

\* launchd_msg_recv() fails with end of file: ipc_close.
IpcEof(s) ==
  /\ Handling
  /\ "Eof" \in conns[s]
  /\ conns' = [conns EXCEPT ![s] = @ \ {"Eof"}]
  /\ UNCHANGED <<batchVars, waitVars, jobs, nextSlot, jcb, proc, status, execpipe, kq, pend,
                 zombies, termed, total_children, shutdown_in_progress,
                 async_enabled, sockq, qfull, exited, why>>

----------------------------------------------------------------------------
(* Control requests (ipc_readmsg2) and signals (signal_callback).          *)

LabelOf(s) == jcb[s].desc.label

\* SubmitJob -> load_job: a label not loaded yet gets a new jobcb; its
\* interval and calendar timers are armed, an OnDemand job is watched, and
\* a job that is not OnDemand or has RunAtLoad is started.
SubmitJob(d) ==
  /\ Handling
  /\ nextSlot <= MaxLoads
  /\ \A s \in jobs : LabelOf(s) # d.label
  /\ \E vnodeOpen, openOk \in BOOLEAN, fo \in ForkOutcomes :
       LET s  == nextSlot
           timers == {<<s, t>> : t \in d.triggers \cap
                                       {"StartInterval", "StartCalendarInterval"}}
           w0 == [W EXCEPT !.jobs = @ \cup {s},
                           !.jcb[s] = NewJcb(d, vnodeOpen),
                           !.kq = @ \cup timers]
           w1 == IF d.ondemand THEN job_watch(w0, s, openOk, fo) ELSE w0
           startnow == ~d.ondemand \/ d.runatload
       IN  Commit(IF startnow THEN job_start(w1, s, fo) ELSE w1)
  /\ nextSlot' = nextSlot + 1
  /\ UNCHANGED <<batchVars, strays, procRegFails, async_enabled, sockq, qfull, exited>>

StartJob(l) ==
  /\ Handling
  /\ \E s \in jobs : /\ LabelOf(s) = l
                     /\ \E fo \in ForkOutcomes : Commit(job_start(W, s, fo))
  /\ EnvUnchanged

StopJob(l) ==
  /\ Handling
  /\ \E s \in jobs : LabelOf(s) = l /\ Commit(job_stop(W, s))
  /\ EnvUnchanged

RemoveJob(l) ==
  /\ Handling
  /\ \E s \in jobs, reaperOk \in BOOLEAN, ran \in RunTimes :
       LabelOf(s) = l /\ Commit(job_remove(W, s, reaperOk, ran, "Request"))
  /\ EnvUnchanged

\* SIGTERM -> do_shutdown: disable asynckq and job_stop every job.
DoShutdown ==
  /\ Handling
  /\ shutdown_in_progress' = TRUE
  /\ async_enabled' = FALSE
  /\ termed' = termed \cup {s \in jobs : jcb[s].p}
  /\ UNCHANGED <<batchVars, waitVars, jobs, nextSlot, jcb, proc, status, execpipe, kq, pend,
                 zombies, conns, total_children, sockq, qfull, exited, why>>

----------------------------------------------------------------------------
(* Control connections and BatchControl.                                   *)

\* batch_job_enable(e, c): connections that disabled batch jobs are
\* counted; asynckq is disabled when the count leaves 0 and enabled when
\* it returns to 0, whatever else disabled it.
batch_job_enable(e, c) ==
  IF e /\ c \in disabled_batch
  THEN /\ batch_disabler_count' = batch_disabler_count - 1
       /\ disabled_batch' = disabled_batch \ {c}
       /\ async_enabled' = (batch_disabler_count - 1 = 0 \/ async_enabled)
  ELSE IF ~e /\ c \notin disabled_batch
  THEN /\ async_enabled' = (batch_disabler_count # 0 /\ async_enabled)
       /\ batch_disabler_count' = batch_disabler_count + 1
       /\ disabled_batch' = disabled_batch \cup {c}
  ELSE UNCHANGED <<async_enabled, batch_disabler_count, disabled_batch>>

StateButBatch == UNCHANGED <<waitVars, jobs, nextSlot, jcb, proc, status, execpipe, kq,
                             pend, zombies, termed, conns, total_children,
                             shutdown_in_progress, sockq, qfull, exited, why>>

\* listen_callback: accept() on the launchd socket, ipc_open(cfd, NULL).
ListenCallback(c) ==
  /\ Handling
  /\ c \notin ctl
  /\ ctl' = ctl \cup {c}
  /\ UNCHANGED <<async_enabled, disabled_batch, batch_disabler_count>>
  /\ StateButBatch

\* ipc_readmsg2, BatchControl: batch_job_enable(launch_data_get_bool(data)).
BatchControl(c, e) ==
  /\ Handling
  /\ c \in ctl
  /\ batch_job_enable(e, c)
  /\ UNCHANGED ctl
  /\ StateButBatch

\* Defect: ipc_close frees the connection without batch_job_enable.
IpcCloseCtl_noEnable(c) ==
  /\ Handling
  /\ c \in ctl
  /\ ctl' = ctl \ {c}
  /\ disabled_batch' = disabled_batch \ {c}
  /\ UNCHANGED <<async_enabled, batch_disabler_count>>
  /\ StateButBatch

\* The client closes: ipc_callback reads EOF and calls ipc_close, which
\* calls batch_job_enable(true, c) and frees the connection.
IpcCloseCtl(c) ==
  /\ Handling
  /\ c \in ctl
  /\ batch_job_enable(TRUE, c)
  /\ ctl' = ctl \ {c}
  /\ StateButBatch

----------------------------------------------------------------------------
(* The kernel and the children.                                            *)

\* The released child execs: close-on-exec closes its end of the pipe.
ChildExec(s) ==
  /\ ~exited
  /\ proc[s] = "Released"
  /\ proc' = [proc EXCEPT ![s] = "Running"]
  /\ execpipe' = [execpipe EXCEPT ![s] = "Eof"]
  /\ UNCHANGED <<batchVars, waitVars, jobs, nextSlot, jcb, status, kq, pend, zombies, termed,
                 conns, total_children, shutdown_in_progress, async_enabled,
                 sockq, qfull, exited, why>>

\* execve() fails: the child writes errno to the pipe and _exit(EXIT_FAILURE).
ChildExecFail(s) ==
  /\ ~exited
  /\ proc[s] = "Released"
  /\ proc' = [proc EXCEPT ![s] = "Dead"]
  /\ status' = [status EXCEPT ![s] = "Fail"]
  /\ execpipe' = [execpipe EXCEPT ![s] = "Errno"]
  /\ conns' = [conns EXCEPT ![s] = PeerGone(@)]
  /\ UNCHANGED <<batchVars, waitVars, jobs, nextSlot, jcb, kq, pend, zombies, termed,
                 total_children, shutdown_in_progress, async_enabled, sockq,
                 qfull, exited, why>>

\* The exec'd program exits; one that was sent SIGTERM dies of it.
ChildExit(s) ==
  /\ ~exited
  /\ proc[s] = "Running"
  /\ proc' = [proc EXCEPT ![s] = "Dead"]
  /\ \E st \in IF s \in termed THEN {"SigTerm"}
                ELSE {"Success", "Fail", "SigAbnormal"} :
       status' = [status EXCEPT ![s] = st]
  /\ conns' = [conns EXCEPT ![s] = PeerGone(@)]
  /\ UNCHANGED <<batchVars, waitVars, jobs, nextSlot, jcb, execpipe, kq, pend, zombies, termed,
                 total_children, shutdown_in_progress, async_enabled, sockq,
                 qfull, exited, why>>

\* The exec'd program sends CheckIn over LAUNCHD_TRUSTED_FD_ENV.
ChildCheckIn(s) ==
  /\ ~exited
  /\ proc[s] = "Running"
  /\ "Idle" \in conns[s]
  /\ conns' = [conns EXCEPT ![s] = (@ \ {"Idle"}) \cup {"CheckIn"}]
  /\ UNCHANGED <<batchVars, waitVars, jobs, nextSlot, jcb, proc, status, execpipe, kq, pend,
                 zombies, termed, total_children, shutdown_in_progress,
                 async_enabled, sockq, qfull, exited, why>>

EnvOnly == UNCHANGED <<batchVars, waitVars, jobs, nextSlot, jcb, proc, status, execpipe, kq,
                       zombies, termed, conns, total_children,
                       shutdown_in_progress, async_enabled, exited, why>>

\* A vnode event on a registration (EV_CLEAR: pending at most once).
Touch(s, k) == IF <<s, k>> \in kq THEN pend \cup {<<s, k>>} ELSE pend

\* A client connects to a listening socket of a loaded job.
ClientConnect(s) ==
  /\ ~exited /\ s \in jobs /\ "Sockets" \in jcb[s].desc.triggers
  /\ ~sockq[s]
  /\ sockq' = [sockq EXCEPT ![s] = TRUE]
  /\ UNCHANGED <<qfull, pend>> /\ EnvOnly

\* The job's program accepts the waiting client.
ChildAccept(s) ==
  /\ ~exited /\ s \in jobs /\ proc[s] = "Running" /\ sockq[s]
  /\ sockq' = [sockq EXCEPT ![s] = FALSE]
  /\ UNCHANGED <<qfull, pend>> /\ EnvOnly

\* A watched path is written, renamed or deleted.
PathChanged(s) ==
  /\ ~exited
  /\ <<s, "WatchPaths">> \in kq
  /\ pend' = Touch(s, "WatchPaths")
  /\ UNCHANGED <<sockq, qfull>> /\ EnvOnly

\* An item is dropped into the job's queue directory.
QueueItemAdded(s) ==
  /\ ~exited /\ s \in jobs /\ "QueueDirectories" \in jcb[s].desc.triggers
  /\ ~qfull[s]
  /\ qfull' = [qfull EXCEPT ![s] = TRUE]
  /\ pend' = Touch(s, "QueueDirectories")
  /\ UNCHANGED sockq /\ EnvOnly

\* The job's program empties its queue directory.
QueueDrained(s) ==
  /\ ~exited /\ s \in jobs /\ proc[s] = "Running" /\ qfull[s]
  /\ qfull' = [qfull EXCEPT ![s] = FALSE]
  /\ pend' = Touch(s, "QueueDirectories")
  /\ UNCHANGED sockq /\ EnvOnly

----------------------------------------------------------------------------
VnodeKinds == {"WatchPaths", "QueueDirectories"}
TimerKinds == {"StartInterval", "StartCalendarInterval", "throttle"}

\* One kevent() return handled by main().
Supervisor ==
  \/ LaunchdExit
  \/ DoShutdown
  \/ \E d \in Descs : SubmitJob(d)
  \/ \E l \in Labels : StartJob(l) \/ StopJob(l) \/ RemoveJob(l)
  \/ \E s \in Slots :
       \/ JobCallbackProc(s) \/ JobCallbackExecFd(s) \/ JobCallbackSockets(s)
       \/ \E k \in VnodeKinds : JobCallbackVnode(s, k)
       \/ \E k \in TimerKinds : JobCallbackTimer(s, k)
       \/ SimpleZombieReaper(s) \/ IpcCheckIn(s) \/ IpcEof(s)
       \/ WaitAnyReturns(s)
  \/ \E c \in Clients :
       \/ ListenCallback(c) \/ IpcCloseCtl(c)
       \/ \E e \in BOOLEAN : BatchControl(c, e)

Environment ==
  \E s \in Slots :
    \/ ChildExec(s) \/ ChildExecFail(s) \/ ChildExit(s) \/ ChildCheckIn(s)
    \/ ClientConnect(s) \/ ChildAccept(s) \/ PathChanged(s)
    \/ QueueItemAdded(s) \/ QueueDrained(s)

Next == Supervisor \/ Environment

\* kevent() keeps returning a ready event until it is handled, so every
\* handler that stays enabled runs, and a waitpid() returns once a child
\* has exited; a released child proceeds to exec.
Fairness ==
  /\ WF_vars(LaunchdExit)
  /\ \A s \in Slots :
       /\ WF_vars(JobCallbackProc(s)) /\ WF_vars(JobCallbackExecFd(s))
       /\ WF_vars(JobCallbackSockets(s))
       /\ \A k \in VnodeKinds : WF_vars(JobCallbackVnode(s, k))
       /\ \A k \in TimerKinds : WF_vars(JobCallbackTimer(s, k))
       /\ WF_vars(SimpleZombieReaper(s))
       /\ WF_vars(IpcCheckIn(s)) /\ WF_vars(IpcEof(s))
       /\ WF_vars(WaitAnyReturns(s))
       /\ WF_vars(ChildExec(s) \/ ChildExecFail(s))

Spec == Init /\ [][Next]_vars /\ Fairness

----------------------------------------------------------------------------
(* Properties.                                                             *)

\* Spec 4.B "every armed event must have a symmetric unarm invoked on job
\* removal": job_remove leaves no kevent registration and no pending vnode
\* event whose udata is the freed jobcb (otherwise job_callback would run
\* on freed memory).
NoEventForRemovedJob ==
  \A e \in kq \cup pend : e[1] \in jobs

\* Every child launchd forked is eventually waited for: no child is lost,
\* and while one has not been reaped, either its job still supervises it
\* through EVFILT_PROC, or job_remove handed it to simple_zombie_reaper,
\* or launchd is blocked in a waitpid(0, ...) that may collect it.
NoUnreapableChild ==
  /\ strays = {}
  /\ \A s \in Slots :
       proc[s] \notin {"None", "Reaped"} =>
         \/ s \in jobs /\ jcb[s].p /\ <<s, "proc">> \in kq
         \/ s \in zombies
         \/ waitany # 0

\* main() exits on "shutdown_in_progress && total_children == 0", reading
\* total_children as the number of children launchd has not reaped yet.
ChildCount ==
  total_children = Cardinality({s \in Slots : proc[s] # "None"})

\* A KeepAlive job (OnDemand false) that is loaded and has no process is
\* started again (at once, or when its throttle timer fires), unless it is
\* removed or launchd shuts down.
KeepAliveRestarted ==
  \A s \in Slots :
    (s \in jobs /\ ~jcb[s].desc.ondemand /\ ~jcb[s].p /\ ~shutdown_in_progress)
      ~> (jcb[s].p \/ s \notin jobs \/ shutdown_in_progress)

\* An OnDemand job with a client waiting on its socket or an item in its
\* queue directory is started, unless it is removed or launchd shuts down.
DemandStartsJob ==
  \A s \in Slots :
    (s \in jobs /\ jcb[s].desc.ondemand /\ ~jcb[s].p /\ (sockq[s] \/ qfull[s])
       /\ ~shutdown_in_progress)
      ~> (jcb[s].p \/ s \notin jobs \/ shutdown_in_progress)

\* A jobcb that job_remove freed is never written again (CheckIn sets
\* c->j->checkedin through the connection's pointer to the job).
FreedJobcbUntouched ==
  [][\A s \in Slots : (s \notin jobs /\ s < nextSlot) => jcb'[s] = jcb[s]]_vars

\* Spec 4.E "Batch control": while any connection has batching disabled
\* the async queue is disabled, and once the last disabler releases it,
\* by BatchControl or by closing its connection (ipc_close), timer and
\* vnode events are delivered again (outside shutdown, which also
\* disables it).
AsyncFollowsBatch ==
  ~shutdown_in_progress => (async_enabled <=> disabled_batch = {})

================================================================================
