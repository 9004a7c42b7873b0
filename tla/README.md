# TLA+ models of launchd

This directory holds TLA+ models of the job supervisor in
`src/launchd/src/launchd.c` and the loader in `src/launchd/src/launchctl.c`,
the TLC configurations that check them, and `PROJECT.json`, which lists the
components, runs, mutants, the source lines every definition models, the
findings and the hazards.

## The system

launchd is a single-threaded kqueue reactor. `main()` blocks in `kevent()` on
`mainkq` and runs one callback per returned event while holding `giant_lock`.
Timer and vnode filters are registered on a second queue, `asynckq`, which is
itself a read source on `mainkq` (`kevent_mod`, `async_callback`); disabling it
(`do_shutdown`, `batch_job_enable`) holds back every timer and vnode event.

| Part | Code | State | Operations |
|---|---|---|---|
| Reactor | `main`, `kevent_mod`, `async_callback` | `mainkq`, `asynckq`, its enabled flag | dispatch one event; exit when no jobs and idle for 30 s, or when shutting down with `total_children == 0` |
| Job registry | `load_job`, `job_remove` | the `jobs` list of `struct jobcb` | SubmitJob, RemoveJob |
| Job lifecycle | `job_start`, `job_reap`, `job_restart_fitness_test`, `job_callback`, `job_watch`, `job_ignore`, `job_stop`, `do_shutdown` | per job: `p`, `execfd`, `failed_exits`, `throttle`, `checkedin`, watch-path and queue-directory descriptors, timers | fork and release a child, reap it, throttle, restart, remove after too many failures, start on demand |
| Children | `job_start_child` | the exec pipe | exec succeeds (pipe EOF) or fails (errno written, `_exit`) |
| Connections | `ipc_open`, `ipc_callback`, `ipc_readmsg2`, `ipc_close`, `batch_job_enable` | `connections`, `conncb->j`, `batch_disabler_count` | requests; CheckIn on the connection bound to a ServiceIPC job |
| Calendar | `job_set_alarm`, `cronemu*` | `start_cal_interval` | next matching local time |
| Control socket | `launchd_server_init`, `launchd_clean_up`, `fs_callback` | `<prefix>/<uid>` and its `sock`, the flock on the directory, `launchd_inited` | set up the socket, retry on a file-system event, remove it at exit |
| Configuration reload | `signal_callback` (SIGHUP), `reload_launchd_config`, `readcfg_callback` | `readcfg_pid`, the launchctl child reading `launchd.conf` over a socketpair | fork the child, answer its requests, reap it with a blocking `waitpid` |
| launchctl | `load_and_unload_cmd`, `readpath`, `readfile`, `submit_job_pass`, the override database | the database, its lock and `has_changed` | load and unload in two passes |

How they interact: launchctl reads job descriptions and sends SubmitJob or
RemoveJob. load_job creates a jobcb, arms interval and calendar timers,
watches the sockets, watch paths and queue directories of an OnDemand job and
starts a job that is not OnDemand (KeepAlive) or has RunAtLoad. A trigger
calls `job_start`; an OnDemand job then ignores its triggers until its child
exits. The child's exit (EVFILT_PROC) runs `job_reap` and the fitness test,
which either restarts the job (through a one-shot throttle timer if it died
within 10 s), watches it again, or removes it. A ServiceIPC child receives a
connection bound to its job and must send CheckIn before it exits.

### What is hard

Events of one job are delivered in an order the kernel chooses: the child's
exit and the errno on its exec pipe, the exit and a queued CheckIn, a timer
and the job's removal. `job_remove` frees the jobcb while other objects (the
IPC connection, kevents, the zombie reaper) still refer to it. Counters
(`total_children`, `failed_exits`) are updated on some paths and not others.

## Modules

* `LaunchdJobs.tla` models the reactor, registry, lifecycle and the
  job-bound connection. Each C helper (`job_start`, `job_watch`, `job_ignore`,
  `job_reap`, `job_remove`, `job_restart_fitness_test`, `job_stop`) is an
  operator from a world record `W` to a new one, so a handler is the
  composition of the helpers it calls, in the code's order, committed in one
  step (launchd runs a handler to completion). The outcomes of system calls
  (fork, the child's EVFILT_PROC registration, open of a watch path, kevent
  registration of the zombie reaper) and
  the child's run time class (`Short` < 10 s, `Medium`, `Long` >= 60 s) are
  parameters chosen with `\E`. Actions: one per `job_callback` filter
  (`JobCallbackProc`, `JobCallbackExecFd`, `JobCallbackSockets`,
  `JobCallbackVnode`, `JobCallbackTimer`), `SimpleZombieReaper`, `IpcCheckIn`,
  `IpcEof`, the requests `SubmitJob`, `StartJob`, `StopJob`, `RemoveJob`,
  `DoShutdown`, `LaunchdExit`, and the environment: children exec, fail to
  exec, exit and check in; clients connect; paths change; queue items arrive
  and are drained.
  When `job_start` cannot register EVFILT_PROC, `job_reap` runs with
  `j->p == 0`: it closes the exec pipe (the child then goes on to exec)
  and blocks launchd in `waitpid(0, ...)` (`waitany`) until
  `WaitAnyReturns` collects some exited child, the job's own or another
  job's. A child collected that way whose job still has its EVFILT_PROC
  pending is `Reaped`: that job's `job_reap` then fails with ECHILD and
  keeps `j->p`. A new child nobody will wait for is recorded in `strays`.
  `MaxProcRegFails` bounds these failures.
  Control connections (`listen_callback`, `ipc_close`) and `BatchControl`
  (`batch_job_enable`) are modelled with the set of open connections, those
  that disabled batch jobs and `batch_disabler_count`; `async_enabled` is the
  EVFILT_READ of asynckq on mainkq, which do_shutdown and batch_job_enable
  toggle.
* `LaunchdCron.tla` models `job_set_alarm` and the `cronemu` family over a
  scaled-down calendar (minutes per hour, hours per day and month lengths are
  constants; a week has 7 days). A `struct tm` is a record whose fields may
  be out of range, as the code leaves them between `mktime` calls; `mktime`
  and `localtime` are normalization through a minute count. Every loop is a
  RECURSIVE operator; the two without a carry test take a bound. The
  calendar timer's callback re-arms the alarm (`CalendarFire`). `NextMatch`
  is the reference: the least minute after now whose local time matches the
  spec. `MCLaunchdCron.tla` gives a year of a 3-day and a 2-day month with
  2-hour days of 2 minutes.
* `LaunchdServerInit.tla` models the per-user launchd's control socket:
  several launchd processes of one uid run `launchd_server_init(false)`,
  one step per system call (`MkdirPrefix`, `MkdirDir`, `OpenDir`, `Flock`,
  `UnlinkSock`, `Bind`, or `OutBad`), retry it from `fs_callback`, exit
  when idle (`IdleExit`, then `launchd_clean_up` as `CleanUnlink` and
  `CleanRmdir`) or crash at any point. A directory is an inode numbered by
  creation (`nextDir`, at most `MaxDirs`); `dir` is the one at the path,
  and descriptors, locks and socket names belong to an inode, so a lock
  taken on a removed directory stays distinguishable from one on its
  successor. `MCLaunchdServerInit.tla` declares the processes as model
  values, interchangeable (symmetry). The single-server promise of spec
  6.1 is not what the code does (`server_race`), so the model is not
  shown to implement an abstract single-server specification; the passing
  run checks what flock does guarantee (`ServesOnCurrentDirAlone`).
* `LaunchdReload.tla` models the reload of `launchd.conf` in the per-user
  launchd: `SigHup` (main's first call and every SIGHUP run
  `reload_launchd_config`, which forks a launchctl or fails and sets
  `readcfg_pid` to 0), the child's loop over its lines (`KidRequest` sends a
  request with `launch_msg` and blocks for the answer, `KidLocalLine` runs a
  line that sends nothing, `KidExit` at the end of the file or after a
  failed open or exec), launchd answering (`IpcRequest`, `Answer`) and
  `readcfg_callback`, whose `waitpid(readcfg_pid, &status, 0)` blocks the
  reactor (`waitOn`) until `WaitpidReturns`. `MCLaunchdReload.tla` declares
  two children and a one-line file.
* `MCLaunchdJobs.tla` gives job descriptions: an OnDemand ServiceIPC job with
  sockets and a queue directory, a KeepAlive job with a watch path and an
  interval timer, and a KeepAlive job without triggers.

* `LaunchctlLoad.tla` models `launchctl load` and `unload`
  (`load_and_unload_cmd` and what it calls) run by several launchctl
  processes at once. A process may be an interactive session, so the globals
  `g_job_overrides_db` (`hasdb`, `mem`) and `g_job_overrides_db_has_changed`
  (`changed`) survive from one command to the next. Actions: `Begin`
  (demux_cmd), `OpenDB` (open with `O_EXLOCK`, blocking while another
  descriptor holds the lock) or `OpenDBFails`, `ReadFiles` (readpath,
  path_goodness_check, read_plist_file with the overrides and the `-w` edit,
  readfile's filters and the pass routing of delay_to_second_pass, or the
  early "nothing found" return, which skips the write of an edit already
  made in `g_job_overrides_db`), `SubmitPass1`, `SubmitPass2`, `Unload`,
  `Finish` (write the database if `has_changed`, unlock, close) and `Exit`
  (the process ends and its descriptors close). A property list is reduced
  to its label and its Disabled key; host, hardware and session filters to a
  set of excluded files. `lastEdit`, the last Disabled value a `-w`
  command set per label, is a history variable for the properties. After a
  failed open, `WriteMyPropertyListToFile` is still called when
  `has_changed` is set; it opens the file by name without the lock, so the
  model lets it succeed or fail.
* `OverridesDB.tla` is what the override database promises: each
  process plans an edit (a set of labels and a Disabled value), and applying
  it to the database is atomic, so no process's write loses another's edit
  (`Plan`, `Commit`). `LaunchctlLoad` implements it (`OverridesSpec`) with
  `db <- dbDisk` and each process's planned edit read from its command
  (the labels of the files it read when `-w` was given): the `O_EXLOCK`
  held from `CreateMyPropertyListFromFile` to `WriteMyPropertyListToFile`
  makes read-modify-write one abstract step.
* `LaunchctlLimit.tla` models `launchctl limit` (`limit_cmd`) against
  launchd's `adjust_rlimits`: `Parse` (the usage checks), `GetLimits`
  (GetResourceLimits returns the cached table `l`, filled by getrlimit on
  the first call; a print-only command ends, a setting command changes its
  entry in its copy, and "unlimited" for maxfiles is refused), `SetLimits`
  (SetResourceLimits with the whole copy: launchd calls setrlimit for each
  entry that differs from `l`, and reads it back) and `LaunchMsgFails`.
  `setrlimit` fails with EINVAL (soft above hard) or EPERM (an
  unprivileged launchd raising a hard limit). A request and its answer are
  one step, since launchd handles one request at a time and the client
  blocks in `launch_msg`. `MCLaunchctlLimit.tla` declares two processes
  and the resources cpu and maxfiles.
* `MCLaunchctlLoad.tla` gives two files: one without a Disabled key and one
  disabled, with a Bonjour socket (pass 2) and dubious permissions (needs
  `-F`). The bounds are per process: `MaxCmds[p]` commands (two make an
  interactive session) and `OpenMayFail`, the processes whose open of the
  database can fail (a user who cannot create or lock it, or no database
  path from launchd). `MCSessionAndOne` gives p1 a session of two commands
  and p2 one command; `MCSessionCmds` and `MCOneCmd` give p1 alone two or
  one.

State abstraction (LaunchdJobs): a slot `1..MaxLoads` stands for one jobcb allocation
(never reused, so a freed jobcb stays distinguishable); `kq` is the set of
registrations `<<slot, filter>>` whose udata is that jobcb; `pend` the
EV_CLEAR vnode events pending; a connection is described by what is queued
on it.

## Runs

| Run | Expect | Checks |
|---|---|---|
| safety | pass | TypeOK, NoEventForRemovedJob, AsyncFollowsBatch for the OnDemand job or the KeepAlive job, fork may fail, one failed EVFILT_PROC registration, one control connection |
| liveness | pass | DemandStartsJob and KeepAliveRestarted (KeepAlive job without other triggers) |
| children_count | violation | ChildCount |
| checkin_uaf | violation | FreedJobcbUntouched |
| calendar | violation | CalendarNextMatch over every spec of the scaled calendar and every load time |
| launchctl_overrides | pass | the refinement OverridesSpec: a session of two commands and a single command whose open may fail (falling back to the file), every option combination (390 k states) |
| launchctl_edit_lost | violation | EditOnDiskTakesEffect: one `unload -w` or `load -w` of a file the session filter excludes |
| launchctl_lock_leak | violation | LockReleasedWhenIdle |
| server_init | pass | ServesOnCurrentDirAlone: three launchd processes of one uid, three directory inodes, read-only root at boot or not, idle exit, crash at any step |
| server_race | violation | SingleSupervisor with three launchd processes |
| limit_lost_update | violation | OnlyNamedLimitChanges: two launchctl limit commands, two resources (cpu, maxfiles), values 0..2 with 2 = unlimited, unprivileged launchd |
| reload_deadlock | violation | WaitpidReturnsEventually: two SIGHUPs, a one-line launchd.conf |

Bounds: one jobcb allocation and `FAILED_EXITS_THRESHOLD = 2`
(the code uses 10; two failures already exercise both the increment and the
removal, and the forgiveness after a long run). Each job description alone
covers its triggers; jobs interact only through `total_children` and
shutdown, so each run loads one description (two jobs with a failed
EVFILT_PROC registration exceed a run's time; with them NoUnreapableChild
is violated, see "hazards"). For launchctl, two processes, one of them a
session of two commands, are enough for one process to wait on the other's
lock, for a session to reuse the state of its previous command and for a
failed open to fall back to the file;
two files separate the options that route or filter a file. For the
calendar, two months of different lengths and two values per field make
every field reach its last value and carry, and a Day exist in one month
only; the run checks every load time of a year against every spec. For the
reload, two children and one line are the least that lets one SIGHUP's child
be waited for while it waits on its own request. For `limit`, two processes
and two resources are the least for one command's write-back to carry a
stale entry of another resource; three values give a limit that can be
lowered, raised within the hard limit, and set to unlimited.

The control-socket runs use three launchd processes, the number at which
`launchd_clean_up`'s rmdir can race both a process between open and flock
and one that creates the next directory; two processes cannot reach it.

Fairness: weak fairness of every handler, because `kevent()` returns an event
as long as it is ready (EVFILT_READ, EVFILT_PROC and fired timers stay
pending until handled), and of a released child reaching exec or failing.
Children are not required to exit or check in. LaunchdReload assumes weak
fairness of launchd's handlers (only while it is not blocked) and of the
launchctl child's steps, never of SIGHUP. `CHECK_DEADLOCK FALSE`:
launchd legitimately waits in `kevent()` forever when no event comes.
LaunchctlLoad has no fairness and checks only safety: a launchctl session
may stop at any point.

## Findings

Runs with expect `violation` (see `PROJECT.json` "findings"): a second
SIGHUP while the reload launchctl runs can make launchd block forever in
`waitpid` on a launchctl that waits for launchd's answer (`reload_deadlock`);
`total_children` leaks for removed
jobs (`children_count`); CheckIn after removal writes a freed jobcb
(`checkin_uaf`); a launchctl load that finds nothing leaks the database
lock, and the next command of the same session then blocks on its own lock
(`launchctl_lock_leak`); two concurrent `launchctl limit` commands on different resources undo
each other, because each writes back the whole table it read before
(`limit_lost_update`; one process alone satisfies the property); a calendar alarm evaluated at the last minute of an
hour fires in the wrong hour, and a Day past the current month's end fires
on the 1st of the next month (`calendar`, which TLC stops at the first); two launchd processes of one
uid can both serve when one starts while another removes the socket
directory at exit (`server_race`); a `-w` edit of a job that readfile
then excludes (host, hardware or session filter) is never written, because
the "nothing found" return comes before the database write
(`launchctl_edit_lost`).

Reached by the models but not checked by a run (see "hazards"): a failed
fork is never retried although `job_start` says it will be (KeepAliveRestarted
fails when fork may fail); an exec
failure whose errno is discarded when the exit is handled first; a job
removed for not checking in although its CheckIn is queued; a `-w` edit after a failed
database open in an interactive session going to the previous command's
dictionary; a batch client re-enabling timers and vnode events during
shutdown (batch_job_enable after do_shutdown); a `launchctl limit` that
returns 0 although launchd's setrlimit failed; a `load -w` by a
process that cannot open the database editing the file while the
database entry another process's `unload -w` wrote still disables the
job (two processes of one command each, the second's open failing);
a failed EVFILT_PROC registration whose `waitpid(0)` collects another
job's child, leaving the new child never waited for and the other job
with `j->p` set forever (NoUnreapableChild, two jobs), or blocking
launchd while the new child runs.

## Not modelled

The value tree library, the PID 1 boot path, child setup details, daylight
saving time in the calendar, the launchctl commands other than load, unload and limit (each sends one request and formats the answer), socket binding. See
`PROJECT.json` "components".
