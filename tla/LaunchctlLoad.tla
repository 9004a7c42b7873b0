---------------------------- MODULE LaunchctlLoad ----------------------------
(***************************************************************************)
(* `launchctl load` and `launchctl unload` (src/launchd/src/launchctl.c): *)
(* load_and_unload_cmd, readpath, path_goodness_check, readfile,          *)
(* read_plist_file, job_disabled_logic, delay_to_second_pass,             *)
(* submit_job_pass and unloadjob, with the job overrides database.        *)
(*                                                                         *)
(* Several launchctl processes run at once; each may be an interactive    *)
(* session (main's readline loop) that runs several commands in one       *)
(* process, so the globals g_job_overrides_db and                          *)
(* g_job_overrides_db_has_changed live from one command to the next.      *)
(* The database file is shared and guarded by open(O_EXLOCK); launchd's   *)
(* set of loaded labels is shared through SubmitJob and RemoveJob.        *)
(***************************************************************************)
EXTENDS Naturals, FiniteSets

CONSTANTS
  Procs,          \* launchctl processes (model values)
  Files,          \* property-list files named on command lines (model values)
  LabelOf,        \* the Label key of each file
  FileDisabled,   \* the Disabled key each file carries: "None", "True", "False"
  BonjourFiles,   \* files with a socket whose Bonjour key is set
  DubiousFiles,   \* files path_goodness_check rejects without -F
  ExcludedFiles,  \* files skipped by the host, hardware or session filters
  MaxCmds,        \* per process: the commands it runs (2 or more: a session)
  OpenMayFail     \* processes whose open() of the database can fail (a
                  \* user without write access to its directory)

Labels == {LabelOf[f] : f \in Files}

\* An override entry's Disabled key: absent, true or false.
DisabledVals == {"None", "True", "False"}

CONSTANT NoProc  \* no process holds the lock (a model value)

ASSUME /\ LabelOf \in [Files -> Labels]
       /\ FileDisabled \in [Files -> DisabledVals]
       /\ BonjourFiles \cup DubiousFiles \cup ExcludedFiles \subseteq Files
       /\ MaxCmds \in [Procs -> Nat]
       /\ OpenMayFail \subseteq Procs
       /\ \A f, g \in Files : LabelOf[f] = LabelOf[g] => f = g

\* A command line: load or unload, -w, -F, and the paths.
Cmds == [load : BOOLEAN, editondisk : BOOLEAN, forceload : BOOLEAN,
         paths : SUBSET Files \ {{}}]

NoCmd == [load |-> FALSE, editondisk |-> FALSE, forceload |-> FALSE, paths |-> {}]

Pcs == {"Idle", "Open", "Read", "Pass1", "Pass2", "Unload", "Finish", "Exited"}

VARIABLES
  pc,          \* per process: where it is in load_and_unload_cmd
  cmd,         \* per process: the command being run
  ncmds,       \* per process: commands started
  lockedBy,    \* the process whose descriptor holds the O_EXLOCK, or NoProc
  dbfd,        \* per process: the database descriptor of this command is open
  hasdb,       \* per process: g_job_overrides_db is not NULL
  mem,         \* per process: g_job_overrides_db (label -> Disabled)
  changed,     \* per process: g_job_overrides_db_has_changed
  pass1,       \* per process: lus.pass1
  pass2,       \* per process: lus.pass2
  plist,       \* the Disabled key of each file on disk
  dbDisk,      \* the overrides database file (label -> Disabled)
  loaded,      \* labels of the jobs launchd has loaded
  lastEdit     \* history: the last Disabled value a command set per label

vars == <<pc, cmd, ncmds, lockedBy, dbfd, hasdb, mem, changed, pass1, pass2,
          plist, dbDisk, loaded, lastEdit>>

Init ==
  /\ pc = [p \in Procs |-> "Idle"]
  /\ cmd = [p \in Procs |-> NoCmd]
  /\ ncmds = [p \in Procs |-> 0]
  /\ lockedBy = NoProc
  /\ dbfd = [p \in Procs |-> FALSE]
  /\ hasdb = [p \in Procs |-> FALSE]
  /\ mem = [p \in Procs |-> [l \in Labels |-> "None"]]
  /\ changed = [p \in Procs |-> FALSE]
  /\ pass1 = [p \in Procs |-> {}]
  /\ pass2 = [p \in Procs |-> {}]
  /\ plist = FileDisabled
  /\ dbDisk = [l \in Labels |-> "None"]
  /\ loaded = {}
  /\ lastEdit = [l \in Labels |-> "None"]

----------------------------------------------------------------------------
(* readpath and readfile over the paths of a command.                      *)

\* path_goodness_check: -F accepts a file with dubious permissions.
Goodness(c, f) == f \notin DubiousFiles \/ c.forceload

\* The files read_plist_file is called on.
ReadSet(c) == {f \in c.paths : Goodness(c, f)}

\* The Disabled value -w writes: into the database entry, or into the file
\* itself when there is no database (where load removes the key).
EditVal(c) == IF c.load THEN "False" ELSE "True"
FileEditVal(c) == IF c.load THEN "None" ELSE "True"

\* read_plist_file: the Disabled key of the description readfile sees:
\* the file's, replaced by the database entry's, replaced by the -w edit.
Disabled(p, c, f) ==
  LET l == LabelOf[f]
  IN  IF c.editondisk /\ hasdb[p] THEN EditVal(c)
      ELSE IF c.editondisk THEN FileEditVal(c)
      ELSE IF hasdb[p] /\ mem[p][l] # "None" THEN mem[p][l]
      ELSE plist[f]

\* readfile: the files that are not skipped (host, hardware and session
\* filters; Disabled, which -F overrides, only matters to load).
Selected(p, c) ==
  {f \in ReadSet(c) :
     /\ f \notin ExcludedFiles
     /\ ~(c.load /\ ~c.forceload /\ Disabled(p, c, f) = "True")}

\* delay_to_second_pass: jobs with a Bonjour socket go to pass 2.
IsPass2(f) == f \in BonjourFiles

\* read_plist_file with -w and g_job_overrides_db NULL edits the file itself.
EditsFile(p, c) == c.editondisk /\ ~hasdb[p]

LabelsOf(fs) == {LabelOf[f] : f \in fs}

----------------------------------------------------------------------------
(* load_and_unload_cmd, one step per point where another process or        *)
(* launchd can interleave.                                                 *)

\* demux_cmd starts a command (main's readline loop or its arguments).
Begin(p, c) ==
  /\ pc[p] = "Idle"
  /\ ncmds[p] < MaxCmds[p]
  /\ pc' = [pc EXCEPT ![p] = "Open"]
  /\ cmd' = [cmd EXCEPT ![p] = c]
  /\ ncmds' = [ncmds EXCEPT ![p] = @ + 1]
  /\ pass1' = [pass1 EXCEPT ![p] = {}]
  /\ pass2' = [pass2 EXCEPT ![p] = {}]
  /\ UNCHANGED <<lockedBy, dbfd, hasdb, mem, changed, plist, dbDisk,
                 loaded, lastEdit>>

\* Defect: the database is opened without O_EXLOCK.
OpenDB_noLock(p) ==
  /\ pc[p] = "Open"
  /\ lockedBy' = p
  /\ dbfd' = [dbfd EXCEPT ![p] = TRUE]
  /\ hasdb' = [hasdb EXCEPT ![p] = TRUE]
  /\ mem' = [mem EXCEPT ![p] = dbDisk]
  /\ pc' = [pc EXCEPT ![p] = "Read"]
  /\ UNCHANGED <<cmd, ncmds, changed, pass1, pass2, plist, dbDisk, loaded,
                 lastEdit>>

\* open(db, O_RDONLY | O_EXLOCK | O_CREAT) blocks until no descriptor
\* holds the lock, then CreateMyPropertyListFromFile reads the database.
OpenDB(p) ==
  /\ pc[p] = "Open"
  /\ lockedBy = NoProc
  /\ lockedBy' = p
  /\ dbfd' = [dbfd EXCEPT ![p] = TRUE]
  /\ hasdb' = [hasdb EXCEPT ![p] = TRUE]
  /\ mem' = [mem EXCEPT ![p] = dbDisk]
  /\ pc' = [pc EXCEPT ![p] = "Read"]
  /\ UNCHANGED <<cmd, ncmds, changed, pass1, pass2, plist, dbDisk, loaded,
                 lastEdit>>

\* open() fails: dbfd is -1 and g_job_overrides_db keeps whatever an
\* earlier command of this process left in it.
OpenDBFails(p) ==
  /\ p \in OpenMayFail
  /\ pc[p] = "Open"
  /\ dbfd' = [dbfd EXCEPT ![p] = FALSE]
  /\ pc' = [pc EXCEPT ![p] = "Read"]
  /\ UNCHANGED <<cmd, ncmds, lockedBy, hasdb, mem, changed, pass1, pass2,
                 plist, dbDisk, loaded, lastEdit>>

\* readpath on every path: read_plist_file applies the overrides and the
\* -w edit, readfile filters and routes.  Nothing selected: "nothing
\* found", return without closing dbfd.
ReadFiles(p) ==
  /\ pc[p] = "Read"
  /\ LET c   == cmd[p]
         rd  == ReadSet(c)
         sel == Selected(p, c)
         dbEdit   == c.editondisk /\ hasdb[p] /\ rd # {}
         fileEdit == EditsFile(p, c)
     IN  /\ pass1' = [pass1 EXCEPT ![p] = {f \in sel : ~IsPass2(f)}]
         /\ pass2' = [pass2 EXCEPT ![p] = {f \in sel : IsPass2(f)}]
         /\ mem' = IF dbEdit
                   THEN [mem EXCEPT ![p] = [l \in Labels |->
                           IF l \in LabelsOf(rd) THEN EditVal(c) ELSE @[l]]]
                   ELSE mem
         /\ changed' = IF dbEdit THEN [changed EXCEPT ![p] = TRUE] ELSE changed
         /\ plist' = IF fileEdit
                     THEN [f \in Files |-> IF f \in rd THEN FileEditVal(c) ELSE plist[f]]
                     ELSE plist
         /\ lastEdit' = IF c.editondisk
                        THEN [l \in Labels |-> IF l \in LabelsOf(rd)
                                                THEN EditVal(c) ELSE lastEdit[l]]
                        ELSE lastEdit
         /\ pc' = [pc EXCEPT ![p] = IF sel = {} THEN "Idle"
                                    ELSE IF c.load THEN "Pass1" ELSE "Unload"]
  /\ UNCHANGED <<cmd, ncmds, lockedBy, dbfd, hasdb, dbDisk, loaded>>

\* distill_jobs and submit_job_pass for pass 1: one SubmitJob request;
\* launchd answers EEXIST for a label it has.
SubmitPass1(p) ==
  /\ pc[p] = "Pass1"
  /\ loaded' = loaded \cup LabelsOf(pass1[p])
  /\ pc' = [pc EXCEPT ![p] = "Pass2"]
  /\ UNCHANGED <<cmd, ncmds, lockedBy, dbfd, hasdb, mem, changed, pass1,
                 pass2, plist, dbDisk, lastEdit>>

\* Pass 2 runs only after pass 1 has returned.
SubmitPass2(p) ==
  /\ pc[p] = "Pass2"
  /\ loaded' = loaded \cup LabelsOf(pass2[p])
  /\ pc' = [pc EXCEPT ![p] = "Finish"]
  /\ UNCHANGED <<cmd, ncmds, lockedBy, dbfd, hasdb, mem, changed, pass1,
                 pass2, plist, dbDisk, lastEdit>>

\* unloadjob for every selected job of both passes.
Unload(p) ==
  /\ pc[p] = "Unload"
  /\ loaded' = loaded \ LabelsOf(pass1[p] \cup pass2[p])
  /\ pc' = [pc EXCEPT ![p] = "Finish"]
  /\ UNCHANGED <<cmd, ncmds, lockedBy, dbfd, hasdb, mem, changed, pass1,
                 pass2, plist, dbDisk, lastEdit>>

\* Write the database if g_job_overrides_db_has_changed, then
\* flock(LOCK_UN) and close(dbfd).  The write opens the file by name: it
\* succeeds where open(O_EXLOCK) did, and may or may not where that failed
\* (then without the lock).
Finish(p) ==
  /\ pc[p] = "Finish"
  /\ IF changed[p]
     THEN \E ok \in IF dbfd[p] THEN {TRUE} ELSE BOOLEAN :
            dbDisk' = IF ok THEN mem[p] ELSE dbDisk
     ELSE UNCHANGED dbDisk
  /\ lockedBy' = IF dbfd[p] THEN NoProc ELSE lockedBy
  /\ dbfd' = [dbfd EXCEPT ![p] = FALSE]
  /\ pc' = [pc EXCEPT ![p] = "Idle"]
  /\ UNCHANGED <<cmd, ncmds, hasdb, mem, changed, pass1, pass2, plist,
                 loaded, lastEdit>>

\* The session ends (readline returns NULL, or the single command of the
\* command line returned): exit() closes every descriptor, leaked ones too.
Exit(p) ==
  /\ pc[p] = "Idle"
  /\ pc' = [pc EXCEPT ![p] = "Exited"]
  /\ lockedBy' = IF lockedBy = p THEN NoProc ELSE lockedBy
  /\ dbfd' = [dbfd EXCEPT ![p] = FALSE]
  /\ UNCHANGED <<cmd, ncmds, hasdb, mem, changed, pass1, pass2, plist,
                 dbDisk, loaded, lastEdit>>

Next ==
  \E p \in Procs :
    \/ \E c \in Cmds : Begin(p, c)
    \/ Exit(p)
    \/ OpenDB(p) \/ OpenDBFails(p) \/ ReadFiles(p)
    \/ SubmitPass1(p) \/ SubmitPass2(p) \/ Unload(p) \/ Finish(p)

Spec == Init /\ [][Next]_vars

----------------------------------------------------------------------------
(* Properties.                                                             *)

\* Whether launchd would find the job disabled: the database entry's
\* Disabled key if it has one, else the file's.
IsDisabled(f) ==
  LET l == LabelOf[f]
  IN  (IF dbDisk[l] # "None" THEN dbDisk[l] ELSE plist[f]) = "True"

\* Spec 4.F step 3, which flips Disabled before the exclusion filters of
\* step 5, and the comment in load_and_unload_cmd ("we'll fall back to
\* writing to the plist file directly"): once no launchctl holds the
\* database lock, the last -w edit of every job is what a later load sees
\* (unload -w disables it, load -w enables it), whether or not readfile
\* then excluded the job.
EditOnDiskTakesEffect ==
  lockedBy = NoProc =>
    \A f \in Files :
      lastEdit[LabelOf[f]] # "None" =>
        (IsDisabled(f) <=> lastEdit[LabelOf[f]] = "True")

\* Spec 6.4: the database is locked "during load/unload": a launchctl
\* process between commands holds no lock on it.
LockReleasedWhenIdle ==
  \A p \in Procs : pc[p] \in {"Idle", "Exited"} => lockedBy # p

----------------------------------------------------------------------------
(* Refinement: load_and_unload_cmd's database updates implement           *)
(* OverridesDB.                                                            *)

\* The -w edits of a process's current command: the labels of the files
\* it reads, set to what load (false) or unload (true) writes.
CmdEdits(p) ==
  IF cmd[p].editondisk
  THEN [labels |-> LabelsOf(ReadSet(cmd[p])), val |-> EditVal(cmd[p])]
  ELSE [labels |-> {}, val |-> "None"]

DB == INSTANCE OverridesDB
        WITH Vals <- DisabledVals, db <- dbDisk, edits <- [p \in Procs |-> CmdEdits(p)]

\* With open(O_EXLOCK) held from CreateMyPropertyListFromFile to
\* WriteMyPropertyListToFile, the database file behaves as OverridesDB:
\* every write of it is the writer's own -w edits applied to the file as
\* it then is, so no launchctl's edit is lost to another's stale copy.
OverridesSpec == DB!Spec

================================================================================
