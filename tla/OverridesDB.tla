----------------------------- MODULE OverridesDB -----------------------------
(***************************************************************************)
(* What the job overrides database promises to concurrent launchctl       *)
(* commands (spec 6.4, locked during load/unload): each command has a set *)
(* of -w edits (the labels it names and the Disabled value it sets), and  *)
(* the file changes only by one command's edits applied, at once, to the *)
(* file as it is then: no command's edit is undone by another's write.   *)
(***************************************************************************)
CONSTANTS
  Procs,   \* launchctl processes
  Labels,  \* job labels
  Vals     \* Disabled values an entry may hold

\* A command's -w edits: the labels it sets and the value it sets them to.
Edits == [labels : SUBSET Labels, val : Vals]

VARIABLES
  db,      \* the database file: label -> Disabled
  edits    \* per process: the edits of its current command

Apply(d, e) == [l \in Labels |-> IF l \in e.labels THEN e.val ELSE d[l]]

Init ==
  /\ db \in [Labels -> Vals]
  /\ edits \in [Procs -> Edits]

\* A process starts a command with its own edits.
Plan(p) ==
  /\ \E e \in Edits : edits' = [edits EXCEPT ![p] = e]
  /\ UNCHANGED db

\* A process's edits reach the file, on top of what the file holds.
Commit(p) ==
  /\ db' = Apply(db, edits[p])
  /\ UNCHANGED edits

Next == \E p \in Procs : Plan(p) \/ Commit(p)

Spec == Init /\ [][Next]_<<db, edits>>

================================================================================
