--------------------------- MODULE MCLaunchctlLoad ---------------------------
(***************************************************************************)
(* Two job files for checking LaunchctlLoad: a plain daemon, and one with *)
(* a Bonjour socket whose file is group-writable and carries Disabled.    *)
(***************************************************************************)
EXTENDS LaunchctlLoad

CONSTANTS p1, p2, f1, f2, la, lb

MCLabelOf == [f \in {f1, f2} |-> IF f = f1 THEN la ELSE lb]
MCFileDisabled == [f \in {f1, f2} |-> IF f = f1 THEN "None" ELSE "True"]

\* p1 runs an interactive session of two commands, p2 a single command
\* whose open of the database may fail.
MCSessionAndOne == [p \in {p1, p2} |-> IF p = p1 THEN 2 ELSE 1]

\* A session of p1 alone (the lock leak needs nothing else).
MCSessionCmds == [p \in {p1} |-> 2]

\* p1 runs a single command.
MCOneCmd == [p \in {p1} |-> 1]
====
