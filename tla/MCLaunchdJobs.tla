---------------------------- MODULE MCLaunchdJobs ----------------------------
(***************************************************************************)
(* Model values and job descriptions for checking LaunchdJobs with TLC.    *)
(***************************************************************************)
EXTENDS LaunchdJobs

CONSTANTS l1, l2, c1

\* A socket- and queue-activated ServiceIPC daemon, the shape of an
\* inetd-style service: OnDemand, no RunAtLoad.
DemandDesc ==
  [label |-> l1, ondemand |-> TRUE, sipc |-> TRUE, runatload |-> FALSE,
   triggers |-> {"Sockets", "QueueDirectories"}]

\* A KeepAlive agent with a watch path and a StartInterval timer.
KeepAliveDesc ==
  [label |-> l2, ondemand |-> FALSE, sipc |-> FALSE, runatload |-> FALSE,
   triggers |-> {"WatchPaths", "StartInterval"}]

\* A KeepAlive agent with no trigger at all: only job_start restarts it.
PlainDesc ==
  [label |-> l2, ondemand |-> FALSE, sipc |-> FALSE, runatload |-> FALSE,
   triggers |-> {}]

MCLabels == {l1, l2}
MCDescs == {DemandDesc, KeepAliveDesc}
MCDemandDescs == {DemandDesc}
MCKeepAliveDescs == {KeepAliveDesc}
MCPlainDescs == {PlainDesc}
\* Either the OnDemand job or the KeepAlive job without triggers is loaded.
MCLivenessDescs == {DemandDesc, PlainDesc}
====
