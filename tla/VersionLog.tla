----------------------------- MODULE VersionLog -----------------------------
(***************************************************************************)
(* What the config store promises to whoever keeps a (config, version)     *)
(* pair, a share link above all: every config has an append-only log of    *)
(* versions 1..n, and current_version is NULL while the log is empty and   *)
(* points into it afterwards.                                              *)
(***************************************************************************)
EXTENDS Integers

CONSTANTS Configs, MaxVersion

VARIABLES
  log,         \* log[c]: the version numbers of c, a set 1..n
  head         \* current_version, 0 for NULL

logVars == <<log, head>>

LogInit ==
  /\ log  = [c \in Configs |-> {}]
  /\ head = [c \in Configs |-> 0]

\* A worker adds version v, the next one, and makes it the current one.
Append(c, v) ==
  /\ v \notin log[c]
  /\ log[c] = 1..(v - 1)
  /\ log'  = [log  EXCEPT ![c] = @ \cup {v}]
  /\ head' = [head EXCEPT ![c] = v]

\* A worker makes a version that exists the current one.
Repoint(c, v) ==
  /\ v \in log[c]
  /\ head' = [head EXCEPT ![c] = v]
  /\ UNCHANGED log

LogNext ==
  \E c \in Configs, v \in 1..MaxVersion : Append(c, v) \/ Repoint(c, v)

LogSpec == LogInit /\ [][LogNext]_logVars

=============================================================================
