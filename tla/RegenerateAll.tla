---------------------------- MODULE RegenerateAll ----------------------------
(***************************************************************************)
(* POST /configs/regenerate-all (application/regenerate_all_configs.py):   *)
(* one request walks over the pages of list_active and regenerates what it *)
(* finds, while other requests create, regenerate and delete configs and   *)
(* workers build them.  A config is a number, in the order of created_at;  *)
(* what a worker or another request does takes one step here, and what     *)
(* goes wrong within it is ConfigWorker's and ConfigApi's.                 *)
(***************************************************************************)
EXTENDS Integers, FiniteSets, FiniteSetsExt

CONSTANTS
  Limit,         \* configs on a page
  MaxConfigs, MaxDeletes    \* bounds: configs ever created, deletes

ASSUME RegenerateAllAssumption ==
  Limit \in Nat \ {0} /\ MaxConfigs \in Nat /\ MaxDeletes \in Nat

Configs == 1..MaxConfigs

VARIABLES
  status,        \* "unbuilt" has no version; with one, "pending" is pending or
                 \* processing, "ready" active or failed; "deleted" is is_active false
  tasks,         \* how many tasks the config has in the broker
  pc, total, offset, size,    \* of the walk: count, first and length of the page
  page,          \* what is still to do of it: the newest has its turn next
  queued,        \* how often the walk has queued a config
  skipped,       \* the configs it has skipped
  there,         \* the configs that are listed ever since the walk began
  created, deleted    \* how many were since then

dbVars   == <<status, tasks>>
walkVars == <<pc, total, offset, size, page, queued, skipped>>
logVars  == <<there, created, deleted>>
vars     == <<dbVars, walkVars, logVars>>

Statuses == {"absent", "unbuilt", "pending", "ready", "deleted"}

Listed == {c \in Configs : status[c] \notin {"absent", "deleted"}}

Init ==
  /\ \E n \in Configs :
       status \in {s \in [Configs -> {"absent", "ready", "unbuilt"}] :
                     \A c \in Configs : s[c] = "absent" <=> c > n}
  /\ tasks = [c \in Configs |-> 0]
  /\ pc = "count" /\ total = 0 /\ offset = 0 /\ size = 0 /\ page = {}
  /\ queued = [c \in Configs |-> 0] /\ skipped = {}
  /\ there = Listed /\ created = 0 /\ deleted = 0

----------------------------------------------------------------------------
(* Others                                                                   *)

\* POST /configs: the newest config, with a task.
Create ==
  /\ \E c \in Configs :
       /\ \A d \in Configs : status[d] = "absent" <=> d >= c
       /\ status' = [status EXCEPT ![c] = "unbuilt"]
       /\ tasks'  = [tasks  EXCEPT ![c] = 1]
  /\ created' = created + 1
  /\ UNCHANGED <<walkVars, there, deleted>>

\* POST /configs/{id}/regenerate by another client.
Regenerate ==
  /\ \E c \in Configs :
       /\ status[c] = "ready"
       /\ status' = [status EXCEPT ![c] = "pending"]
       /\ tasks'  = [tasks  EXCEPT ![c] = @ + 1]
  /\ UNCHANGED <<walkVars, logVars>>

\* DELETE of a config; its tasks, if it has any, stay.
Delete ==
  /\ deleted < MaxDeletes /\ deleted' = deleted + 1
  /\ \E c \in Listed :
       /\ status' = [status EXCEPT ![c] = "deleted"]
       /\ there' = there \ {c}
  /\ UNCHANGED <<tasks, walkVars, created>>

\* What a task leaves the config in, whether it builds a version, finds it
\* built, or is given up after the last retry.
Outcomes(s) ==
  CASE s = "unbuilt" -> {"unbuilt", "ready"}
    [] s = "pending" -> {"ready"}
    [] OTHER         -> {s}

\* A worker is done with a task.
Work ==
  /\ \E c \in Configs :
       /\ tasks[c] > 0 /\ tasks' = [tasks EXCEPT ![c] = @ - 1]
       /\ \E s \in Outcomes(status[c]) : status' = [status EXCEPT ![c] = s]
  /\ UNCHANGED <<walkVars, logVars>>

----------------------------------------------------------------------------
(* The walk                                                                 *)

\* list_active asks for the number of configs first ...
Count ==
  /\ pc = "count"
  /\ total' = Cardinality(Listed)
  /\ pc' = "select"
  /\ UNCHANGED <<dbVars, logVars, offset, size, page, queued, skipped>>

\* Where c is in the list, the newest first.
Rank(c) == Cardinality({d \in Listed : d > c})

\* Mutant: the LIMIT is forgotten.
Select_NoLimit ==
  /\ pc = "select"
  /\ page' = {c \in Listed : offset <= Rank(c)}
  /\ size' = Cardinality(page')
  /\ pc' = "turn"
  /\ UNCHANGED <<dbVars, logVars, total, offset, queued, skipped>>

\* ... then for a page of them, from the offset on.
Select ==
  /\ pc = "select"
  /\ page' = {c \in Listed : offset <= Rank(c) /\ Rank(c) < offset + Limit}
  /\ size' = Cardinality(page')
  /\ pc' = "turn"
  /\ UNCHANGED <<dbVars, logVars, total, offset, queued, skipped>>

\* The config whose turn it is.
Turn == Max(page)

\* RegenerateConfigUseCase refuses: no version, or busy.  prepare_regenerate
\* looks again, and refuses a config deleted meanwhile as well.
Skip ==
  /\ \/ pc = "turn" /\ page # {} /\ status[Turn] \notin {"ready", "deleted"}
     \/ pc = "prepare" /\ status[Turn] # "ready"
  /\ skipped' = skipped \cup {Turn}
  /\ page' = page \ {Turn}
  /\ pc' = "turn"
  /\ UNCHANGED <<dbVars, logVars, total, offset, size, queued>>

\* get_by_id does not find the config, or get_regenerate_context does not find
\* it any more: neither exception is caught, and the request ends.
NotFound ==
  /\ \/ pc = "turn" /\ page # {}
     \/ pc = "commit"
  /\ status[Turn] = "deleted"
  /\ pc' = "aborted"
  /\ UNCHANGED <<dbVars, logVars, total, offset, size, page, queued, skipped>>

\* The checks of execute, then those of prepare_regenerate, on what each reads.
Check ==
  /\ \/ pc = "turn" /\ page # {} /\ pc' = "prepare"
     \/ pc = "prepare" /\ pc' = "commit"
  /\ status[Turn] = "ready"
  /\ UNCHANGED <<dbVars, logVars, total, offset, size, page, queued, skipped>>

\* The change is flushed and committed, whatever the config is by then ...
Prepare ==
  /\ pc = "commit" /\ status[Turn] # "deleted"
  /\ status' = [status EXCEPT ![Turn] = "pending"]
  /\ pc' = "publish"
  /\ UNCHANGED <<tasks, logVars, total, offset, size, page, queued, skipped>>

\* Mutant: a broker error is one more reason to skip a config.
Publish_GoesOn ==
  /\ pc = "publish"
  /\ \/ /\ tasks'  = [tasks  EXCEPT ![Turn] = @ + 1]
        /\ queued' = [queued EXCEPT ![Turn] = @ + 1]
     \/ UNCHANGED <<tasks, queued>>
  /\ page' = page \ {Turn}
  /\ pc' = "turn"
  /\ UNCHANGED <<status, logVars, total, offset, size, skipped>>

\* ... and the task is published.  The request ends there when the broker's
\* answer is lost, or set_last_task_id does not find the config.
Publish ==
  /\ pc = "publish"
  /\ tasks'  = [tasks  EXCEPT ![Turn] = @ + 1]
  /\ queued' = [queued EXCEPT ![Turn] = @ + 1]
  /\ page' = page \ {Turn}
  /\ pc' \in {"turn", "aborted"} /\ (status[Turn] = "deleted" => pc' = "aborted")
  /\ UNCHANGED <<status, logVars, total, offset, size, skipped>>

\* Mutant: the walk ends at an empty page only.
NextPage_UntilTotal ==
  /\ pc = "turn" /\ page = {}
  /\ IF offset > total
       THEN pc' = "done" /\ UNCHANGED offset
       ELSE pc' = "count" /\ offset' = offset + size
  /\ UNCHANGED <<dbVars, logVars, total, size, page, queued, skipped>>

\* Mutant: one config too early.
NextPage_OneShort ==
  /\ pc = "turn" /\ page = {}
  /\ IF offset + size + 1 >= total
       THEN pc' = "done" /\ UNCHANGED offset
       ELSE pc' = "count" /\ offset' = offset + size
  /\ UNCHANGED <<dbVars, logVars, total, size, page, queued, skipped>>

\* Mutant: the same page once more.
NextPage_SamePage ==
  /\ pc = "turn" /\ page = {}
  /\ IF offset + size >= total THEN pc' = "done" ELSE pc' = "count"
  /\ UNCHANGED <<dbVars, logVars, total, offset, size, page, queued, skipped>>

\* The page is done; it was the last by the count, or the next one follows.
NextPage ==
  /\ pc = "turn" /\ page = {}
  /\ IF offset + size >= total
       THEN pc' = "done" /\ UNCHANGED offset
       ELSE pc' = "count" /\ offset' = offset + size
  /\ UNCHANGED <<dbVars, logVars, total, size, page, queued, skipped>>

Walk == Count \/ Select \/ Skip \/ NotFound \/ Check \/ Prepare \/ Publish \/ NextPage

Ended == pc \in {"done", "aborted"}

\* The database or the broker fails, or the process ends; what is not committed
\* is rolled back.
Dies ==
  /\ ~Ended /\ pc' = "aborted"
  /\ UNCHANGED <<dbVars, logVars, total, offset, size, page, queued, skipped>>

\* What happens after its end is none of the walk's.
Next == Walk \/ Dies \/ (~Ended /\ (Create \/ Regenerate \/ Delete \/ Work))

Spec == Init /\ [][Next]_vars

\* The request's coroutine runs on.
FairSpec == Spec /\ WF_vars(Walk)

----------------------------------------------------------------------------

\* Every variable holds what the code can store in it; only a config that is
\* there has been queued or skipped.
WalkTypeOK ==
  /\ status \in [Configs -> Statuses] /\ tasks \in [Configs -> Nat]
  /\ pc \in {"count", "select", "turn", "prepare", "commit", "publish", "done", "aborted"}
  /\ offset \in 0..MaxConfigs /\ size \in 0..Limit /\ Cardinality(page) <= size
  /\ \A c \in Configs : queued[c] > 0 \/ c \in skipped => status[c] # "absent"

\* The configs that were to be regenerated all the time and are not dealt with.
Missed == {c \in there : queued[c] = 0 /\ c \notin skipped}

\* A walk that ends well has dealt with every config that was there all the
\* time, but for as many as were created or deleted under it: the offsets move
\* with the list, and it is counted before it is read.
MissedByMovesOnly == pc = "done" => Cardinality(Missed) <= created + deleted

\* A config comes up twice only when the list has grown at its front.
QueuedTwiceByCreatesOnly ==
  \A c \in Configs : queued[c] <= 1 + created

\* However the request ends, it leaves no config pending without a task but the
\* one it was about to publish for.
StrandedAtMostOne ==
  Cardinality({c \in Configs : status[c] = "pending" /\ tasks[c] = 0}) <=
    (IF pc \in {"publish", "aborted"} THEN 1 ELSE 0)

\* The request ends, although the list it walks over grows and shrinks.
WalkEnds == <>Ended

----------------------------------------------------------------------------
(* What the bounds on what is missed and repeated rest on                   *)

\* How far the walk has come: the places before are those it has been given.
Covered == IF pc \in {"count", "select"} THEN offset ELSE offset + size

\* The walk's own variables go together.
WalkIsInOrder ==
  /\ total \in 0..MaxConfigs /\ created \in Nat /\ deleted \in Nat
  /\ queued \in [Configs -> Nat]
  /\ page \subseteq Configs /\ \A c \in page : status[c] # "absent"
  /\ there \subseteq Listed
  /\ pc \in {"count", "select", "done"} => page = {}
  /\ pc \in {"prepare", "commit", "publish"} => page # {}
  /\ pc = "done" => offset + size >= total

\* Since the count the list has grown by what was created at the most.
ListGrowsByCreates == pc \notin {"count", "aborted"} => Cardinality(Listed) <= total + created

\* A config slips past the walk by a delete in front of it, one at a time.
PassedBy == {c \in Missed \ page : Rank(c) < Covered}

PassedByDeletes == pc # "aborted" => Cardinality(PassedBy) <= deleted

\* Each time a config is given to the walk again, a create has moved it there;
\* what it has been moved beyond the walk counts as well.
Given(c) == queued[c] + (IF c \in page THEN 1 ELSE 0)

RepeatedByCreates ==
  \A c \in Configs : Given(c) > 0 =>
    Given(c) <= 1 + created /\ Given(c) + Rank(c) <= created + Covered

\* The inductive invariant.
WalkInv ==
  WalkTypeOK /\ WalkIsInOrder /\ ListGrowsByCreates /\ PassedByDeletes /\ RepeatedByCreates

=============================================================================
