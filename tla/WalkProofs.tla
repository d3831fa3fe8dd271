----------------------------- MODULE WalkProofs -----------------------------
(***************************************************************************)
(* RegenerateAll for pages of any length and any number of configs: what   *)
(* the request leaves pending without a task when it ends, however it      *)
(* ends; how many configs it misses, and how often it meets one again,     *)
(* while others create and delete.                                         *)
(***************************************************************************)
EXTENDS RegenerateAll, NumberSets

USE RegenerateAllAssumption

\* One of the numbers of a function is counted up.
LEMMA CountUp ==
  ASSUME NEW f \in [Configs -> Nat], NEW x
  PROVE  /\ [f EXCEPT ![x] = @ + 1] \in [Configs -> Nat]
         /\ \A c \in Configs : [f EXCEPT ![x] = @ + 1][c] = 0 => f[c] = 0 /\ c # x
<1>1. CASE x \in Configs
  BY <1>1
<1>2. CASE x \notin Configs
  <2>1. [f EXCEPT ![x] = @ + 1] = f
    BY <1>2
  <2> QED
    BY <1>2, <2>1
<1> QED
  BY <1>1, <1>2

\* A config without a task is pending only between its commit and its publish,
\* and the walk has it at the head of the page then.
StrandedIsHead ==
  /\ status \in [Configs -> Statuses] /\ tasks \in [Configs -> Nat]
  /\ \A c \in Configs : status[c] = "pending" /\ tasks[c] = 0 =>
       pc \in {"publish", "aborted"} /\ c = Turn

\* No config is pending as the walk begins.
LEMMA StrandedInit == Init => StrandedIsHead
<1> SUFFICES ASSUME Init PROVE StrandedIsHead
  OBVIOUS
<1>1. PICK n \in Configs :
        status \in {s \in [Configs -> {"absent", "ready", "unbuilt"}] :
                      \A c \in Configs : s[c] = "absent" <=> c > n}
  BY DEF Init
<1>2. status \in [Configs -> {"absent", "ready", "unbuilt"}]
  BY <1>1
<1> QED
  BY <1>2 DEF Init, StrandedIsHead, Statuses

\* Prepare makes one pending, and the next step publishes for it or ends the walk.
LEMMA StrandedStep == StrandedIsHead /\ [Next]_vars => StrandedIsHead'
<1> SUFFICES ASSUME StrandedIsHead, [Next]_vars PROVE StrandedIsHead'
  OBVIOUS
<1> USE DEF StrandedIsHead, Statuses, Turn
<1>1. CASE Create
  <2>1. PICK c \in Configs : /\ status' = [status EXCEPT ![c] = "unbuilt"]
                             /\ tasks'  = [tasks  EXCEPT ![c] = 1]
    BY <1>1 DEF Create
  <2> QED
    BY <1>1, <2>1 DEF Create, walkVars
<1>2. CASE Delete
  <2>1. PICK c \in Listed : status' = [status EXCEPT ![c] = "deleted"]
    BY <1>2 DEF Delete
  <2> QED
    BY <1>2, <2>1 DEF Delete, walkVars
<1>3. CASE Work
  <2>1. PICK c \in Configs :
          /\ tasks[c] > 0 /\ tasks' = [tasks EXCEPT ![c] = @ - 1]
          /\ \E s \in Outcomes(status[c]) : status' = [status EXCEPT ![c] = s]
    BY <1>3 DEF Work
  <2>2. PICK s \in Statuses \ {"pending"} : status' = [status EXCEPT ![c] = s]
    BY <2>1 DEF Outcomes
  <2> QED
    BY <1>3, <2>1, <2>2 DEF Work, walkVars
<1>4. CASE Prepare
  BY <1>4 DEF Prepare
<1>5. CASE Publish
  <2>1. status' = status /\ tasks' = [tasks EXCEPT ![Turn] = @ + 1]
    BY <1>5 DEF Publish
  <2>2. tasks' \in [Configs -> Nat] /\ \A c \in Configs : tasks'[c] = 0 => tasks[c] = 0 /\ c # Turn
    <3> HIDE DEF Turn
    <3> QED
      BY <2>1, CountUp, Zenon
  <2> QED
    BY <2>1, <2>2
<1>6. CASE Skip \/ Count \/ Select \/ NotFound \/ Check \/ NextPage \/ Dies \/ UNCHANGED vars
  BY <1>6 DEF Count, Select, Skip, NotFound, Check, NextPage, Dies, Ended, vars, dbVars, walkVars
<1>7. CASE Regenerate
  <2>1. PICK c \in Configs : /\ status' = [status EXCEPT ![c] = "pending"]
                             /\ tasks'  = [tasks  EXCEPT ![c] = @ + 1]
    BY <1>7 DEF Regenerate
  <2> QED
    BY <1>7, <2>1 DEF Regenerate, walkVars
<1> QED
  BY <1>1, <1>2, <1>3, <1>4, <1>5, <1>6, <1>7 DEF Next, Walk

\* However many configs there are and move, a request that ends midway leaves
\* at most one of them pending without a task (regenerate_all_configs.py:64).
THEOREM StrandsOne == Spec => []StrandedAtMostOne
<1>1. StrandedIsHead => StrandedAtMostOne
  <2> SUFFICES ASSUME StrandedIsHead PROVE StrandedAtMostOne
    OBVIOUS
  <2> DEFINE S == {c \in Configs : status[c] = "pending" /\ tasks[c] = 0}
  <2>1. CASE S = {}
    <3>1. Cardinality(S) = 0
      BY <2>1, FS_EmptySet
    <3> QED
      BY <3>1 DEF StrandedAtMostOne
  <2>2. CASE S # {}
    <3>1. S = {Turn} /\ pc \in {"publish", "aborted"}
      BY <2>2 DEF StrandedIsHead
    <3>2. Cardinality(S) = 1
      BY <3>1, FS_Singleton
    <3> QED
      BY <3>1, <3>2 DEF StrandedAtMostOne
  <2> QED
    BY <2>1, <2>2
<1> QED
  BY <1>1, StrandedInit, StrandedStep, PTL DEF Spec

----------------------------------------------------------------------------
(* What every step needs                                                    *)

\* Sets of configs are finite sets of numbers.
LEMMA SubsetOfConfigs ==
  ASSUME NEW S \in SUBSET Configs
  PROVE  S \in SUBSET Nat /\ IsFiniteSet(S) /\ Cardinality(S) \in 0..MaxConfigs
<1>1. IsFiniteSet(Configs) /\ Cardinality(Configs) <= MaxConfigs /\ Cardinality(Configs) \in Nat
  <2>1. IsFiniteSet(Configs)
    BY FS_Interval DEF Configs
  <2>2. Cardinality(Configs) = IF 1 > MaxConfigs THEN 0 ELSE MaxConfigs - 1 + 1
    BY FS_Interval DEF Configs
  <2> QED
    BY <2>1, <2>2
<1>2. IsFiniteSet(S) /\ Cardinality(S) <= Cardinality(Configs) /\ Cardinality(S) \in Nat
  BY <1>1, FS_Subset, FS_CardinalityType
<1>3. S \in SUBSET Nat
  BY DEF Configs
<1> QED
  BY <1>1, <1>2, <1>3

\* The places are those of NumberSets, before a step and after it.
LEMMA RankIsPlace ==
  /\ \A c \in Configs : Rank(c) = Above(Listed, c) /\ Rank(c) \in Nat
  /\ \A c \in Configs : Rank(c)' = Above(Listed', c) /\ Rank(c)' \in Nat
<1>1. Listed \in SUBSET Configs /\ Listed' \in SUBSET Configs
  BY DEF Listed
<1>2. /\ \A c : Rank(c) = Above(Listed, c)
      /\ \A c : Rank(c)' = Above(Listed', c)
  BY DEF Rank, Above
<1> QED
  BY <1>1, <1>2, SubsetOfConfigs, AboveType

\* The config whose turn it is is the newest one left on the page.
LEMMA TurnIsOnPage ==
  ASSUME page \subseteq Configs, page # {}
  PROVE  Turn \in page
  BY SubsetOfConfigs, MaxOf DEF Turn

\* What others do to the list.
LEMMA CreateGrows ==
  ASSUME WalkInv, Create
  PROVE  \E x \in Configs :
           /\ x \notin Listed /\ Listed' = Listed \cup {x}
           /\ \A c \in Configs : status[c] # "absent" => c < x /\ status'[c] # "absent"
           /\ status' \in [Configs -> Statuses] /\ tasks' \in [Configs -> Nat]
<1>1. PICK x \in Configs : /\ \A d \in Configs : status[d] = "absent" <=> d >= x
                          /\ status' = [status EXCEPT ![x] = "unbuilt"]
                          /\ tasks'  = [tasks  EXCEPT ![x] = 1]
  BY DEF Create
<1>2. status \in [Configs -> Statuses] /\ tasks \in [Configs -> Nat]
  BY DEF WalkInv, WalkTypeOK
<1>3. \A c \in Configs : c \in Nat
  BY DEF Configs
<1>4. status[x] = "absent" /\ \A c \in Configs : status[c] # "absent" => c < x
  BY <1>1, <1>3
<1>5. Listed' = Listed \cup {x}
  BY <1>1, <1>2, <1>4 DEF Listed
<1> QED
  BY <1>1, <1>2, <1>4, <1>5 DEF Listed, Statuses

\* A delete takes one config off the list and adds none.
LEMMA DeleteShrinks ==
  ASSUME WalkInv, Delete
  PROVE  \E x \in Listed :
           /\ Listed' = Listed \ {x} /\ there' = there \ {x}
           /\ \A c \in Configs : status[c] # "absent" => status'[c] # "absent"
           /\ status' \in [Configs -> Statuses]
<1>1. PICK x \in Listed : status' = [status EXCEPT ![x] = "deleted"] /\ there' = there \ {x}
  BY DEF Delete
<1>2. status \in [Configs -> Statuses]
  BY DEF WalkInv, WalkTypeOK
<1>3. Listed' = Listed \ {x}
  BY <1>1, <1>2 DEF Listed
<1> QED
  BY <1>1, <1>2, <1>3 DEF Listed, Statuses

\* A build and a regenerate leave the list alone.
LEMMA ListStays ==
  ASSUME WalkInv, Next, ~ Create, ~ Delete
  PROVE  /\ Listed' = Listed /\ UNCHANGED logVars
         /\ \A c \in Configs : status[c] # "absent" => status'[c] # "absent"
         /\ status' \in [Configs -> Statuses] /\ tasks' \in [Configs -> Nat]
<1> USE DEF Listed, Statuses
<1>1. status \in [Configs -> Statuses] /\ tasks \in [Configs -> Nat] /\ page \subseteq Configs
  BY DEF WalkInv, WalkTypeOK, WalkIsInOrder
<1>2. CASE Work
  <2>1. PICK c \in Configs :
          /\ tasks[c] > 0 /\ tasks' = [tasks EXCEPT ![c] = @ - 1]
          /\ \E s \in Outcomes(status[c]) : status' = [status EXCEPT ![c] = s]
    BY <1>2 DEF Work
  <2>2. PICK s \in Statuses :
          /\ status' = [status EXCEPT ![c] = s]
          /\ s = "absent" <=> status[c] = "absent"
          /\ s = "deleted" <=> status[c] = "deleted"
    BY <1>1, <2>1 DEF Outcomes
  <2>3. Listed' = Listed
    BY <1>1, <2>2
  <2> QED
    BY <1>1, <1>2, <2>1, <2>2, <2>3 DEF Work
<1>3. CASE Prepare
  <2>1. Turn \in Configs /\ status[Turn] # "absent"
    BY <1>1, <1>3, TurnIsOnPage DEF Prepare, WalkInv, WalkIsInOrder
  <2> QED
    BY <1>1, <1>3, <2>1 DEF Prepare, logVars
<1>4. CASE Publish
  <2>1. status' = status /\ UNCHANGED logVars /\ tasks' = [tasks EXCEPT ![Turn] = @ + 1]
    BY <1>4 DEF Publish
  <2>2. tasks' \in [Configs -> Nat]
    BY <1>1, <2>1, CountUp, Zenon
  <2> QED
    BY <1>1, <2>1, <2>2
<1>5. CASE Count \/ Select \/ Skip \/ NotFound \/ Check \/ NextPage \/ Dies
  BY <1>1, <1>5 DEF Count, Select, Skip, NotFound, Check, NextPage, Dies, dbVars
<1>6. CASE Regenerate
  <2>1. PICK c \in Configs : /\ status[c] = "ready"
                             /\ status' = [status EXCEPT ![c] = "pending"]
                             /\ tasks'  = [tasks  EXCEPT ![c] = @ + 1]
    BY <1>6 DEF Regenerate
  <2> QED
    BY <1>1, <1>6, <2>1 DEF Regenerate
<1> QED
  BY <1>2, <1>3, <1>4, <1>5, <1>6 DEF Next, Walk

----------------------------------------------------------------------------
(* WalkInv is inductive                                                     *)

\* Nothing is counted, listed or queued.
LEMMA WalkInit == Init => WalkInv
<1> SUFFICES ASSUME Init PROVE WalkInv
  OBVIOUS
<1>1. status \in [Configs -> {"absent", "ready", "unbuilt"}]
  <2>1. PICK n \in Configs :
          status \in {s \in [Configs -> {"absent", "ready", "unbuilt"}] :
                        \A c \in Configs : s[c] = "absent" <=> c > n}
    BY DEF Init
  <2> QED
    BY <2>1
<1>2. /\ tasks = [c \in Configs |-> 0] /\ pc = "count" /\ total = 0 /\ offset = 0 /\ size = 0
      /\ page = {} /\ queued = [c \in Configs |-> 0] /\ skipped = {} /\ there = Listed
      /\ created = 0 /\ deleted = 0
  BY DEF Init
<1>3. Cardinality({}) = 0
  BY FS_EmptySet
<1>4. WalkTypeOK
  BY <1>1, <1>2, <1>3 DEF WalkTypeOK, Statuses
<1>5. WalkIsInOrder /\ ListGrowsByCreates /\ RepeatedByCreates
  BY <1>2 DEF WalkIsInOrder, ListGrowsByCreates, RepeatedByCreates, Given
<1>6. PassedByDeletes
  <2>1. PassedBy = {}
    BY <1>2, RankIsPlace DEF PassedBy, Covered, Missed, Listed
  <2> QED
    BY <1>2, <1>3, <2>1 DEF PassedByDeletes
<1> QED
  BY <1>4, <1>5, <1>6 DEF WalkInv

\* The page that is read: its places, and how many there are.
LEMMA SelectReads ==
  ASSUME WalkInv, Select
  PROVE  /\ page' = {c \in Listed : offset <= Above(Listed, c) /\ Above(Listed, c) < offset + Limit}
         /\ page' \in SUBSET Listed
         /\ size' = Cardinality(page') /\ size' \in 0..Limit
         /\ \A c \in page' : Above(Listed, c) < offset + size'
<1>1. Listed \in SUBSET Nat /\ IsFiniteSet(Listed) /\ offset \in Nat
  BY SubsetOfConfigs DEF Listed, WalkInv, WalkTypeOK
<1>2. page' = {c \in Listed : offset <= Above(Listed, c) /\ Above(Listed, c) < offset + Limit}
  BY DEF Select, Rank, Above
<1>3. size' = Cardinality(page') /\ page' \in SUBSET Listed
  BY <1>2 DEF Select
<1>4. size' \in Nat
  BY <1>1, <1>3, FS_Subset, FS_CardinalityType
<1>5. size' <= Limit
  BY <1>1, <1>2, <1>3, PageIsShort
<1>6. \A c \in page' : Above(Listed, c) < offset + size'
  BY <1>1, <1>2, <1>3, PageIsFull
<1> QED
  BY <1>2, <1>3, <1>4, <1>5, <1>6

\* What a step of the walk does to its page, but for the read.
LEMMA PageShrinks ==
  ASSUME WalkInv, Next, ~ Dies, ~ Select
  PROVE  /\ page' \in SUBSET page /\ size' = size
         /\ Cardinality(page') <= size' /\ Cardinality(page') \in Nat
<1>1. page \in SUBSET Configs /\ Cardinality(page) <= size /\ size \in Nat
  BY DEF WalkInv, WalkTypeOK, WalkIsInOrder
<1>2. page' \in SUBSET page /\ size' = size
  <2>1. CASE Create \/ Regenerate \/ Delete \/ Work
    BY <2>1 DEF Create, Regenerate, Delete, Work, walkVars
  <2>2. CASE Walk
    BY <2>2 DEF Walk, Count, Skip, NotFound, Check, Prepare, Publish, NextPage
  <2> QED
    BY <2>1, <2>2 DEF Next
<1>3. IsFiniteSet(page) /\ Cardinality(page) \in Nat
  BY <1>1, SubsetOfConfigs
<1>4. Cardinality(page') <= Cardinality(page) /\ Cardinality(page') \in Nat
  BY <1>2, <1>3, FS_Subset, FS_CardinalityType
<1> QED
  BY <1>1, <1>2, <1>3, <1>4

\* WalkTypeOK: a page is no longer than Limit, and an offset no larger than the list can get.
LEMMA TypeStep ==
  ASSUME WalkInv, Next, ~ Dies
  PROVE  WalkTypeOK'
<1>1. WalkTypeOK /\ WalkIsInOrder
  BY DEF WalkInv
<1>2. /\ status' \in [Configs -> Statuses] /\ tasks' \in [Configs -> Nat]
      /\ \A c \in Configs : status[c] # "absent" => status'[c] # "absent"
  <2>1. CASE Create
    BY <2>1, CreateGrows
  <2>2. CASE Delete
    BY <1>1, <2>2, DeleteShrinks DEF Delete, WalkTypeOK
  <2>3. CASE ~ Create /\ ~ Delete
    BY <2>3, ListStays
  <2> QED
    BY <2>1, <2>2, <2>3
<1>3. /\ pc' \in {"count", "select", "turn", "prepare", "commit", "publish", "done", "aborted"}
      /\ offset' \in 0..MaxConfigs
  <2>1. CASE Create \/ Regenerate \/ Delete \/ Work
    BY <1>1, <2>1 DEF Create, Regenerate, Delete, Work, walkVars, WalkTypeOK
  <2>2. CASE Count \/ Select \/ Skip \/ NotFound \/ Check \/ Prepare \/ Publish
    BY <1>1, <2>2 DEF Count, Select, Skip, NotFound, Check, Prepare, Publish, WalkTypeOK
  <2>3. CASE NextPage
    BY <1>1, <2>3 DEF NextPage, WalkTypeOK, WalkIsInOrder
  <2> QED
    BY <2>1, <2>2, <2>3 DEF Next, Walk
<1>4. size' \in 0..Limit /\ Cardinality(page') <= size'
  <2>1. CASE Select
    BY <2>1, SelectReads
  <2>2. CASE ~ Select
    BY <1>1, <2>2, PageShrinks DEF WalkTypeOK
  <2> QED
    BY <2>1, <2>2
<1>5. \A c \in Configs : queued'[c] > 0 \/ c \in skipped' => status[c] # "absent"
  <2>1. CASE UNCHANGED <<queued, skipped>>
    BY <1>1, <2>1 DEF WalkTypeOK
  <2>2. CASE Skip \/ Publish
    <3>1. Turn \in page
      BY <1>1, <2>2, TurnIsOnPage DEF Skip, Publish, WalkIsInOrder
    <3>2. Turn \in Configs /\ status[Turn] # "absent"
      BY <1>1, <3>1 DEF WalkIsInOrder
    <3>3. /\ queued' = queued \/ queued' = [queued EXCEPT ![Turn] = @ + 1]
          /\ skipped' = skipped \/ skipped' = skipped \cup {Turn}
      BY <2>2 DEF Skip, Publish
    <3> QED
      BY <1>1, <3>2, <3>3 DEF WalkTypeOK, WalkIsInOrder
  <2> QED
    BY <2>1, <2>2 DEF Next, Walk, Create, Regenerate, Delete, Work, Count, Select, NotFound, Check, Prepare, NextPage,
                      walkVars
<1> QED
  BY <1>2, <1>3, <1>4, <1>5 DEF WalkTypeOK

\* WalkIsInOrder: counts and page go with the pc.
LEMMA OrderStep ==
  ASSUME WalkInv, Next, ~ Dies
  PROVE  WalkIsInOrder'
<1>1. WalkTypeOK /\ WalkIsInOrder
  BY DEF WalkInv
<1>2. /\ created' \in Nat /\ deleted' \in Nat /\ there' \subseteq Listed'
      /\ \A c \in Configs : status[c] # "absent" => status'[c] # "absent"
  <2>1. CASE Create
    <3>1. created' = created + 1 /\ deleted' = deleted /\ there' = there
      BY <2>1 DEF Create
    <3>2. PICK x \in Configs :
            /\ Listed' = Listed \cup {x}
            /\ \A c \in Configs : status[c] # "absent" => status'[c] # "absent"
      BY <2>1, CreateGrows
    <3> QED
      BY <1>1, <3>1, <3>2 DEF WalkIsInOrder
  <2>2. CASE Delete
    <3>1. deleted' = deleted + 1 /\ created' = created
      BY <2>2 DEF Delete
    <3>2. PICK x \in Listed :
            /\ Listed' = Listed \ {x} /\ there' = there \ {x}
            /\ \A c \in Configs : status[c] # "absent" => status'[c] # "absent"
      BY <2>2, DeleteShrinks
    <3> QED
      BY <1>1, <3>1, <3>2 DEF WalkIsInOrder
  <2>3. CASE ~ Create /\ ~ Delete
    BY <1>1, <2>3, ListStays DEF logVars, WalkIsInOrder
  <2> QED
    BY <2>1, <2>2, <2>3
<1>3. /\ page' \subseteq Configs /\ \A c \in page' : status[c] # "absent"
  <2>1. CASE Select
    BY <2>1, SelectReads DEF Listed
  <2>2. CASE ~ Select
    BY <1>1, <2>2, PageShrinks DEF WalkIsInOrder
  <2> QED
    BY <2>1, <2>2
<1>4. queued' \in [Configs -> Nat]
  <2>1. CASE Publish
    <3>1. queued \in [Configs -> Nat] /\ queued' = [queued EXCEPT ![Turn] = @ + 1]
      BY <1>1, <2>1 DEF Publish, WalkIsInOrder
    <3> QED
      BY <3>1, CountUp, Zenon
  <2>2. CASE UNCHANGED queued
    BY <1>1, <2>2 DEF WalkIsInOrder
  <2> QED
    BY <2>1, <2>2 DEF Next, Walk, Create, Regenerate, Delete, Work, Count, Select, Skip, NotFound, Check, Prepare,
                      NextPage, walkVars
<1>5. /\ total' \in 0..MaxConfigs
      /\ pc' \in {"count", "select", "done"} => page' = {}
      /\ pc' \in {"prepare", "commit", "publish"} => page' # {}
      /\ pc' = "done" => offset' + size' >= total'
  <2>1. CASE Create \/ Regenerate \/ Delete \/ Work
    BY <1>1, <2>1 DEF Create, Regenerate, Delete, Work, walkVars, WalkIsInOrder
  <2>2. CASE Count
    <3>1. Cardinality(Listed) \in 0..MaxConfigs
      BY SubsetOfConfigs DEF Listed
    <3> QED
      BY <1>1, <2>2, <3>1 DEF Count, WalkIsInOrder
  <2>3. CASE Select \/ Skip \/ NotFound \/ Check \/ Prepare \/ Publish
    BY <1>1, <2>3 DEF Select, Skip, NotFound, Check, Prepare, Publish, WalkIsInOrder
  <2>4. CASE NextPage
    BY <1>1, <2>4 DEF NextPage, WalkIsInOrder
  <2> QED
    BY <2>1, <2>2, <2>3, <2>4 DEF Next, Walk
<1> QED
  BY <1>2, <1>3, <1>4, <1>5 DEF WalkIsInOrder

\* ListGrowsByCreates: only Create makes the list longer.
LEMMA GrowthStep ==
  ASSUME WalkInv, Next, ~ Dies
  PROVE  ListGrowsByCreates'
<1>1. /\ ListGrowsByCreates /\ total \in Nat /\ created \in Nat
      /\ Listed \in SUBSET Configs /\ IsFiniteSet(Listed) /\ Cardinality(Listed) \in Nat
  BY SubsetOfConfigs DEF WalkInv, WalkIsInOrder, Listed
<1>2. CASE Create
  <2>1. Cardinality(Listed') = Cardinality(Listed) + 1
    BY <1>1, <1>2, CreateGrows, FS_AddElement
  <2> QED
    BY <1>1, <1>2, <2>1 DEF Create, walkVars, ListGrowsByCreates
<1>3. CASE Delete
  <2>1. Cardinality(Listed') = Cardinality(Listed) - 1
    BY <1>1, <1>3, DeleteShrinks, FS_RemoveElement
  <2> QED
    BY <1>1, <1>3, <2>1 DEF Delete, walkVars, ListGrowsByCreates
<1>4. CASE ~ Create /\ ~ Delete
  <2>1. Listed' = Listed /\ created' = created
    BY <1>4, ListStays DEF logVars
  <2>2. CASE Count
    BY <1>1, <2>1, <2>2 DEF Count, ListGrowsByCreates
  <2>3. CASE ~ Count
    <3>1. total' = total /\ (pc' \notin {"count", "aborted"} => pc \notin {"count", "aborted"})
      BY <1>4, <2>3 DEF Next, Walk, Regenerate, Work, Select, Skip, NotFound, Check, Prepare, Publish, NextPage, walkVars
    <3> QED
      BY <1>1, <2>1, <3>1 DEF ListGrowsByCreates
  <2> QED
    BY <2>2, <2>3
<1> QED
  BY <1>2, <1>3, <1>4

\* The place the walk has come to moves with its own steps only, and when it
\* asks for the next page it does not move.
LEMMA CoveredStep ==
  ASSUME WalkInv, Next, ~ Dies
  PROVE  /\ Covered \in Nat /\ Covered' \in Nat
         /\ Select => Covered = offset /\ Covered' = offset + size'
         /\ ~ Select => Covered' = Covered
<1>1. offset \in Nat /\ size \in Nat
  BY DEF WalkInv, WalkTypeOK
<1>2. offset' \in Nat /\ size' \in Nat
  BY TypeStep DEF WalkTypeOK
<1>3. ~ Select => Covered' = Covered
  <2>1. CASE Create \/ Regenerate \/ Delete \/ Work
    BY <2>1 DEF Create, Regenerate, Delete, Work, walkVars, Covered
  <2>2. CASE Count \/ Skip \/ NotFound \/ Check \/ Prepare \/ Publish
    BY <2>2 DEF Count, Skip, NotFound, Check, Prepare, Publish, Covered
  <2>3. CASE NextPage
    BY <1>1, <2>3 DEF NextPage, Covered
  <2> QED
    BY <2>1, <2>2, <2>3 DEF Next, Walk
<1>4. Select => Covered = offset /\ Covered' = offset + size'
  BY DEF Select, Covered
<1>5. Covered \in Nat
  BY <1>1 DEF Covered
<1>6. Covered' \in Nat
  <2>1. Covered' = offset' \/ Covered' = offset' + size'
    BY DEF Covered
  <2>2. \A m, n \in Nat : m + n \in Nat
    OBVIOUS
  <2> QED
    BY <1>2, <2>1, <2>2, Zenon
<1> QED
  BY <1>3, <1>4, <1>5, <1>6

\* What the walk deals with stays dealt with.
LEMMA MissedShrinks ==
  ASSUME WalkInv, Next, ~ Dies
  PROVE  /\ Missed' \ page' \subseteq Missed
         /\ ~ Select => Missed' \ page' \subseteq Missed \ page
<1>1. /\ page \subseteq Configs /\ queued \in [Configs -> Nat] /\ there \subseteq Configs
  BY DEF WalkInv, WalkIsInOrder, Listed
<1>2. CASE Publish
  <2>1. Turn \in page /\ UNCHANGED <<skipped, there>>
    BY <1>1, <1>2, TurnIsOnPage DEF Publish, logVars, WalkInv, WalkIsInOrder
  <2>2. queued' = [queued EXCEPT ![Turn] = @ + 1] /\ page' = page \ {Turn}
    BY <1>2 DEF Publish
  <2> QED
    BY <1>1, <2>1, <2>2 DEF Missed
<1>3. CASE Skip
  BY <1>1, <1>3 DEF Skip, logVars, Missed
<1>4. CASE Delete
  <2>1. there' \subseteq there /\ UNCHANGED <<page, queued, skipped>>
    BY <1>4 DEF Delete, walkVars
  <2> QED
    BY <2>1 DEF Missed
<1>5. CASE Select
  BY <1>5 DEF Select, logVars, Missed
<1>6. CASE Create \/ Regenerate \/ Work \/ Count \/ NotFound \/ Check \/ Prepare \/ NextPage
  BY <1>6 DEF Create, Regenerate, Work, Count, NotFound, Check, Prepare, NextPage, walkVars, logVars, Missed
<1> QED
  BY <1>2, <1>3, <1>4, <1>5, <1>6 DEF Next, Walk

\* A delete brings one config more before the place the walk has come to, at the
\* most; nothing else does.
LEMMA PassedStep ==
  ASSUME WalkInv, Next, ~ Dies
  PROVE  PassedByDeletes'
<1>0. pc # "aborted"
  BY DEF Next, Walk, Ended, Count, Select, Skip, NotFound, Check, Prepare, Publish, NextPage
<1>1. /\ PassedBy \in SUBSET Configs /\ IsFiniteSet(PassedBy) /\ Cardinality(PassedBy) \in Nat
      /\ Cardinality(PassedBy) <= deleted /\ deleted \in Nat
      /\ Missed \subseteq Listed
  BY <1>0, SubsetOfConfigs DEF WalkInv, PassedByDeletes, PassedBy, WalkIsInOrder, Missed, Listed
<1>2. SUFFICES Cardinality(PassedBy') <= deleted'
  BY DEF PassedByDeletes, PassedBy
<1>3. Covered \in Nat /\ Covered' \in Nat
  BY CoveredStep
<1>4. ASSUME PassedBy' \subseteq PassedBy, deleted' = deleted
      PROVE  Cardinality(PassedBy') <= deleted'
  <2>1. Cardinality(PassedBy') <= Cardinality(PassedBy) /\ Cardinality(PassedBy') \in Nat
    BY <1>1, <1>4, FS_Subset, FS_CardinalityType
  <2> QED
    BY <1>1, <1>4, <2>1
<1>5. CASE Create
  <2>1. PICK x \in Configs :
          /\ x \notin Listed /\ Listed' = Listed \cup {x}
          /\ \A c \in Configs : status[c] # "absent" => c < x
    BY <1>5, CreateGrows
  <2>2. ASSUME NEW c \in Listed PROVE Rank(c)' = Rank(c) + 1
    <3>1. Rank(c) = Above(Listed, c) /\ Rank(c)' = Above(Listed \cup {x}, c) /\ c < x
      BY <2>1, RankIsPlace DEF Listed
    <3>2. Listed \in SUBSET Nat /\ IsFiniteSet(Listed) /\ x \in Nat /\ c \in Nat
      BY SubsetOfConfigs DEF Listed, Configs
    <3> QED
      BY <2>1, <3>1, <3>2, AboveAdd
  <2>3. /\ Covered' = Covered /\ deleted' = deleted /\ Missed' \ page' \subseteq Missed \ page
    BY <1>5, CoveredStep, MissedShrinks DEF Create, Select, walkVars
  <2>4. ASSUME NEW c \in PassedBy' PROVE c \in PassedBy
    <3>1. c \in Missed \ page /\ c \in Listed /\ c \in Configs
      BY <1>1, <2>3 DEF PassedBy, Listed
    <3>2. Rank(c)' < Covered /\ Rank(c)' = Rank(c) + 1 /\ Rank(c) \in Nat
      BY <2>2, <2>3, <3>1, RankIsPlace DEF PassedBy
    <3> QED
      BY <1>3, <3>1, <3>2 DEF PassedBy
  <2> QED
    BY <1>4, <2>3, <2>4
<1>6. CASE Delete
  <2>1. PICK x \in Listed : Listed' = Listed \ {x}
    BY <1>6, DeleteShrinks
  <2>2. ASSUME NEW c \in Listed PROVE Rank(c)' \in {Rank(c), Rank(c) - 1}
    <3>1. Rank(c) = Above(Listed, c) /\ Rank(c)' = Above(Listed \ {x}, c)
      BY <2>1, RankIsPlace DEF Listed
    <3>2. Listed \in SUBSET Nat /\ IsFiniteSet(Listed) /\ c \in Nat
      BY SubsetOfConfigs DEF Listed, Configs
    <3> QED
      BY <2>1, <3>1, <3>2, AboveRemove
  <2>3. /\ Covered' = Covered /\ deleted' = deleted + 1
        /\ Missed' \ page' \subseteq Missed \ page
    BY <1>6, CoveredStep, MissedShrinks DEF Delete, Select, walkVars
  <2> DEFINE E == {c \in Listed : Covered <= Above(Listed, c) /\ Above(Listed, c) < Covered + 1}
  <2>4. PassedBy' \subseteq PassedBy \cup E
    BY <1>1, <1>3, <2>2, <2>3, RankIsPlace DEF PassedBy, Listed
  <2>5. IsFiniteSet(E) /\ Cardinality(E) <= 1 /\ Cardinality(E) \in Nat
    <3>1. Listed \in SUBSET Nat /\ IsFiniteSet(Listed)
      BY SubsetOfConfigs DEF Listed
    <3>2. IsFiniteSet(E) /\ Cardinality(E) \in Nat
      BY <3>1, FS_Subset, FS_CardinalityType
    <3> QED
      BY <1>3, <3>1, <3>2, PageIsShort
  <2> HIDE DEF E
  <2>6. /\ IsFiniteSet(PassedBy \cup E) /\ Cardinality(PassedBy \cup E) \in Nat
        /\ Cardinality(PassedBy \cup E) <= Cardinality(PassedBy) + Cardinality(E)
    <3>1. IsFiniteSet(PassedBy \cup E) /\ IsFiniteSet(PassedBy \cap E)
      BY <1>1, <2>5, FS_Union, FS_Subset
    <3>2. Cardinality(PassedBy \cup E) \in Nat /\ Cardinality(PassedBy \cap E) \in Nat
      BY <3>1, FS_CardinalityType
    <3>3. Cardinality(PassedBy \cup E)
            = Cardinality(PassedBy) + Cardinality(E) - Cardinality(PassedBy \cap E)
      BY <1>1, <2>5, FS_Union
    <3> QED
      BY <1>1, <2>5, <3>1, <3>2, <3>3
  <2>7. Cardinality(PassedBy') <= Cardinality(PassedBy \cup E) /\ Cardinality(PassedBy') \in Nat
    BY <2>4, <2>6, FS_Subset, FS_CardinalityType
  <2> QED
    BY <1>1, <2>3, <2>5, <2>6, <2>7
<1>7. CASE Select
  <2>1. /\ page' = {c \in Listed : offset <= Above(Listed, c) /\ Above(Listed, c) < offset + Limit}
        /\ size' \in 0..Limit /\ page = {}
    BY <1>7, SelectReads DEF Select, WalkInv, WalkIsInOrder
  <2>2. Listed' = Listed /\ deleted' = deleted /\ Missed' \ page' \subseteq Missed
    BY <1>7, MissedShrinks DEF Select, dbVars, logVars, Listed
  <2>3. Covered = offset /\ Covered' = offset + size'
    BY <1>7, CoveredStep
  <2>4. ASSUME NEW c \in PassedBy' PROVE c \in PassedBy
    <3>1. c \in Missed /\ c \in Listed /\ c \in Configs /\ c \notin page'
      BY <1>1, <2>2 DEF PassedBy, Listed
    <3>2. Rank(c) = Above(Listed, c) /\ Rank(c)' = Above(Listed, c) /\ Rank(c) \in Nat
      BY <2>2, <3>1, RankIsPlace
    <3>3. Rank(c) < offset + size'
      BY <2>3, <3>2 DEF PassedBy
    <3>4. Rank(c) < offset
      BY <1>3, <2>1, <2>3, <3>1, <3>2, <3>3
    <3> QED
      BY <2>1, <2>3, <3>1, <3>4 DEF PassedBy
  <2> QED
    BY <1>4, <2>2, <2>4
<1>8. CASE ~ Create /\ ~ Delete /\ ~ Select
  <2>1. /\ Listed' = Listed /\ deleted' = deleted /\ Covered' = Covered
        /\ Missed' \ page' \subseteq Missed \ page
    BY <1>8, ListStays, CoveredStep, MissedShrinks DEF logVars
  <2>2. \A c \in Configs : Rank(c)' = Rank(c)
    BY <2>1, RankIsPlace
  <2>3. PassedBy' \subseteq PassedBy
    BY <1>1, <2>1, <2>2 DEF PassedBy, Listed
  <2> QED
    BY <1>4, <2>1, <2>3
<1> QED
  BY <1>5, <1>6, <1>7, <1>8

\* Only a page that is read gives the walk anything.
LEMMA GivenStep ==
  ASSUME WalkInv, Next, ~ Dies, NEW c \in Configs, ~ Select
  PROVE  Given(c)' <= Given(c) /\ Given(c) \in Nat /\ Given(c)' \in Nat
<1>1. queued \in [Configs -> Nat] /\ page \subseteq Configs /\ queued' \in [Configs -> Nat]
  BY OrderStep DEF WalkInv, WalkIsInOrder
<1>2. CASE Publish
  <2>1. Turn \in page
    BY <1>1, <1>2, TurnIsOnPage DEF Publish, WalkInv, WalkIsInOrder
  <2>2. queued' = [queued EXCEPT ![Turn] = @ + 1] /\ page' = page \ {Turn}
    BY <1>2 DEF Publish
  <2> QED
    BY <1>1, <2>1, <2>2 DEF Given
<1>3. CASE queued' = queued /\ page' \in SUBSET page
  BY <1>1, <1>3 DEF Given
<1>4. CASE ~ Publish
  <2>1. queued' = queued
    BY <1>4 DEF Next, Walk, Create, Regenerate, Delete, Work, Count, Select, Skip, NotFound, Check, Prepare, NextPage,
                walkVars
  <2> QED
    BY <1>3, <2>1, PageShrinks
<1> QED
  BY <1>2, <1>4

\* A config comes up again at a place the walk has not come to yet: a create has
\* moved it there for each time it has come up before.
LEMMA RepeatedStep ==
  ASSUME WalkInv, Next, ~ Dies
  PROVE  RepeatedByCreates'
<1>1. SUFFICES ASSUME NEW c \in Configs, Given(c)' > 0
               PROVE  Given(c)' <= 1 + created' /\ Given(c)' + Rank(c)' <= created' + Covered'
  BY DEF RepeatedByCreates
<1>2. /\ created \in Nat /\ queued \in [Configs -> Nat] /\ page \subseteq Configs
      /\ Covered \in Nat /\ Covered' \in Nat /\ Rank(c) \in Nat /\ Rank(c)' \in Nat
  BY CoveredStep, RankIsPlace DEF WalkInv, WalkIsInOrder
<1>3. Given(c) > 0 => Given(c) <= 1 + created /\ Given(c) + Rank(c) <= created + Covered
  BY DEF WalkInv, RepeatedByCreates
<1>4. CASE Create
  <2>1. PICK x \in Configs :
          /\ x \notin Listed /\ Listed' = Listed \cup {x}
          /\ \A d \in Configs : status[d] # "absent" => d < x
    BY <1>4, CreateGrows
  <2>2. Given(c) > 0 /\ Given(c)' <= Given(c) /\ Given(c) \in Nat /\ Given(c)' \in Nat
    BY <1>1, <1>4, GivenStep DEF Create, Select, walkVars
  <2>3. c < x
    BY <1>2, <2>1, <2>2 DEF WalkInv, WalkTypeOK, WalkIsInOrder, Given
  <2>4. Rank(c)' = Rank(c) + 1
    <3>1. Rank(c) = Above(Listed, c) /\ Rank(c)' = Above(Listed \cup {x}, c)
      BY <2>1, RankIsPlace
    <3>2. Listed \in SUBSET Nat /\ IsFiniteSet(Listed) /\ x \in Nat /\ c \in Nat
      BY SubsetOfConfigs DEF Listed, Configs
    <3> QED
      BY <2>1, <2>3, <3>1, <3>2, AboveAdd
  <2>5. created' = created + 1 /\ Covered' = Covered
    BY <1>4, CoveredStep DEF Create, Select, walkVars
  <2> QED
    BY <1>2, <1>3, <2>2, <2>4, <2>5
<1>5. CASE Delete
  <2>1. PICK x \in Listed : Listed' = Listed \ {x}
    BY <1>5, DeleteShrinks
  <2>2. Given(c) > 0 /\ Given(c)' <= Given(c) /\ Given(c) \in Nat /\ Given(c)' \in Nat
    BY <1>1, <1>5, GivenStep DEF Delete, Select, walkVars
  <2>3. Rank(c)' \in {Rank(c), Rank(c) - 1}
    <3>1. Rank(c) = Above(Listed, c) /\ Rank(c)' = Above(Listed \ {x}, c)
      BY <2>1, RankIsPlace
    <3>2. Listed \in SUBSET Nat /\ IsFiniteSet(Listed) /\ c \in Nat
      BY SubsetOfConfigs DEF Listed, Configs
    <3> QED
      BY <2>1, <3>1, <3>2, AboveRemove
  <2>4. created' = created /\ Covered' = Covered
    BY <1>5, CoveredStep DEF Delete, Select, walkVars
  <2> QED
    BY <1>2, <1>3, <2>2, <2>3, <2>4
<1>6. CASE Select
  <2>1. /\ page' = {d \in Listed : offset <= Above(Listed, d) /\ Above(Listed, d) < offset + Limit}
        /\ \A d \in page' : Above(Listed, d) < offset + size'
        /\ size' \in Nat /\ page = {}
    BY <1>6, SelectReads DEF Select, WalkInv, WalkIsInOrder
  <2>2. Listed' = Listed /\ created' = created /\ queued' = queued
    BY <1>6 DEF Select, dbVars, logVars, Listed
  <2>3. Rank(c) = Above(Listed, c) /\ Rank(c)' = Rank(c)
    BY <2>2, RankIsPlace
  <2>4. Covered = offset /\ Covered' = offset + size'
    BY <1>6, CoveredStep
  <2>5. Given(c) = queued[c] /\ queued[c] \in Nat
    BY <1>2, <2>1 DEF Given
  <2>6. CASE c \in page'
    <3>1. Given(c)' = queued[c] + 1
      BY <2>2, <2>6 DEF Given
    <3>2. offset <= Rank(c) /\ Rank(c) < offset + size'
      BY <2>1, <2>3, <2>6
    <3>3. CASE queued[c] = 0
      BY <1>2, <2>1, <2>2, <2>3, <2>4, <3>1, <3>2, <3>3
    <3>4. CASE queued[c] > 0
      <4>1. queued[c] <= created
        BY <1>2, <1>3, <2>4, <2>5, <3>2, <3>4
      <4> QED
        BY <1>2, <2>1, <2>2, <2>3, <2>4, <2>5, <3>1, <3>2, <4>1
    <3> QED
      BY <2>5, <3>3, <3>4
  <2>7. CASE c \notin page'
    <3>1. Given(c)' = queued[c] /\ queued[c] > 0
      BY <1>1, <2>2, <2>5, <2>7 DEF Given
    <3> QED
      BY <1>2, <1>3, <2>1, <2>2, <2>3, <2>4, <2>5, <3>1
  <2> QED
    BY <2>6, <2>7
<1>7. CASE ~ Create /\ ~ Delete /\ ~ Select
  <2>1. Listed' = Listed /\ created' = created /\ Covered' = Covered
    BY <1>7, ListStays, CoveredStep DEF logVars
  <2>2. Rank(c)' = Rank(c)
    BY <2>1, RankIsPlace
  <2>3. Given(c) > 0 /\ Given(c)' <= Given(c) /\ Given(c) \in Nat /\ Given(c)' \in Nat
    BY <1>1, <1>7, GivenStep
  <2> QED
    BY <1>2, <1>3, <2>1, <2>2, <2>3
<1> QED
  BY <1>4, <1>5, <1>6, <1>7

\* A walk that dies has come to no place: its offset and its page stay as they are.
LEMMA DiesStep ==
  ASSUME WalkInv, Dies
  PROVE  WalkInv'
<1> USE DEF WalkInv, Dies, dbVars, logVars
<1>1. Listed' = Listed /\ \A c \in Configs : Given(c)' = Given(c) /\ Rank(c)' = Rank(c)
  BY DEF Listed, Given, Rank
<1>2. WalkTypeOK' /\ WalkIsInOrder'
  BY <1>1 DEF WalkTypeOK, WalkIsInOrder
<1>3. ListGrowsByCreates' /\ PassedByDeletes'
  BY DEF ListGrowsByCreates, PassedByDeletes
<1>4. RepeatedByCreates'
  <2>1. Covered' >= Covered /\ Covered \in Nat /\ Covered' \in Nat /\ created \in Nat
    BY DEF Covered, WalkTypeOK, WalkIsInOrder
  <2>2. \A c \in Configs : Given(c) \in Nat /\ Rank(c) \in Nat
    BY RankIsPlace DEF Given, WalkIsInOrder
  <2> QED
    BY <1>1, <2>1, <2>2 DEF RepeatedByCreates
<1> QED
  BY <1>2, <1>3, <1>4

\* WalkInv is inductive.
LEMMA WalkInvHolds == Spec => []WalkInv
<1>1. WalkInv /\ [Next]_vars => WalkInv'
  <2> SUFFICES ASSUME WalkInv, [Next]_vars PROVE WalkInv'
    OBVIOUS
  <2>1. CASE Next
    BY <2>1, DiesStep, TypeStep, OrderStep, GrowthStep, PassedStep, RepeatedStep DEF WalkInv
  <2>2. CASE UNCHANGED vars
    BY <2>2 DEF vars, dbVars, walkVars, logVars, WalkInv, WalkTypeOK, WalkIsInOrder,
                ListGrowsByCreates, PassedByDeletes, PassedBy, RepeatedByCreates, Given, Listed,
                Missed, Rank, Covered
  <2> QED
    BY <2>1, <2>2
<1> QED
  BY <1>1, WalkInit, PTL DEF Spec

----------------------------------------------------------------------------
(* The bounds                                                               *)

\* The page is never longer than the limit, the offset never beyond the configs
\* there can be, and only configs that are or were there are queued or skipped.
THEOREM WalkTypes == Spec => []WalkTypeOK
<1>1. WalkInv => WalkTypeOK
  BY DEF WalkInv
<1> QED
  BY <1>1, WalkInvHolds, PTL

\* regenerate_all_configs.py:70.  The pages are cut from a list that moves under
\* the walk and is counted before it is read, and still a walk that ends well has
\* missed no more of the configs that were there throughout than were created or
\* deleted meanwhile: those before the place it has come to by deletes, those
\* after it by creates.
THEOREM MissesAreBounded == Spec => []MissedByMovesOnly
<1>1. WalkInv => MissedByMovesOnly
  <2> SUFFICES ASSUME WalkInv, pc = "done" PROVE Cardinality(Missed) <= created + deleted
    BY DEF MissedByMovesOnly
  <2>1. /\ page = {} /\ Covered = offset + size /\ Covered >= total /\ Missed \subseteq Listed
        /\ Cardinality(Listed) <= total + created
        /\ total \in Nat /\ created \in Nat /\ deleted \in Nat /\ Covered \in Nat
    BY DEF WalkInv, WalkTypeOK, WalkIsInOrder, ListGrowsByCreates, Covered, Missed
  <2>2. /\ Listed \in SUBSET Nat /\ Listed \in SUBSET Configs /\ IsFiniteSet(Listed)
        /\ Cardinality(Listed) \in Nat
    BY SubsetOfConfigs DEF Listed
  <2> DEFINE before == {c \in Missed : Rank(c) < Covered}
             after  == {c \in Listed : Above(Listed, c) >= Covered}
  <2>3. Missed \subseteq before \cup after
    BY <2>1, <2>2, RankIsPlace
  <2>4. IsFiniteSet(before) /\ Cardinality(before) \in Nat /\ Cardinality(before) <= deleted
    <3>1. before = PassedBy
      BY <2>1 DEF PassedBy
    <3>2. Cardinality(before) <= deleted
      BY <3>1 DEF WalkInv, PassedByDeletes
    <3> QED
      BY <2>1, <2>2, <3>2, FS_Subset, FS_CardinalityType
  <2>5. IsFiniteSet(after) /\ Cardinality(after) \in Nat /\ Cardinality(after) <= created
    <3>1. IsFiniteSet(after) /\ Cardinality(after) \in Nat
      BY <2>2, FS_Subset, FS_CardinalityType
    <3>2. after = {} \/ Cardinality(after) + Covered <= Cardinality(Listed)
      BY <2>1, <2>2, RestIsShort
    <3> HIDE DEF after
    <3>3. after = {} => Cardinality(after) = 0
      BY FS_EmptySet
    <3> QED
      BY <2>1, <2>2, <3>1, <3>2, <3>3
  <2> HIDE DEF before, after
  <2>6. /\ Cardinality(before \cup after) <= Cardinality(before) + Cardinality(after)
        /\ IsFiniteSet(before \cup after) /\ Cardinality(before \cup after) \in Nat
    <3>1. IsFiniteSet(before \cup after) /\ IsFiniteSet(before \cap after)
      BY <2>4, <2>5, FS_Union, FS_Subset
    <3>2. Cardinality(before \cup after) \in Nat /\ Cardinality(before \cap after) \in Nat
      BY <3>1, FS_CardinalityType
    <3>3. Cardinality(before \cup after)
            = Cardinality(before) + Cardinality(after) - Cardinality(before \cap after)
      BY <2>4, <2>5, FS_Union
    <3> QED
      BY <2>4, <2>5, <3>1, <3>2, <3>3
  <2>7. Cardinality(Missed) <= Cardinality(before \cup after) /\ Cardinality(Missed) \in Nat
    BY <2>3, <2>6, FS_Subset, FS_CardinalityType
  <2> QED
    BY <2>1, <2>4, <2>5, <2>6, <2>7
<1> QED
  BY <1>1, WalkInvHolds, PTL

\* regenerate_all_configs.py:83.  However the list moves, a config is queued once
\* and for each create at its front at most once more.
THEOREM RepeatsAreBounded == Spec => []QueuedTwiceByCreatesOnly
<1>1. WalkInv => QueuedTwiceByCreatesOnly
  <2> SUFFICES ASSUME WalkInv, NEW c \in Configs PROVE queued[c] <= 1 + created
    BY DEF QueuedTwiceByCreatesOnly
  <2>1. queued[c] \in Nat /\ created \in Nat
    BY DEF WalkInv, WalkIsInOrder
  <2>2. Given(c) > 0 => Given(c) <= 1 + created
    BY DEF WalkInv, RepeatedByCreates
  <2> QED
    BY <2>1, <2>2 DEF Given
<1> QED
  BY <1>1, WalkInvHolds, PTL

=============================================================================
