-------------------------- MODULE KnowledgePublish --------------------------
(***************************************************************************)
(* Publication of the knowledge of one space: the worker tasks that turn   *)
(* document versions into chunks, entities and facts and publish graph,    *)
(* index and knowledge releases of them (process_version_task,             *)
(* publish_curation_task, run_inference_task in apps/worker/tasks.py), and *)
(* the request that pairs the current snapshots by hand.                   *)
(*                                                                         *)
(* A run is one execution of a task or request; a job that is delivered    *)
(* again, retried or forced is another run of the same version.  A run     *)
(* creates at most one release of each kind, so releases are named after   *)
(* the run that creates them.  Each action ends in a commit or stands for  *)
(* reads that a later commit relies on.                                    *)
(***************************************************************************)
EXTENDS Integers, FiniteSets

CONSTANTS
  Runs,       \* executions of tasks and of the manual publication
  NoRun,      \* "no release", "lock is free"
  Versions,   \* document versions of the space, all current
  Entities,   \* canonical entities of the space
  Kind,       \* task or request each run executes
  VersionOf,  \* version a processing run works on
  Targets,    \* targets a processing run is asked for
  Forced,     \* processing runs with the force flag
  Mentions,   \* entities that extraction finds in a version
  MayFail,    \* runs in which an external call may fail
  MayDie      \* runs whose worker may be killed

Kinds == {"process", "curation", "inference", "pair"}
Channels == {"fulltext", "vector"}
Goals == Channels \cup {"graph", "writing_graph"}

ASSUME RunsAssumption ==
  /\ IsFiniteSet(Runs)
  /\ NoRun \notin Runs
  /\ Kind \in [Runs -> Kinds]
  /\ VersionOf \in [Runs -> Versions]
  /\ Targets \in [Runs -> SUBSET Goals]
  /\ Mentions \in [Versions -> SUBSET Entities]
  /\ Forced \subseteq Runs /\ MayFail \subseteq Runs /\ MayDie \subseteq Runs

Steps == {"queued", "started", "split", "staged", "governed", "building",
          "graphed", "indexed", "switching", "numbered", "finished",
          "ended", "failed", "dead"}
Final == {"ended", "failed", "dead"}

RowStates == {"absent", "staged", "published", "superseded"}
EntityRows == [status : RowStates, deleted : BOOLEAN]

\* A release that is "built" or "drafted" belongs to an open transaction.
GraphReleases == [state : {"none", "built", "published", "failed"}, number : Nat,
                  entities : SUBSET Entities, versions : SUBSET Versions]
\* The channels an index release built itself, and the versions readers find in
\* each: its OpenSearch index may be that of the release before.
IndexReleases == [state : {"none", "built", "published"}, number : Nat,
                  channels : SUBSET Channels, holds : [Channels -> SUBSET Versions]]
KnowledgeReleases == [state : {"none", "drafted", "published", "superseded"}, number : Nat,
                      graph : Runs \cup {NoRun}, index : Runs \cup {NoRun}]

NoGraph == [state |-> "none", number |-> 0, entities |-> {}, versions |-> {}]
NoIndex == [state |-> "none", number |-> 0, channels |-> {},
            holds |-> [channel \in Channels |-> {}]]
NoRelease == [state |-> "none", number |-> 0, graph |-> NoRun, index |-> NoRun]

\* What a processing run remembers to undo its work.
Snapshots == [entity : [Entities -> EntityRows], chunk : RowStates,
              fact : BOOLEAN, done : SUBSET Goals]

VARIABLES
  step,           \* how far each run has got
  entity,         \* canonical_entities
  chunk,          \* status of the chunks of each version
  fact,           \* the facts of a version are published
  done,           \* knowledge_targets_completed in parse_summary
  want,           \* targets of the run, with those a forced run adds
  saved,          \* rollback_*_state and completed_targets of the run
  pending,        \* pending_entity_ids of the run
  held,           \* entities the run's session holds with status "staged"
  graph,          \* graph_releases
  index,          \* index_releases
  release,        \* knowledge_releases
  current,        \* releases the run read as published before superseding them
  graphLock,      \* advisory lock graph-release:<space>
  knowledgeLock   \* advisory lock knowledge-release:<space>

vars == <<step, entity, chunk, fact, done, want, saved, pending, held,
          graph, index, release, current, graphLock, knowledgeLock>>

rows == <<entity, chunk, fact, done>>
memory == <<want, saved, pending, held>>
releases == <<graph, index, release, current>>
locks == <<graphLock, knowledgeLock>>

TypeOK ==
  /\ step \in [Runs -> Steps]
  /\ entity \in [Entities -> EntityRows]
  /\ chunk \in [Versions -> RowStates]
  /\ fact \in [Versions -> BOOLEAN]
  /\ done \in [Versions -> SUBSET Goals]
  /\ want \in [Runs -> SUBSET Goals]
  /\ saved \in [Runs -> Snapshots]
  /\ pending \in [Runs -> SUBSET Entities]
  /\ held \in [Runs -> SUBSET Entities]
  /\ graph \in [Runs -> GraphReleases]
  /\ index \in [Runs -> IndexReleases]
  /\ release \in [Runs -> KnowledgeReleases]
  /\ current \in [Runs -> SUBSET Runs]
  /\ graphLock \in Runs \cup {NoRun}
  /\ knowledgeLock \in Runs \cup {NoRun}

Unknown == [status |-> "absent", deleted |-> FALSE]

Init ==
  /\ step = [r \in Runs |-> "queued"]
  /\ entity = [e \in Entities |-> Unknown]
  /\ chunk = [v \in Versions |-> "absent"]
  /\ fact = [v \in Versions |-> FALSE]
  /\ done = [v \in Versions |-> {}]
  /\ want = [r \in Runs |-> {}]
  /\ saved = [r \in Runs |-> [entity |-> [e \in Entities |-> Unknown],
                              chunk |-> "absent", fact |-> FALSE, done |-> {}]]
  /\ pending = [r \in Runs |-> {}]
  /\ held = [r \in Runs |-> {}]
  /\ graph = [r \in Runs |-> NoGraph]
  /\ index = [r \in Runs |-> NoIndex]
  /\ release = [r \in Runs |-> NoRelease]
  /\ current = [r \in Runs |-> {}]
  /\ graphLock = NoRun /\ knowledgeLock = NoRun

-----------------------------------------------------------------------------
(* Queries on the committed releases and rows.                              *)

Committed(table) == {r \in Runs : table[r].state \notin {"none", "built", "drafted"}}
Published(table) == {r \in Runs : table[r].state = "published"}

\* max(release_number) + 1, over failed and deleted rows too.
IsNextNumber(table, n) ==
  /\ \A r \in Committed(table) : table[r].number < n
  /\ n = 1 \/ \E r \in Committed(table) : table[r].number = n - 1

\* The published release with the highest number, or none.
IsLatest(table, r) ==
  IF Published(table) = {} THEN r = NoRun
  ELSE /\ r \in Published(table)
       /\ \A s \in Published(table) : table[s].number <= table[r].number

Processing(r) == Kind[r] = "process"
Goto(r, to) == step' = [step EXCEPT ![r] = to]

\* Chunks that effective_chunk_payloads returns.
Effective(v) == chunk[v] \in {"staged", "published"}

Own(r) == IF Processing(r) THEN {VersionOf[r]} ELSE {}

\* Mutant of Projected: versions with effective chunks are taken as completed.
ProjectedStaged(r, goal) == {v \in Versions : Effective(v)}

\* Versions that run r projects for a target it builds: those that have
\* completed the target, and the run's own pending one.
Projected(r, goal) == {v \in Versions : goal \in done[v]} \cup Own(r)

-----------------------------------------------------------------------------
(* process_version_task up to governance.                                   *)

\* Everything asked for is already there: the job succeeds unchanged.
SkipDone(r) ==
  /\ Processing(r) /\ step[r] = "queued" /\ r \notin Forced
  /\ Targets[r] \subseteq done[VersionOf[r]]
  /\ Goto(r, "ended")
  /\ UNCHANGED <<rows, memory, releases, locks>>

\* A policy or model is missing, or the job is invalid: it fails untouched.
Refuse(r) ==
  /\ Processing(r) /\ step[r] = "queued" /\ r \in MayFail
  /\ Goto(r, "failed")
  /\ UNCHANGED <<rows, memory, releases, locks>>

\* Mutant of Start: the targets are marked completed when the job begins.
StartCompleted(r) ==
  /\ Processing(r) /\ step[r] = "queued"
  /\ LET before == done[VersionOf[r]]
         asked == Targets[r] \cup (IF r \in Forced THEN before ELSE {})
     IN /\ r \in Forced \/ ~(asked \subseteq before)
        /\ want' = [want EXCEPT ![r] = asked]
        /\ saved' = [saved EXCEPT ![r] =
             [@ EXCEPT !.done = before,
                       !.entity = IF "graph" \in asked THEN entity ELSE saved[r].entity]]
        /\ done' = [done EXCEPT ![VersionOf[r]] = before \cup asked]
  /\ Goto(r, "started")
  /\ UNCHANGED <<entity, chunk, fact, pending, held, releases, locks>>

\* The job is running; a graph run copies every entity row of the space.
Start(r) ==
  /\ Processing(r) /\ step[r] = "queued"
  /\ LET before == done[VersionOf[r]]
         asked == Targets[r] \cup (IF r \in Forced THEN before ELSE {})
     IN /\ r \in Forced \/ ~(asked \subseteq before)
        /\ want' = [want EXCEPT ![r] = asked]
        /\ saved' = [saved EXCEPT ![r] =
             [@ EXCEPT !.done = before,
                       !.entity = IF "graph" \in asked THEN entity ELSE saved[r].entity]]
  /\ Goto(r, "started")
  /\ UNCHANGED <<rows, pending, held, releases, locks>>

\* The version's chunks and facts are copied, superseded and committed.
Split(r) ==
  /\ step[r] = "started"
  /\ LET v == VersionOf[r]
         hasGraph == "graph" \in want[r]
     IN /\ saved' = [saved EXCEPT ![r] =
             [@ EXCEPT !.chunk = chunk[v], !.fact = hasGraph /\ fact[v]]]
        /\ chunk' = [chunk EXCEPT ![v] = IF @ = "absent" THEN @ ELSE "superseded"]
        /\ fact' = [fact EXCEPT ![v] = @ /\ ~hasGraph]
  /\ Goto(r, "split")
  /\ UNCHANGED <<entity, done, want, pending, held, releases, locks>>

\* New chunks are staged and profiled.  The profile is stored by writing the
\* whole parse_summary the session holds, unless that leaves it unchanged.
Stage(r) ==
  /\ step[r] = "split"
  /\ chunk' = [chunk EXCEPT ![VersionOf[r]] = "staged"]
  /\ \/ done' = [done EXCEPT ![VersionOf[r]] = saved[r].done]
     \/ UNCHANGED done
  /\ Goto(r, "staged")
  /\ UNCHANGED <<entity, fact, memory, releases, locks>>

Alive(e) == entity[e].status # "absent" /\ ~entity[e].deleted

\* Governance: missing entities are created and deleted ones revived, as
\* staged rows; facts are published.  Then the pending entities are listed:
\* every entity of the space that was not there, or deleted, at the start.
Govern(r) ==
  /\ step[r] = "staged" /\ "graph" \in want[r]
  /\ LET v == VersionOf[r]
         found == {e \in Mentions[v] : ~Alive(e)}
     IN /\ entity' = [e \in Entities |->
             IF e \in found THEN [status |-> "staged", deleted |-> FALSE] ELSE entity[e]]
        /\ fact' = [fact EXCEPT ![v] = TRUE]
        /\ held' = [held EXCEPT ![r] =
             {e \in Mentions[v] : entity'[e].status = "staged"}]
  /\ pending' = [pending EXCEPT ![r] =
       {e \in Entities : /\ entity'[e].status # "absent" /\ ~entity'[e].deleted
                         /\ \/ saved[r].entity[e].status = "absent"
                            \/ saved[r].entity[e].deleted}]
  /\ Goto(r, "governed")
  /\ UNCHANGED <<chunk, done, want, saved, releases, locks>>

-----------------------------------------------------------------------------
(* Graph releases.                                                          *)

\* publish_curation_task and run_inference_task have no rows of their own.
StartOther(r) ==
  /\ Kind[r] \in {"curation", "inference"} /\ step[r] = "queued"
  /\ Goto(r, "governed")
  /\ UNCHANGED <<rows, memory, releases, locks>>

\* Content of the graph that run r publishes: published entities and its
\* pending ones, and the facts between them whose chunk is in the projection.
GraphEntities(r) ==
  {e \in Entities : Alive(e) /\ (entity[e].status = "published" \/ e \in pending[r])}
GraphVersions(r) ==
  {v \in Projected(r, "graph") :
     fact[v] /\ Effective(v) /\ Mentions[v] \subseteq GraphEntities(r)}

\* publish_graph_snapshot, under its lock until the commit.
BuildGraph(r) ==
  /\ step[r] = "governed"
  /\ graphLock = NoRun
  /\ graphLock' = r
  /\ \E n \in 1..(Cardinality(Runs) + 1) :
       /\ IsNextNumber(graph, n)
       /\ graph' = [graph EXCEPT ![r] =
            [state |-> "built", number |-> n, entities |-> GraphEntities(r),
             versions |-> GraphVersions(r)]]
  /\ Goto(r, "building")
  /\ UNCHANGED <<rows, memory, index, release, current, knowledgeLock>>

\* The step's commit makes the provisional graph the latest one and releases
\* the lock; an inference run has nothing else to publish.
CommitGraph(r) ==
  /\ step[r] = "building"
  /\ graph' = [graph EXCEPT ![r].state = "published"]
  /\ graphLock' = IF graphLock = r THEN NoRun ELSE graphLock
  /\ IF Kind[r] = "inference"
     THEN Goto(r, "finished") /\ UNCHANGED release
     ELSE /\ Goto(r, "graphed")
          /\ release' = [release EXCEPT ![r].graph = r]
  /\ UNCHANGED <<rows, memory, index, current, knowledgeLock>>

\* A run without graph target takes the latest published graph.
PickGraph(r) ==
  /\ step[r] = "staged" /\ "graph" \notin want[r]
  /\ \E s \in Runs \cup {NoRun} :
       IsLatest(graph, s) /\ release' = [release EXCEPT ![r].graph = s]
  /\ Goto(r, "graphed")
  /\ UNCHANGED <<rows, memory, graph, index, current, locks>>

-----------------------------------------------------------------------------
(* Index releases and the switch of the knowledge release.                  *)

\* Full text and vectors are targets of their own; a curation builds both.
ChannelsOf(r) == IF Kind[r] = "curation" THEN Channels ELSE want[r] \cap Channels
Searching(r) == ChannelsOf(r) # {}

\* Every index takes the model of the index before, unless it brings its own.
HasModel == \E s \in Published(index) : "vector" \in index[s].channels

\* Mutant of TakenOver: a release without full text has no OpenSearch index.
TakenOverNever(before, channel) == {}

\* Of a channel it does not build a release takes over the OpenSearch index of the
\* one before, but no Qdrant collection: without an embedder there is none before.
TakenOver(before, channel) ==
  IF channel = "fulltext" /\ before # NoRun THEN index[before].holds[channel] ELSE {}

Holds(r, before) ==
  [channel \in Channels |->
     IF channel \in ChannelsOf(r) THEN {v \in Projected(r, channel) : Effective(v)}
     ELSE TakenOver(before, channel)]

IndexSnapshot(r) ==
  \E n \in 1..(Cardinality(Runs) + 1), before \in Runs \cup {NoRun} :
    /\ IsNextNumber(index, n) /\ IsLatest(index, before)
    /\ index' = [index EXCEPT ![r] =
         [state |-> "built", number |-> n, channels |-> ChannelsOf(r),
          holds |-> Holds(r, before)]]

\* Mutant of BuildIndex: the advisory lock is not taken.
BuildIndexUnlocked(r) ==
  /\ step[r] = "graphed" /\ Searching(r)
  /\ Kind[r] = "curation" => HasModel
  /\ IndexSnapshot(r)
  /\ release' = [release EXCEPT ![r].index = r]
  /\ Goto(r, "indexed")
  /\ UNCHANGED <<rows, memory, graph, current, locks>>

\* publish_index_snapshot, under its lock until the run commits.  A curation
\* run takes the model from the previous index, and fails without one.
BuildIndex(r) ==
  /\ step[r] = "graphed" /\ Searching(r)
  /\ Kind[r] = "curation" => HasModel
  /\ knowledgeLock = NoRun
  /\ knowledgeLock' = r
  /\ IndexSnapshot(r)
  /\ release' = [release EXCEPT ![r].index = r]
  /\ Goto(r, "indexed")
  /\ UNCHANGED <<rows, memory, graph, current, graphLock>>

\* A run without either channel takes the latest published index, unlocked.
PickIndex(r) ==
  /\ step[r] = "graphed" /\ ~Searching(r)
  /\ \E s \in Runs \cup {NoRun} :
       IsLatest(index, s) /\ release' = [release EXCEPT ![r].index = s]
  /\ Goto(r, "indexed")
  /\ UNCHANGED <<rows, memory, graph, index, current, locks>>

\* publish_current_knowledge_release reads the latest snapshots, unlocked.  It
\* has nothing to do without them or if the current release pairs them.
PickPair(r) ==
  /\ Kind[r] = "pair" /\ step[r] = "queued"
  /\ \E g, i \in Runs \cup {NoRun} :
       /\ IsLatest(graph, g) /\ IsLatest(index, i)
       /\ IF \/ NoRun \in {g, i}
             \/ \E k \in Runs : /\ IsLatest(release, k)
                                /\ release[k].graph = g /\ release[k].index = i
          THEN Goto(r, "ended") /\ UNCHANGED release
          ELSE /\ Goto(r, "indexed")
               /\ release' = [release EXCEPT ![r].graph = g, ![r].index = i]
  /\ UNCHANGED <<rows, memory, graph, index, current, locks>>

\* activate_knowledge_release: the published releases are read ...
ReadCurrent(r) ==
  /\ step[r] = "indexed" /\ release[r].index # NoRun
  /\ current' = [current EXCEPT ![r] = Published(release)]
  /\ Goto(r, "switching")
  /\ UNCHANGED <<rows, memory, graph, index, release, locks>>

\* ... then the next number is ...
ReadNumber(r) ==
  /\ step[r] = "switching"
  /\ \E n \in 1..(Cardinality(Runs) + 1) :
       /\ IsNextNumber(release, n)
       /\ release' = [release EXCEPT ![r].state = "drafted", ![r].number = n]
  /\ Goto(r, "numbered")
  /\ UNCHANGED <<rows, memory, graph, index, current, locks>>

\* ... and the release is inserted with all that its run publishes.
NumberTaken(r) == \E s \in Committed(release) : release[s].number = release[r].number

\* Entities a processing run publishes.  The ones it governed are written if
\* its session holds them as staged, the others if they are not deleted now.
EntitiesPublished(r) ==
  [e \in Entities |->
     IF e \in pending[r] /\ (IF e \in Mentions[VersionOf[r]] THEN e \in held[r]
                             ELSE ~entity[e].deleted)
     THEN [entity[e] EXCEPT !.status = "published"]
     ELSE entity[e]]

\* The version's rows are published with the release, and parse_summary names
\* the targets completed; those whose extraction failed are not among them.
RowsPublished(r) ==
  /\ chunk' = [chunk EXCEPT ![VersionOf[r]] = "published"]
  /\ entity' = EntitiesPublished(r)
  /\ \E missed \in SUBSET ({"graph", "writing_graph"} \cap want[r]) :
       done' = [done EXCEPT ![VersionOf[r]] =
                  (saved[r].done \ want[r]) \cup (want[r] \ missed)]
  /\ UNCHANGED fact

\* The final commit of a task or of the manual publication.
Activated(r) ==
  release' = [s \in Runs |->
    IF s = r THEN [release[r] EXCEPT !.state = "published"]
    ELSE IF s \in current[r] THEN [release[s] EXCEPT !.state = "superseded"]
    ELSE release[s]]

\* Mutant of Finish: the unique constraint on (space, number) is missing.
FinishUnchecked(r) ==
  /\ step[r] = "numbered"
  /\ Activated(r)
  /\ index' = [index EXCEPT ![r].state = IF @ = "built" THEN "published" ELSE @]
  /\ IF Processing(r) THEN RowsPublished(r) ELSE UNCHANGED rows
  /\ knowledgeLock' = IF knowledgeLock = r THEN NoRun ELSE knowledgeLock
  /\ Goto(r, "finished")
  /\ UNCHANGED <<memory, graph, current, graphLock>>

Finish(r) ==
  /\ step[r] = "numbered" /\ ~NumberTaken(r)
  /\ Activated(r)
  /\ index' = [index EXCEPT ![r].state = IF @ = "built" THEN "published" ELSE @]
  /\ IF Processing(r) THEN RowsPublished(r) ELSE UNCHANGED rows
  /\ knowledgeLock' = IF knowledgeLock = r THEN NoRun ELSE knowledgeLock
  /\ Goto(r, "finished")
  /\ UNCHANGED <<memory, graph, current, graphLock>>

\* A graph run in a space without index publishes its rows but no release.
FinishWithoutIndex(r) ==
  /\ step[r] = "indexed" /\ release[r].index = NoRun
  /\ RowsPublished(r)
  /\ Goto(r, "finished")
  /\ UNCHANGED <<memory, releases, locks>>

\* What follows the commit: duplicate scan, queueing of inference, job result.
End(r) ==
  /\ step[r] = "finished"
  /\ Goto(r, "ended")
  /\ UNCHANGED <<rows, memory, releases, locks>>

-----------------------------------------------------------------------------
(* Failures.                                                                *)

Working(r) == step[r] \notin {"queued"} \cup Final

\* The open transaction rolls back: its releases vanish ...
RolledBack(r) ==
  /\ index' = [index EXCEPT ![r] = IF @.state = "built" THEN NoIndex ELSE @]
  /\ release' = [release EXCEPT ![r] =
       IF @.state \in {"none", "drafted"} THEN NoRelease ELSE @]

\* Mutant of Unlocked: session locks, which a rollback does not release.
UnlockedNever(r) == UNCHANGED locks

\* ... and its advisory locks, which belong to the transaction, are free.
Unlocked(r) ==
  /\ graphLock' = IF graphLock = r THEN NoRun ELSE graphLock
  /\ knowledgeLock' = IF knowledgeLock = r THEN NoRun ELSE knowledgeLock

\* Mutant of GraphWithdrawn: the attempted graph is failed in any case.
GraphWithdrawnAlways(r) ==
  graph' = [graph EXCEPT ![r] =
    IF @.state = "built" THEN NoGraph
    ELSE IF @.state = "published" THEN [@ EXCEPT !.state = "failed"] ELSE @]

\* The attempted graph is failed unless a published knowledge release uses it.
GraphWithdrawn(r) ==
  graph' = [graph EXCEPT ![r] =
    IF @.state = "built" THEN NoGraph
    ELSE IF @.state = "published" /\ \A k \in Published(release) : release[k].graph # r
    THEN [@ EXCEPT !.state = "failed"] ELSE @]

\* The rows go back to what the run remembers; entities of the space it does
\* not remember are superseded and deleted, whoever made them.
RowsRestored(r) ==
  LET v == VersionOf[r] IN
  /\ chunk' = [chunk EXCEPT ![v] =
       IF @ = "absent" THEN @
       ELSE IF saved[r].chunk = "absent" THEN "superseded" ELSE saved[r].chunk]
  /\ done' = [done EXCEPT ![v] = saved[r].done]
  /\ IF "graph" \in want[r]
     THEN /\ fact' = [fact EXCEPT ![v] = saved[r].fact]
          /\ entity' = [e \in Entities |->
               IF entity[e].status = "absent" THEN entity[e]
               ELSE IF saved[r].entity[e].status # "absent" THEN saved[r].entity[e]
               ELSE [status |-> "superseded", deleted |-> TRUE]]
     ELSE UNCHANGED <<entity, fact>>

\* The except clause of process_version_task; the other tasks only record the
\* failure, and a graph they committed stays the latest one.
Compensated(r) ==
  /\ RolledBack(r) /\ Unlocked(r)
  /\ IF Processing(r)
     THEN GraphWithdrawn(r) /\ RowsRestored(r)
     ELSE /\ graph' = [graph EXCEPT ![r] = IF @.state = "built" THEN NoGraph ELSE @]
          /\ UNCHANGED rows

\* An external call or the database fails, also after the final commit.
Fail(r) ==
  /\ Working(r) /\ r \in MayFail
  /\ Compensated(r)
  /\ Goto(r, "failed")
  /\ UNCHANGED <<memory, current>>

\* The insert of the knowledge release violates its unique constraint.
Conflict(r) ==
  /\ step[r] = "numbered" /\ NumberTaken(r)
  /\ Compensated(r)
  /\ Goto(r, "failed")
  /\ UNCHANGED <<memory, current>>

\* A curation run in a space without vectors fails.
NoModel(r) ==
  /\ Kind[r] = "curation" /\ step[r] = "graphed" /\ ~HasModel
  /\ Compensated(r)
  /\ Goto(r, "failed")
  /\ UNCHANGED <<memory, current>>

\* The worker is killed: only the open transaction is undone.
Die(r) ==
  /\ Working(r) /\ r \in MayDie
  /\ RolledBack(r) /\ Unlocked(r)
  /\ graph' = [graph EXCEPT ![r] = IF @.state = "built" THEN NoGraph ELSE @]
  /\ Goto(r, "dead")
  /\ UNCHANGED <<rows, memory, current>>

-----------------------------------------------------------------------------
Advance(r) ==
  \/ SkipDone(r) \/ Start(r) \/ Split(r) \/ Stage(r) \/ Govern(r)
  \/ StartOther(r) \/ BuildGraph(r) \/ CommitGraph(r) \/ PickGraph(r)
  \/ BuildIndex(r) \/ PickIndex(r) \/ PickPair(r)
  \/ ReadCurrent(r) \/ ReadNumber(r) \/ Finish(r) \/ FinishWithoutIndex(r)
  \/ Conflict(r) \/ NoModel(r) \/ End(r)

Next == \E r \in Runs : Advance(r) \/ Refuse(r) \/ Fail(r) \/ Die(r)

Spec == Init /\ [][Next]_vars

\* A worker that is not killed goes on with its task.  A run takes each lock
\* at most once, so weak fairness also grants the locks.
FairSpec == Spec /\ \A r \in Runs : WF_vars(Advance(r))

-----------------------------------------------------------------------------
(* Safety.                                                                  *)

Distinct(table) ==
  \A r, s \in Committed(table) : r # s => table[r].number # table[s].number

\* Two runs never publish the same graph, index or knowledge release number,
\* although they choose it from what is committed long before they commit:
\* the advisory locks and the unique constraint see to it.
ReleaseNumbersUnique == Distinct(graph) /\ Distinct(index) /\ Distinct(release)

\* A published knowledge release never points at a graph that was withdrawn.
\* This needs runs that publish the graph they build: a run that picked the
\* latest one may release it after its own run failed and withdrew it.
KnowledgeKeepsItsGraph ==
  \A k \in Published(release) :
    release[k].graph # NoRun => graph[release[k].graph].state = "published"

\* A space has at most one published knowledge release, "atomic business pointer
\* pairing graph and search projections" (models.py).  This needs runs that build
\* an index of their own: the switch itself takes no lock.
OnePublishedKnowledge ==
  \A k, l \in Published(release) : k = l

\* Versions that a processing run has published, even if it failed afterwards.
Released == {v \in Versions : \E s \in Runs :
  /\ Processing(s) /\ VersionOf[s] = v
  /\ step[s] \in {"finished", "ended"} \/ s \in Committed(release)}

\* The text and the facts of a version that is not finished are not carried
\* early into an index or a graph by other publications of its space: what is
\* under construction holds, besides the run's own version, only versions whose
\* completion was committed.  Entities are not spoken of here: the pending
\* entities of a run are all that appeared since it began, so a graph may well
\* hold staged entities of documents that are not finished.
UnfinishedStaysOut ==
  \A r \in Runs :
    /\ step[r] = "building" => graph[r].versions \subseteq Released \cup Own(r)
    /\ index[r].state = "built" => \A channel \in Channels :
         index[r].holds[channel] \subseteq Released \cup Own(r)

\* "A target is not marked completed before its external projection succeeded"
\* (KNOWLEDGE_PROCESSING_PERFORMANCE.md): a completed target of a version was
\* published by a run of that version, through failures, restarts and retries
\* that write whole summaries they read before; either channel by an index that
\* built this channel.
CompletionFollowsProjection ==
  \A v \in Versions :
    /\ \A channel \in Channels \cap done[v] :
         \E s \in Committed(index) :
           Processing(s) /\ VersionOf[s] = v /\ channel \in index[s].channels
    /\ "graph" \in done[v] =>
         \E s \in Committed(graph) : Processing(s) /\ VersionOf[s] = v

-----------------------------------------------------------------------------
(* What readers see of the two channels.  The full text side implements     *)
(* SearchCatalogue: no version that completed full text ever drops out of    *)
(* the knowledge release readers see.  The vectors do not: a run that builds *)
(* full text only releases an index without any.                            *)

Completed(channel) == {v \in Versions : channel \in done[v]}
Current == {k \in Published(release) : IsLatest(release, k)}

Live == Completed("fulltext")
Shown == {v \in Versions : \E k \in Current : v \in index[release[k].index].holds["fulltext"]}

\* A release whose index built vectors shows every version that completed them,
\* whatever other runs completed while it was built: readers find the vectors of
\* the space or none at all, never some.
VectorsWhole ==
  \A k \in Current :
    "vector" \in index[release[k].index].channels =>
      Completed("vector") \subseteq index[release[k].index].holds["vector"]

Catalogue == INSTANCE SearchCatalogue WITH live <- Live, shown <- Shown

\* However runs interleave and fail, and whichever channels they build, a switch
\* of the knowledge release shows the full text of every version that has it.
ImplementsCatalogue == Catalogue!Spec

-----------------------------------------------------------------------------
(* Liveness.                                                                *)

\* Every run that has begun ends: no run waits for ever for the locks of the
\* others, whichever of them fail.
RunsEnd == \A r \in Runs : Working(r) ~> step[r] \in Final

-----------------------------------------------------------------------------
(* What the repository says of the program and the code does not do.        *)

\* "A failed task restores the old state" (KNOWLEDGE_PROCESSING_PERFORMANCE.md):
\* it leaves alone the published entities of a version another run completed.
FailureSparesOthers ==
  [][\A r, s \in Runs :
       Fail(r) /\ Processing(s) /\ step[s] = "ended" /\ VersionOf[s] # VersionOf[r] =>
         \A e \in Mentions[VersionOf[s]] :
           entity[e].status = "published" /\ ~entity[e].deleted => entity'[e] = entity[e]]_vars

=============================================================================
