----------------------- MODULE KnowledgePublishProofs -----------------------
(***************************************************************************)
(* Theorems about KnowledgePublish, for every finite set of runs, every    *)
(* kind and target of theirs, and every set of versions and entities.      *)
(*                                                                         *)
(* Unique numbers are not inductive: a number is chosen in one step and    *)
(* committed in a later one.  Numbered says what holds in between.         *)
(* The pointers of the knowledge release are kept only by runs that build  *)
(* what they publish: EachSearches assumes an index of either channel, or  *)
(* of both, EachBuildsAll a graph too.  Switched says how the index lock   *)
(* carries through the switch, Pointing how the pointer to the own graph.  *)
(***************************************************************************)
EXTENDS KnowledgePublish, FiniteSetTheorems, TLAPS

-----------------------------------------------------------------------------
(* Types.                                                                   *)

\* The numbers a release may take are natural.
LEMMA NumbersNatural == \A n \in 1..(Cardinality(Runs) + 1) : n \in Nat
<1>1. Cardinality(Runs) \in Nat BY FS_CardinalityType, RunsAssumption
<1> QED BY <1>1

\* Moving a run on keeps the program counters well typed.
LEMMA GotoTypes ==
  ASSUME TypeOK, NEW r \in Runs, NEW to \in Steps, Goto(r, to)
  PROVE  step' \in [Runs -> Steps]
  BY DEF TypeOK, Goto

LEMMA ConfigurationTypes ==
  ASSUME NEW r \in Runs
  PROVE  /\ VersionOf[r] \in Versions
         /\ Targets[r] \subseteq Goals
         /\ \A v \in Versions : Mentions[v] \subseteq Entities
  BY RunsAssumption

\* Updates of single fields, written as whole records.
LEMMA SnapshotStarted ==
  ASSUME NEW s \in Snapshots, NEW d \in SUBSET Goals, NEW e \in [Entities -> EntityRows]
  PROVE  [s EXCEPT !.done = d, !.entity = e] \in Snapshots
  BY DEF Snapshots

LEMMA SnapshotCopied ==
  ASSUME NEW s \in Snapshots, NEW c \in RowStates, NEW f \in BOOLEAN
  PROVE  [s EXCEPT !.chunk = c, !.fact = f] \in Snapshots
  BY DEF Snapshots

LEMMA GraphFields ==
  ASSUME NEW g \in GraphReleases, NEW s \in {"none", "built", "published", "failed"}
  PROVE  [g EXCEPT !.state = s] = [state |-> s, number |-> g.number,
                                   entities |-> g.entities, versions |-> g.versions]
  BY DEF GraphReleases

LEMMA IndexFields ==
  ASSUME NEW i \in IndexReleases, NEW s \in {"none", "built", "published"}
  PROVE  [i EXCEPT !.state = s] = [state |-> s, number |-> i.number,
                                   channels |-> i.channels, holds |-> i.holds]
  BY DEF IndexReleases

LEMMA ReleaseGraph ==
  ASSUME NEW k \in KnowledgeReleases, NEW g \in Runs \cup {NoRun}
  PROVE  [k EXCEPT !.graph = g] = [state |-> k.state, number |-> k.number,
                                   graph |-> g, index |-> k.index]
  BY DEF KnowledgeReleases

LEMMA ReleaseIndex ==
  ASSUME NEW k \in KnowledgeReleases, NEW i \in Runs \cup {NoRun}
  PROVE  [k EXCEPT !.index = i] = [state |-> k.state, number |-> k.number,
                                   graph |-> k.graph, index |-> i]
  BY DEF KnowledgeReleases

LEMMA ReleaseState ==
  ASSUME NEW k \in KnowledgeReleases, NEW s \in {"none", "drafted", "published", "superseded"}
  PROVE  [k EXCEPT !.state = s] = [state |-> s, number |-> k.number,
                                   graph |-> k.graph, index |-> k.index]
  BY DEF KnowledgeReleases

LEMMA ReleaseNumber ==
  ASSUME NEW k \in KnowledgeReleases, NEW n \in Nat
  PROVE  [k EXCEPT !.number = n] = [state |-> k.state, number |-> n,
                                    graph |-> k.graph, index |-> k.index]
  BY DEF KnowledgeReleases

-----------------------------------------------------------------------------
(* What the actions do to the three tables of releases.                     *)

\* Pointing a release at a graph or an index changes nothing else of it.
Pointed(r, g, i) ==
  release' = [release EXCEPT ![r] = [state |-> release[r].state, number |-> release[r].number,
                                     graph |-> g, index |-> i]]

LEMMA PointedTypes ==
  ASSUME TypeOK, NEW r \in Runs, NEW g \in Runs \cup {NoRun}, NEW i \in Runs \cup {NoRun},
         Pointed(r, g, i)
  PROVE  release' \in [Runs -> KnowledgeReleases]
  BY DEF Pointed, TypeOK, KnowledgeReleases

LEMMA PickGraphEffect ==
  ASSUME TypeOK, NEW r \in Runs, PickGraph(r)
  PROVE  \E g \in Runs \cup {NoRun} : Pointed(r, g, release[r].index)
<1>1. PICK g \in Runs \cup {NoRun} : release' = [release EXCEPT ![r].graph = g]
  BY DEF PickGraph
<1>2. release[r] \in KnowledgeReleases BY DEF TypeOK
<1>3. [release[r] EXCEPT !.graph = g] = [state |-> release[r].state,
        number |-> release[r].number, graph |-> g, index |-> release[r].index]
  BY <1>2, ReleaseGraph
<1>4. Pointed(r, g, release[r].index) BY <1>1, <1>3, Zenon DEF Pointed
<1> QED BY <1>4

LEMMA PickIndexEffect ==
  ASSUME TypeOK, NEW r \in Runs, PickIndex(r)
  PROVE  \E i \in Runs \cup {NoRun} : Pointed(r, release[r].graph, i)
<1>1. PICK i \in Runs \cup {NoRun} : release' = [release EXCEPT ![r].index = i]
  BY DEF PickIndex
<1>2. release[r] \in KnowledgeReleases BY DEF TypeOK
<1>3. [release[r] EXCEPT !.index = i] = [state |-> release[r].state,
        number |-> release[r].number, graph |-> release[r].graph, index |-> i]
  BY <1>2, ReleaseIndex
<1>4. Pointed(r, release[r].graph, i) BY <1>1, <1>3, Zenon DEF Pointed
<1> QED BY <1>4

LEMMA PickPairEffect ==
  ASSUME TypeOK, NEW r \in Runs, PickPair(r)
  PROVE  \/ UNCHANGED release /\ Goto(r, "ended")
         \/ /\ \E g, i \in Runs : Pointed(r, g, i)
            /\ Goto(r, "indexed")
<1>1. CASE UNCHANGED release /\ Goto(r, "ended") BY <1>1
<1>2. CASE /\ \E g, i \in Runs :
                release' = [release EXCEPT ![r].graph = g, ![r].index = i]
           /\ Goto(r, "indexed")
  <2>1. PICK g, i \in Runs :
          release' = [release EXCEPT ![r].graph = g, ![r].index = i]
    BY <1>2
  <2>2. release[r] \in KnowledgeReleases BY DEF TypeOK
  <2>3. Pointed(r, g, i)
    <3> DEFINE first == [state |-> release[r].state, number |-> release[r].number,
                         graph |-> g, index |-> release[r].index]
               middle == [release EXCEPT ![r].graph = g]
    <3>1. middle = [release EXCEPT ![r] = first]
      <4>1. [release[r] EXCEPT !.graph = g] = first BY <2>2, ReleaseGraph
      <4> QED BY <4>1, Zenon
    <3>2. middle[r] = first /\ first \in KnowledgeReleases
      BY <2>2, <3>1 DEF TypeOK, KnowledgeReleases
    <3>3. [first EXCEPT !.index = i] = [state |-> release[r].state,
            number |-> release[r].number, graph |-> g, index |-> i]
      BY <3>2, ReleaseIndex
    <3>4. release' = [middle EXCEPT ![r].index = i] BY <2>1
    <3> QED BY <3>1, <3>2, <3>3, <3>4 DEF Pointed
  <2> QED BY <1>2, <2>3
<1> QED BY <1>1, <1>2 DEF PickPair

LEMMA CommitGraphEffect ==
  ASSUME TypeOK, NEW r \in Runs, CommitGraph(r)
  PROVE  /\ graph' = [graph EXCEPT ![r] =
                        [state |-> "published", number |-> graph[r].number,
                         entities |-> graph[r].entities, versions |-> graph[r].versions]]
         /\ \/ Kind[r] = "inference" /\ Goto(r, "finished") /\ UNCHANGED release
            \/ /\ Kind[r] # "inference" /\ Goto(r, "graphed")
               /\ Pointed(r, r, release[r].index)
<1>1. [graph[r] EXCEPT !.state = "published"] =
        [state |-> "published", number |-> graph[r].number,
         entities |-> graph[r].entities, versions |-> graph[r].versions]
  BY GraphFields DEF TypeOK
<1>2. [release[r] EXCEPT !.graph = r] =
        [state |-> release[r].state, number |-> release[r].number,
         graph |-> r, index |-> release[r].index]
  BY ReleaseGraph DEF TypeOK
<1>3. graph' = [graph EXCEPT ![r] =
        [state |-> "published", number |-> graph[r].number,
         entities |-> graph[r].entities, versions |-> graph[r].versions]]
  BY <1>1, Zenon DEF CommitGraph
<1>4. CASE Kind[r] = "inference" BY <1>3, <1>4 DEF CommitGraph
<1>5. CASE Kind[r] # "inference"
  <2>1. Goto(r, "graphed") /\ release' = [release EXCEPT ![r].graph = r]
    BY <1>5, Zenon DEF CommitGraph
  <2>2. Pointed(r, r, release[r].index) BY <1>2, <2>1, Zenon DEF Pointed
  <2> QED BY <1>3, <1>5, <2>1, <2>2
<1> QED BY <1>4, <1>5

LEMMA BuildIndexEffect ==
  ASSUME TypeOK, NEW r \in Runs, BuildIndex(r)
  PROVE  /\ \E n \in 1..(Cardinality(Runs) + 1), before \in Runs \cup {NoRun} :
              /\ IsNextNumber(index, n) /\ IsLatest(index, before)
              /\ Holds(r, before) \in [Channels -> SUBSET Versions]
              /\ index' = [index EXCEPT ![r] =
                             [state |-> "built", number |-> n, channels |-> ChannelsOf(r),
                              holds |-> Holds(r, before)]]
         /\ ChannelsOf(r) \subseteq Channels
         /\ Pointed(r, release[r].graph, r)
<1>1. ASSUME NEW before \in Runs \cup {NoRun}
      PROVE  Holds(r, before) \in [Channels -> SUBSET Versions]
  <2>1. ASSUME NEW channel \in Channels
        PROVE  /\ {v \in Projected(r, channel) : Effective(v)} \in SUBSET Versions
               /\ TakenOver(before, channel) \in SUBSET Versions
    <3>1. {v \in Projected(r, channel) : Effective(v)} \in SUBSET Versions
      BY ConfigurationTypes DEF Projected, Own
    <3>2. before # NoRun => index[before].holds[channel] \in SUBSET Versions
      BY DEF TypeOK, IndexReleases
    <3> QED BY <3>1, <3>2 DEF TakenOver
  <2> QED BY <2>1 DEF Holds
<1>2. [release[r] EXCEPT !.index = r] = [state |-> release[r].state,
        number |-> release[r].number, graph |-> release[r].graph, index |-> r]
  BY ReleaseIndex DEF TypeOK
<1>3. Pointed(r, release[r].graph, r) BY <1>2, Zenon DEF BuildIndex, Pointed
<1>4. ChannelsOf(r) \subseteq Channels BY DEF ChannelsOf
<1> QED BY <1>1, <1>3, <1>4 DEF BuildIndex, IndexSnapshot

LEMMA ReadNumberEffect ==
  ASSUME TypeOK, NEW r \in Runs, ReadNumber(r)
  PROVE  \E n \in 1..(Cardinality(Runs) + 1) :
           release' = [release EXCEPT ![r] =
             [state |-> "drafted", number |-> n,
              graph |-> release[r].graph, index |-> release[r].index]]
<1>1. PICK n \in 1..(Cardinality(Runs) + 1) :
        release' = [release EXCEPT ![r].state = "drafted", ![r].number = n]
  BY DEF ReadNumber
<1> DEFINE first == [state |-> "drafted", number |-> release[r].number,
                     graph |-> release[r].graph, index |-> release[r].index]
           middle == [release EXCEPT ![r].state = "drafted"]
<1>2. release[r] \in KnowledgeReleases BY DEF TypeOK
<1>3. [release[r] EXCEPT !.state = "drafted"] = first BY <1>2, ReleaseState
<1>4. middle = [release EXCEPT ![r] = first] BY <1>3, Zenon
<1>5. middle[r] = first /\ first \in KnowledgeReleases
  BY <1>2, <1>4 DEF TypeOK, KnowledgeReleases
<1>6. [first EXCEPT !.number = n] =
        [state |-> "drafted", number |-> n,
         graph |-> release[r].graph, index |-> release[r].index]
  BY <1>5, NumbersNatural, ReleaseNumber
<1>7. release' = [middle EXCEPT ![r].number = n] BY <1>1
<1>8. release' = [release EXCEPT ![r] =
        [state |-> "drafted", number |-> n,
         graph |-> release[r].graph, index |-> release[r].index]]
  BY <1>4, <1>5, <1>6, <1>7
<1> QED BY <1>8

\* The final commit: the run's own release is published, the releases it had
\* read as published are superseded, and nothing else changes of any release.
LEMMA FinishEffect ==
  ASSUME TypeOK, NEW r \in Runs, Finish(r)
  PROVE  /\ release' \in [Runs -> KnowledgeReleases]
         /\ index' \in [Runs -> IndexReleases]
         /\ \A s \in Runs :
              /\ release'[s].number = release[s].number
              /\ release'[s].graph = release[s].graph
              /\ release'[s].index = release[s].index
              /\ release'[s].state = IF s = r THEN "published"
                                     ELSE IF s \in current[r] THEN "superseded"
                                     ELSE release[s].state
              /\ index'[s].number = index[s].number
              /\ index'[s].channels = index[s].channels /\ index'[s].holds = index[s].holds
              /\ index'[s].state = IF s = r /\ index[r].state = "built" THEN "published"
                                   ELSE index[s].state
              /\ s # r => index'[s] = index[s]
<1>1. \A s \in Runs, to \in {"published", "superseded"} :
        [release[s] EXCEPT !.state = to] =
          [state |-> to, number |-> release[s].number,
           graph |-> release[s].graph, index |-> release[s].index]
  BY ReleaseState DEF TypeOK
<1>2. \A s \in Runs : release'[s] =
        IF s = r THEN [state |-> "published", number |-> release[r].number,
                       graph |-> release[r].graph, index |-> release[r].index]
        ELSE IF s \in current[r]
        THEN [state |-> "superseded", number |-> release[s].number,
              graph |-> release[s].graph, index |-> release[s].index]
        ELSE release[s]
  BY <1>1 DEF Finish, Activated
<1>3. release' \in [Runs -> KnowledgeReleases]
  <2>1. ASSUME NEW s \in Runs PROVE release'[s] \in KnowledgeReleases
    <3>1. release[s] \in KnowledgeReleases BY DEF TypeOK
    <3>2. \A to \in {"published", "superseded"} :
            [state |-> to, number |-> release[s].number,
             graph |-> release[s].graph, index |-> release[s].index] \in KnowledgeReleases
      BY <3>1 DEF KnowledgeReleases
    <3> QED BY <1>2, <3>1, <3>2
  <2>2. release' = [s \in Runs |-> release'[s]] BY DEF Finish, Activated
  <2> QED BY <2>1, <2>2
<1> DEFINE to == IF index[r].state = "built" THEN "published" ELSE index[r].state
<1>4. [index[r] EXCEPT !.state = to] =
        [state |-> to, number |-> index[r].number, channels |-> index[r].channels,
         holds |-> index[r].holds]
  BY IndexFields DEF TypeOK, IndexReleases
<1>5. index' = [index EXCEPT ![r] =
        [state |-> to, number |-> index[r].number, channels |-> index[r].channels,
         holds |-> index[r].holds]]
  BY <1>4, Zenon DEF Finish
<1>6. index' \in [Runs -> IndexReleases]
  BY <1>5 DEF TypeOK, IndexReleases
<1>7. \A s \in Runs :
        /\ index'[s].number = index[s].number
        /\ index'[s].channels = index[s].channels /\ index'[s].holds = index[s].holds
        /\ index'[s].state = IF s = r /\ index[r].state = "built" THEN "published"
                             ELSE index[s].state
        /\ s # r => index'[s] = index[s]
  BY <1>5 DEF TypeOK
<1> QED BY <1>2, <1>3, <1>6, <1>7

\* A run that gives up undoes its open transaction, in every way of giving up.
GivesUp(r) == Fail(r) \/ Conflict(r) \/ NoModel(r) \/ Die(r)

LEMMA GivesUpEffect ==
  ASSUME TypeOK, NEW r \in Runs, GivesUp(r)
  PROVE  /\ \E to \in {"failed", "dead"} : Goto(r, to)
         /\ RolledBack(r) /\ Unlocked(r)
         /\ graph' \in [Runs -> GraphReleases]
         /\ \A s \in Runs : s # r => graph'[s] = graph[s]
         /\ \/ graph[r].state # "built" /\ graph'[r] = graph[r]
            \/ graph[r].state = "built" /\ graph'[r] = NoGraph
            \/ /\ graph[r].state = "published" /\ graph'[r].state = "failed"
               /\ graph'[r].number = graph[r].number
               /\ \A k \in Published(release) : release[k].graph # r
         /\ UNCHANGED <<want, current>>
<1>1. /\ \E to \in {"failed", "dead"} : Goto(r, to)
      /\ RolledBack(r) /\ Unlocked(r)
      /\ UNCHANGED <<want, current>>
  BY DEF GivesUp, Fail, Conflict, NoModel, Die, Compensated, memory
<1>2. graph[r] \in GraphReleases BY DEF TypeOK
<1> DEFINE ended == [state |-> "failed", number |-> graph[r].number,
                     entities |-> graph[r].entities, versions |-> graph[r].versions]
<1>3. NoGraph \in GraphReleases /\ ended \in GraphReleases
  BY <1>2 DEF NoGraph, GraphReleases
<1>4. CASE GraphWithdrawn(r)
  <2>1. [graph[r] EXCEPT !.state = "failed"] = ended BY <1>2, GraphFields
  <2>2. graph' = [graph EXCEPT ![r] =
          IF graph[r].state = "built" THEN NoGraph
          ELSE IF graph[r].state = "published"
                  /\ \A k \in Published(release) : release[k].graph # r
          THEN ended ELSE graph[r]]
    BY <1>4, <2>1, Zenon DEF GraphWithdrawn
  <2> QED BY <1>1, <1>2, <1>3, <2>2 DEF TypeOK
<1>5. CASE graph' = [graph EXCEPT ![r] = IF @.state = "built" THEN NoGraph ELSE @]
  BY <1>1, <1>2, <1>3, <1>5 DEF TypeOK
<1> QED BY <1>4, <1>5 DEF GivesUp, Fail, Conflict, NoModel, Die, Compensated

LEMMA RolledBackEffect ==
  ASSUME TypeOK, NEW r \in Runs, RolledBack(r)
  PROVE  /\ index' \in [Runs -> IndexReleases]
         /\ release' \in [Runs -> KnowledgeReleases]
         /\ \A s \in Runs :
              /\ index'[s] = IF s = r /\ index[r].state = "built" THEN NoIndex ELSE index[s]
              /\ release'[s] = IF s = r /\ release[r].state \in {"none", "drafted"}
                               THEN NoRelease ELSE release[s]
<1>1. NoIndex \in IndexReleases /\ NoRelease \in KnowledgeReleases
  BY DEF NoIndex, IndexReleases, NoRelease, KnowledgeReleases
<1>2. index' = [index EXCEPT ![r] = IF index[r].state = "built" THEN NoIndex ELSE index[r]]
  BY DEF RolledBack
<1>3. release' = [release EXCEPT ![r] =
        IF release[r].state \in {"none", "drafted"} THEN NoRelease ELSE release[r]]
  BY DEF RolledBack
<1> QED BY <1>1, <1>2, <1>3 DEF TypeOK

-----------------------------------------------------------------------------
(* Every action keeps the types.                                            *)

\* The steps of a processing run before its graph keep the types.
LEMMA ProcessTypes ==
  ASSUME TypeOK, NEW r \in Runs,
         SkipDone(r) \/ Refuse(r) \/ Start(r) \/ Split(r) \/ Stage(r) \/ Govern(r)
  PROVE  TypeOK'
<1> USE DEF rows, memory, releases, locks
<1>0. VersionOf[r] \in Versions BY ConfigurationTypes
<1>1. CASE SkipDone(r) \/ Refuse(r)
  <2>1. step' \in [Runs -> Steps]
    BY <1>1, GotoTypes DEF SkipDone, Refuse, Steps
  <2> QED BY <1>1, <2>1 DEF SkipDone, Refuse, TypeOK
<1>2. CASE Start(r)
  <2>1. step' \in [Runs -> Steps] BY <1>2, GotoTypes DEF Start, Steps
  <2> DEFINE before == done[VersionOf[r]]
             asked == Targets[r] \cup (IF r \in Forced THEN before ELSE {})
  <2>2. before \subseteq Goals /\ asked \subseteq Goals
    BY <1>0, ConfigurationTypes DEF TypeOK
  <2> DEFINE copied == IF "graph" \in asked THEN entity ELSE saved[r].entity
             taken == [saved[r] EXCEPT !.done = before, !.entity = copied]
  <2>3. taken \in Snapshots
    <3>1. saved[r] \in Snapshots BY DEF TypeOK
    <3>2. copied \in [Entities -> EntityRows] BY <3>1 DEF TypeOK, Snapshots
    <3>3. before \in SUBSET Goals BY <2>2
    <3> HIDE DEF before, copied
    <3> QED BY <3>1, <3>2, <3>3, SnapshotStarted, Zenon
  <2>4. saved' = [saved EXCEPT ![r] = taken] BY <1>2, Zenon DEF Start
  <2>5. saved' \in [Runs -> Snapshots] /\ want' \in [Runs -> SUBSET Goals]
    BY <1>2, <2>2, <2>3, <2>4 DEF Start, TypeOK
  <2> QED BY <1>2, <2>1, <2>5 DEF Start, TypeOK
<1>3. CASE Split(r)
  <2>1. step' \in [Runs -> Steps] BY <1>3, GotoTypes DEF Split, Steps
  <2>2. saved' \in [Runs -> Snapshots]
    <3> DEFINE facts == "graph" \in want[r] /\ fact[VersionOf[r]]
               taken == [saved[r] EXCEPT !.chunk = chunk[VersionOf[r]], !.fact = facts]
    <3>1. taken \in Snapshots
      <4>1. saved[r] \in Snapshots /\ chunk[VersionOf[r]] \in RowStates
        BY <1>0 DEF TypeOK
      <4>2. facts \in BOOLEAN BY Zenon
      <4> QED BY <4>1, <4>2, SnapshotCopied
    <3>2. saved' = [saved EXCEPT ![r] = taken] BY <1>3, Zenon DEF Split
    <3> QED BY <3>1, <3>2 DEF TypeOK
  <2>3. chunk' \in [Versions -> RowStates] /\ fact' \in [Versions -> BOOLEAN]
    BY <1>0, <1>3 DEF Split, TypeOK, RowStates
  <2> QED BY <1>3, <2>1, <2>2, <2>3 DEF Split, TypeOK
<1>4. CASE Stage(r)
  <2>1. step' \in [Runs -> Steps] BY <1>4, GotoTypes DEF Stage, Steps
  <2>2. chunk' \in [Versions -> RowStates] BY <1>4 DEF Stage, TypeOK, RowStates
  <2>3. done' \in [Versions -> SUBSET Goals] BY <1>4 DEF Stage, TypeOK, Snapshots
  <2> QED BY <1>4, <2>1, <2>2, <2>3 DEF Stage, TypeOK
<1>5. CASE Govern(r)
  <2>1. step' \in [Runs -> Steps] BY <1>5, GotoTypes DEF Govern, Steps
  <2>2. entity' \in [Entities -> EntityRows]
    BY <1>5 DEF Govern, TypeOK, EntityRows, RowStates
  <2>3. fact' \in [Versions -> BOOLEAN] BY <1>5 DEF Govern, TypeOK
  <2>4. held' \in [Runs -> SUBSET Entities] /\ pending' \in [Runs -> SUBSET Entities]
    BY <1>0, <1>5, ConfigurationTypes DEF Govern, TypeOK
  <2> QED BY <1>5, <2>1, <2>2, <2>3, <2>4 DEF Govern, TypeOK
<1> QED BY <1>1, <1>2, <1>3, <1>4, <1>5

\* The steps that build or choose a graph or an index keep the types.
LEMMA SnapshotTypes ==
  ASSUME TypeOK, NEW r \in Runs,
         \/ StartOther(r) \/ BuildGraph(r) \/ CommitGraph(r) \/ PickGraph(r)
         \/ BuildIndex(r) \/ PickIndex(r) \/ PickPair(r)
  PROVE  TypeOK'
<1> USE DEF rows, memory, releases, locks
<1>1. CASE StartOther(r)
  <2>1. step' \in [Runs -> Steps] BY <1>1, GotoTypes DEF StartOther, Steps
  <2> QED BY <1>1, <2>1 DEF StartOther, TypeOK
<1>2. CASE BuildGraph(r)
  <2>1. step' \in [Runs -> Steps] BY <1>2, GotoTypes DEF BuildGraph, Steps
  <2>2. GraphEntities(r) \subseteq Entities BY DEF GraphEntities
  <2>3. GraphVersions(r) \subseteq Versions
    BY ConfigurationTypes DEF GraphVersions, Projected, Own
  <2>4. graph' \in [Runs -> GraphReleases]
    BY <1>2, <2>2, <2>3, NumbersNatural DEF BuildGraph, TypeOK, GraphReleases
  <2> QED BY <1>2, <2>1, <2>4 DEF BuildGraph, TypeOK
<1>3. CASE CommitGraph(r)
  <2>1. step' \in [Runs -> Steps]
    BY <1>3, CommitGraphEffect, GotoTypes DEF Steps
  <2>2. graph' \in [Runs -> GraphReleases]
    <3>1. graph[r] \in GraphReleases BY DEF TypeOK
    <3>2. [state |-> "published", number |-> graph[r].number,
           entities |-> graph[r].entities, versions |-> graph[r].versions] \in GraphReleases
      BY <3>1 DEF GraphReleases
    <3> QED BY <1>3, <3>2, CommitGraphEffect DEF TypeOK
  <2>3. release' \in [Runs -> KnowledgeReleases]
    BY <1>3, CommitGraphEffect, PointedTypes DEF TypeOK, KnowledgeReleases
  <2>4. graphLock' \in Runs \cup {NoRun} BY <1>3 DEF CommitGraph, TypeOK
  <2> QED BY <1>3, <2>1, <2>2, <2>3, <2>4 DEF CommitGraph, TypeOK
<1>4. CASE PickGraph(r) \/ PickIndex(r)
  <2>1. step' \in [Runs -> Steps] BY <1>4, GotoTypes DEF PickGraph, PickIndex, Steps
  <2>2. release' \in [Runs -> KnowledgeReleases]
    BY <1>4, PickGraphEffect, PickIndexEffect, PointedTypes DEF TypeOK, KnowledgeReleases
  <2> QED BY <1>4, <2>1, <2>2 DEF PickGraph, PickIndex, TypeOK
<1>5. CASE BuildIndex(r)
  <2>1. step' \in [Runs -> Steps] BY <1>5, GotoTypes DEF BuildIndex, Steps
  <2>2. index' \in [Runs -> IndexReleases]
    <3>1. PICK n \in 1..(Cardinality(Runs) + 1), holding \in [Channels -> SUBSET Versions] :
            index' = [index EXCEPT ![r] =
                        [state |-> "built", number |-> n, channels |-> ChannelsOf(r),
                         holds |-> holding]]
      BY <1>5, BuildIndexEffect
    <3>2. ChannelsOf(r) \subseteq Channels BY <1>5, BuildIndexEffect
    <3> QED BY <3>1, <3>2, NumbersNatural DEF TypeOK, IndexReleases
  <2>3. release' \in [Runs -> KnowledgeReleases]
    <3>1. release[r].graph \in Runs \cup {NoRun} BY DEF TypeOK, KnowledgeReleases
    <3> QED BY <1>5, <3>1, BuildIndexEffect, PointedTypes
  <2> QED BY <1>5, <2>1, <2>2, <2>3 DEF BuildIndex, TypeOK
<1>6. CASE PickPair(r)
  <2>1. step' \in [Runs -> Steps] BY <1>6, PickPairEffect, GotoTypes DEF Steps
  <2>2. release' \in [Runs -> KnowledgeReleases]
    BY <1>6, PickPairEffect, PointedTypes DEF TypeOK
  <2> QED BY <1>6, <2>1, <2>2 DEF PickPair, TypeOK
<1> QED BY <1>1, <1>2, <1>3, <1>4, <1>5, <1>6

LEMMA EntityPublished ==
  ASSUME NEW e \in EntityRows
  PROVE  [e EXCEPT !.status = "published"] \in EntityRows
  BY DEF EntityRows, RowStates

\* Publishing the rows of a version keeps their types.
LEMMA RowsTypes ==
  ASSUME TypeOK, NEW r \in Runs, RowsPublished(r)
  PROVE  /\ entity' \in [Entities -> EntityRows] /\ chunk' \in [Versions -> RowStates]
         /\ fact' \in [Versions -> BOOLEAN] /\ done' \in [Versions -> SUBSET Goals]
<1>1. chunk' \in [Versions -> RowStates] /\ fact' \in [Versions -> BOOLEAN]
  BY DEF RowsPublished, TypeOK, RowStates
<1>2. done' \in [Versions -> SUBSET Goals]
  <2>1. PICK missed \in SUBSET ({"graph", "writing_graph"} \cap want[r]) :
          done' = [done EXCEPT ![VersionOf[r]] =
                     (saved[r].done \ want[r]) \cup (want[r] \ missed)]
    BY DEF RowsPublished
  <2>2. saved[r] \in Snapshots /\ want[r] \subseteq Goals BY DEF TypeOK
  <2>3. saved[r].done \subseteq Goals BY <2>2 DEF Snapshots
  <2> QED BY <2>1, <2>2, <2>3 DEF TypeOK
<1>3. entity' \in [Entities -> EntityRows]
  <2>1. \A e \in Entities : [entity[e] EXCEPT !.status = "published"] \in EntityRows
    BY EntityPublished DEF TypeOK
  <2> QED BY <2>1 DEF RowsPublished, EntitiesPublished, TypeOK
<1> QED BY <1>1, <1>2, <1>3

\* The steps that switch the knowledge release keep the types.
LEMMA SwitchTypes ==
  ASSUME TypeOK, NEW r \in Runs,
         ReadCurrent(r) \/ ReadNumber(r) \/ Finish(r) \/ FinishWithoutIndex(r) \/ End(r)
  PROVE  TypeOK'
<1> USE DEF rows, memory, releases, locks
<1>1. CASE ReadCurrent(r)
  <2>1. step' \in [Runs -> Steps] BY <1>1, GotoTypes DEF ReadCurrent, Steps
  <2>2. current' \in [Runs -> SUBSET Runs] BY <1>1 DEF ReadCurrent, Published, TypeOK
  <2> QED BY <1>1, <2>1, <2>2 DEF ReadCurrent, TypeOK
<1>2. CASE ReadNumber(r)
  <2>1. step' \in [Runs -> Steps] BY <1>2, GotoTypes DEF ReadNumber, Steps
  <2>2. release' \in [Runs -> KnowledgeReleases]
    BY <1>2, ReadNumberEffect, NumbersNatural, SMTT(30) DEF TypeOK, KnowledgeReleases
  <2> QED BY <1>2, <2>1, <2>2 DEF ReadNumber, TypeOK
<1>3. CASE Finish(r)
  <2>1. step' \in [Runs -> Steps] BY <1>3, GotoTypes DEF Finish, Steps
  <2>2. release' \in [Runs -> KnowledgeReleases] /\ index' \in [Runs -> IndexReleases]
    BY <1>3, FinishEffect
  <2>3. /\ entity' \in [Entities -> EntityRows] /\ chunk' \in [Versions -> RowStates]
        /\ fact' \in [Versions -> BOOLEAN] /\ done' \in [Versions -> SUBSET Goals]
    BY <1>3, RowsTypes DEF Finish, TypeOK
  <2>4. knowledgeLock' \in Runs \cup {NoRun} BY <1>3 DEF Finish, TypeOK
  <2> QED BY <1>3, <2>1, <2>2, <2>3, <2>4 DEF Finish, TypeOK
<1>4. CASE FinishWithoutIndex(r)
  <2>1. step' \in [Runs -> Steps] BY <1>4, GotoTypes DEF FinishWithoutIndex, Steps
  <2> QED BY <1>4, <2>1, RowsTypes DEF FinishWithoutIndex, TypeOK
<1>5. CASE End(r)
  <2>1. step' \in [Runs -> Steps] BY <1>5, GotoTypes DEF End, Steps
  <2> QED BY <1>5, <2>1 DEF End, TypeOK
<1> QED BY <1>1, <1>2, <1>3, <1>4, <1>5

\* Giving up keeps the types.
LEMMA GivesUpTypes ==
  ASSUME TypeOK, NEW r \in Runs, GivesUp(r)
  PROVE  TypeOK'
<1>1. step' \in [Runs -> Steps] BY GivesUpEffect, GotoTypes DEF Steps
<1>2. graph' \in [Runs -> GraphReleases] BY GivesUpEffect
<1>3. index' \in [Runs -> IndexReleases] /\ release' \in [Runs -> KnowledgeReleases]
  BY GivesUpEffect, RolledBackEffect
<1>4. graphLock' \in Runs \cup {NoRun} /\ knowledgeLock' \in Runs \cup {NoRun}
  BY GivesUpEffect DEF Unlocked, TypeOK
<1>5. /\ entity' \in [Entities -> EntityRows] /\ chunk' \in [Versions -> RowStates]
      /\ fact' \in [Versions -> BOOLEAN] /\ done' \in [Versions -> SUBSET Goals]
  <2>1. CASE UNCHANGED rows BY <2>1 DEF rows, TypeOK
  <2>2. CASE RowsRestored(r)
    <3>1. saved[r] \in Snapshots BY DEF TypeOK
    <3>2. /\ saved[r].entity \in [Entities -> EntityRows] /\ saved[r].chunk \in RowStates
          /\ saved[r].fact \in BOOLEAN /\ saved[r].done \in SUBSET Goals
      BY <3>1 DEF Snapshots
    <3>3. chunk' \in [Versions -> RowStates] /\ done' \in [Versions -> SUBSET Goals]
      BY <2>2, <3>2 DEF RowsRestored, TypeOK, RowStates
    <3>4. fact' \in [Versions -> BOOLEAN]
      BY <2>2, <3>2 DEF RowsRestored, TypeOK
    <3>5. entity' \in [Entities -> EntityRows]
      <4>1. [status |-> "superseded", deleted |-> TRUE] \in EntityRows
        BY DEF EntityRows, RowStates
      <4>2. CASE UNCHANGED entity BY <4>2 DEF TypeOK
      <4>3. CASE entity' = [e \in Entities |->
                   IF entity[e].status = "absent" THEN entity[e]
                   ELSE IF saved[r].entity[e].status # "absent" THEN saved[r].entity[e]
                   ELSE [status |-> "superseded", deleted |-> TRUE]]
        BY <3>2, <4>1, <4>3 DEF TypeOK
      <4> QED BY <2>2, <4>2, <4>3 DEF RowsRestored
    <3> QED BY <3>3, <3>4, <3>5
  <2> QED BY <2>1, <2>2 DEF GivesUp, Fail, Conflict, NoModel, Die, Compensated
<1>6. UNCHANGED <<memory, current>>
  BY DEF GivesUp, Fail, Conflict, NoModel, Die
<1> QED BY <1>1, <1>2, <1>3, <1>4, <1>5, <1>6 DEF memory, TypeOK

LEMMA TypeStep ==
  ASSUME TypeOK, [Next]_vars
  PROVE  TypeOK'
<1>1. CASE UNCHANGED vars BY <1>1 DEF vars, TypeOK
<1>2. CASE Next
  BY <1>2, ProcessTypes, SnapshotTypes, SwitchTypes, GivesUpTypes DEF Next, Advance, GivesUp
<1> QED BY <1>1, <1>2

LEMMA TypeInit == Init => TypeOK
<1> SUFFICES ASSUME Init PROVE TypeOK OBVIOUS
<1>1. NoGraph \in GraphReleases /\ NoIndex \in IndexReleases /\ NoRelease \in KnowledgeReleases
  BY DEF NoGraph, GraphReleases, NoIndex, IndexReleases, NoRelease, KnowledgeReleases
<1>2. /\ graph \in [Runs -> GraphReleases] /\ index \in [Runs -> IndexReleases]
      /\ release \in [Runs -> KnowledgeReleases] /\ current \in [Runs -> SUBSET Runs]
      /\ graphLock \in Runs \cup {NoRun} /\ knowledgeLock \in Runs \cup {NoRun}
  BY <1>1 DEF Init
<1>3. Unknown \in EntityRows BY DEF Unknown, EntityRows, RowStates
<1>4. /\ step \in [Runs -> Steps] /\ entity \in [Entities -> EntityRows]
      /\ chunk \in [Versions -> RowStates] /\ fact \in [Versions -> BOOLEAN]
      /\ done \in [Versions -> SUBSET Goals]
  BY <1>3 DEF Init, Steps, RowStates
<1>5. /\ want \in [Runs -> SUBSET Goals] /\ pending \in [Runs -> SUBSET Entities]
      /\ held \in [Runs -> SUBSET Entities] /\ saved \in [Runs -> Snapshots]
  BY <1>3 DEF Init, Snapshots, RowStates
<1> QED BY <1>2, <1>4, <1>5 DEF TypeOK

\* Every reachable state is well typed.
THEOREM TypeCorrect == Spec => []TypeOK
  BY TypeInit, TypeStep, PTL DEF Spec

-----------------------------------------------------------------------------
(* Release numbers.  A number is chosen above the committed ones, and stays *)
(* above them while the lock is held, for only the holder commits.  Numbers *)
(* of knowledge releases are chosen without a lock in two kinds of runs:    *)
(* they rest on the unique constraint.                                      *)

Above(table, r) == \A s \in Committed(table) : table[s].number < table[r].number

GraphNumbered ==
  /\ Distinct(graph)
  /\ \A r \in Runs : step[r] = "building" => graph[r].state = "built"
  /\ \A r \in Runs : graph[r].state = "built" => graphLock = r /\ Above(graph, r)

IndexNumbered ==
  /\ Distinct(index)
  /\ \A r \in Runs : index[r].state = "built" => knowledgeLock = r /\ Above(index, r)

\* A release is committed by the last commit of its run, and a run supersedes
\* committed releases only.
ReleaseNumbered ==
  /\ Distinct(release)
  /\ \A r \in Committed(release) : step[r] \in {"finished"} \cup Final
  /\ \A r \in Runs : current[r] \subseteq Committed(release)

Numbered == GraphNumbered /\ IndexNumbered /\ ReleaseNumbered

\* The other runs stay where they are.
LEMMA GotoEffect ==
  ASSUME TypeOK, NEW r \in Runs, NEW to, Goto(r, to)
  PROVE  step'[r] = to /\ \A q \in Runs : q # r => step'[q] = step[q]
  BY DEF TypeOK, Goto

LEMMA GraphKept ==
  ASSUME GraphNumbered, UNCHANGED <<graph, graphLock>>,
         \A q \in Runs : step'[q] = "building" => step[q] = "building"
  PROVE  GraphNumbered'
  BY DEF GraphNumbered, Distinct, Above, Committed

LEMMA IndexKept ==
  ASSUME IndexNumbered, UNCHANGED <<index, knowledgeLock>>
  PROVE  IndexNumbered'
  BY DEF IndexNumbered, Distinct, Above, Committed

\* Steps that leave the state and number of every knowledge release alone.
LEMMA ReleasesKept ==
  ASSUME ReleaseNumbered, UNCHANGED current,
         \A q \in Runs : release'[q].state = release[q].state
                         /\ release'[q].number = release[q].number,
         \A q \in Committed(release) : step'[q] \in {"finished"} \cup Final
  PROVE  ReleaseNumbered'
<1>1. Committed(release)' = Committed(release) BY DEF Committed
<1> QED BY <1>1 DEF ReleaseNumbered, Distinct, Committed

LEMMA BuildGraphNumbered ==
  ASSUME TypeOK, GraphNumbered, NEW r \in Runs, BuildGraph(r)
  PROVE  GraphNumbered'
<1>1. PICK n \in 1..(Cardinality(Runs) + 1) :
        /\ IsNextNumber(graph, n)
        /\ graph' = [graph EXCEPT ![r] =
             [state |-> "built", number |-> n, entities |-> GraphEntities(r),
              versions |-> GraphVersions(r)]]
  BY DEF BuildGraph
<1>2. /\ graph'[r].state = "built" /\ graph'[r].number = n
      /\ \A q \in Runs : q # r => graph'[q] = graph[q]
  BY <1>1 DEF TypeOK
<1>3. \A q \in Committed(graph)' : q \in Committed(graph) /\ graph'[q] = graph[q]
  BY <1>2 DEF Committed
<1>4. \A q \in Runs : graph[q].state # "built"
  BY RunsAssumption DEF BuildGraph, GraphNumbered
<1>5. Distinct(graph)' BY <1>2, <1>3 DEF GraphNumbered, Distinct
<1>6. Above(graph, r)' BY <1>1, <1>2, <1>3 DEF Above, IsNextNumber
<1>7. graphLock' = r /\ step'[r] = "building" /\ \A q \in Runs : q # r => step'[q] = step[q]
  BY GotoEffect DEF BuildGraph
<1> QED BY <1>2, <1>4, <1>5, <1>6, <1>7 DEF GraphNumbered

LEMMA CommitGraphNumbered ==
  ASSUME TypeOK, GraphNumbered, NEW r \in Runs, CommitGraph(r)
  PROVE  GraphNumbered'
<1>1. /\ graph'[r].state = "published" /\ graph'[r].number = graph[r].number
      /\ \A q \in Runs : q # r => graph'[q] = graph[q]
  BY CommitGraphEffect DEF TypeOK
<1>2. graph[r].state = "built" /\ graphLock = r /\ Above(graph, r)
  BY DEF CommitGraph, GraphNumbered
<1>3. \A q \in Committed(graph)' : q = r \/ q \in Committed(graph)
  BY <1>1 DEF Committed
<1>4. \A q \in Committed(graph) : graph[q].number \in Nat /\ graph[r].number \in Nat
  BY DEF Committed, TypeOK, GraphReleases
<1>5. Distinct(graph)' BY <1>1, <1>2, <1>3, <1>4 DEF GraphNumbered, Distinct, Above, Committed
<1>6. \A q \in Runs : graph'[q].state # "built" BY <1>1, <1>2 DEF GraphNumbered
<1>7. \A q \in Runs : step'[q] = "building" => q # r /\ step[q] = "building"
  BY CommitGraphEffect, GotoEffect
<1> QED BY <1>1, <1>5, <1>6, <1>7 DEF GraphNumbered

LEMMA BuildIndexNumbered ==
  ASSUME TypeOK, IndexNumbered, NEW r \in Runs, BuildIndex(r)
  PROVE  IndexNumbered'
<1>1. PICK n \in 1..(Cardinality(Runs) + 1), before \in Runs \cup {NoRun} :
        /\ IsNextNumber(index, n)
        /\ index' = [index EXCEPT ![r] =
             [state |-> "built", number |-> n, channels |-> ChannelsOf(r),
              holds |-> Holds(r, before)]]
  BY BuildIndexEffect
<1>2. /\ index'[r].state = "built" /\ index'[r].number = n
      /\ \A q \in Runs : q # r => index'[q] = index[q]
  BY <1>1 DEF TypeOK
<1>3. \A q \in Committed(index)' : q \in Committed(index) /\ index'[q] = index[q]
  BY <1>2 DEF Committed
<1>4. \A q \in Runs : index[q].state # "built"
  BY RunsAssumption DEF BuildIndex, IndexNumbered
<1>5. Distinct(index)' BY <1>2, <1>3 DEF IndexNumbered, Distinct
<1>6. Above(index, r)' BY <1>1, <1>2, <1>3 DEF Above, IsNextNumber
<1>7. knowledgeLock' = r BY DEF BuildIndex
<1> QED BY <1>2, <1>4, <1>5, <1>6, <1>7 DEF IndexNumbered

LEMMA FinishNumbered ==
  ASSUME TypeOK, IndexNumbered, ReleaseNumbered, NEW r \in Runs, Finish(r)
  PROVE  IndexNumbered' /\ ReleaseNumbered'
<1>1. IndexNumbered'
  <2>1. \A q \in Committed(index)' :
          /\ q \in Runs
          /\ q \in Committed(index) \/ (q = r /\ index[r].state = "built")
    BY FinishEffect DEF Committed
  <2>2. \A q \in Runs : index'[q].number = index[q].number /\ index[q].number \in Nat
    BY FinishEffect DEF TypeOK, IndexReleases
  <2>3. index[r].state = "built" => Above(index, r) BY DEF IndexNumbered
  <2>4. Distinct(index)'
    BY <2>1, <2>2, <2>3 DEF IndexNumbered, Distinct, Above, Committed
  <2>5. ASSUME NEW q \in Runs, index'[q].state = "built"
        PROVE  knowledgeLock' = q /\ Above(index, q)'
    <3>1. q # r /\ index[q].state = "built" BY <2>5, FinishEffect
    <3>2. knowledgeLock = q /\ Above(index, q) BY <3>1 DEF IndexNumbered
    <3>3. index[r].state # "built" BY <3>1, <3>2 DEF IndexNumbered
    <3>4. Above(index, q)' BY <2>1, <2>2, <3>2, <3>3 DEF Above
    <3>5. knowledgeLock' = q BY <3>1, <3>2 DEF Finish
    <3> QED BY <3>4, <3>5
  <2> QED BY <2>4, <2>5 DEF IndexNumbered
<1>2. ReleaseNumbered'
  <2>1. \A q \in Runs : release'[q].number = release[q].number
    BY FinishEffect
  <2>2. /\ \A q \in Committed(release) : q # r => q \in Committed(release)'
        /\ \A q \in Committed(release)' : q = r \/ q \in Committed(release)
        /\ r \in Committed(release)'
    BY FinishEffect DEF ReleaseNumbered, Committed
  <2>3. r \notin Committed(release)
    BY DEF Finish, ReleaseNumbered, Final
  <2>4. Distinct(release)'
    <3>1. \A q \in Committed(release)' : q \in Runs BY DEF Committed
    <3>2. \A q \in Committed(release) : release[q].number # release[r].number
      BY DEF Finish, NumberTaken
    <3> QED BY <2>1, <2>2, <3>1, <3>2 DEF ReleaseNumbered, Distinct
  <2>5. step'[r] = "finished" /\ \A q \in Runs : q # r => step'[q] = step[q]
    BY GotoEffect DEF Finish
  <2>6. \A q \in Committed(release)' : step'[q] \in {"finished"} \cup Final
    BY <2>2, <2>5 DEF ReleaseNumbered, Committed
  <2>7. \A q \in Runs : current'[q] \subseteq Committed(release)'
    BY <2>2 DEF Finish, ReleaseNumbered
  <2> QED BY <2>4, <2>6, <2>7 DEF ReleaseNumbered
<1> QED BY <1>1, <1>2

LEMMA GivesUpNumbered ==
  ASSUME TypeOK, Numbered, NEW r \in Runs, GivesUp(r)
  PROVE  Numbered'
<1> USE DEF Numbered
<1>0. /\ step'[r] \in {"failed", "dead"} /\ \A q \in Runs : q # r => step'[q] = step[q]
      /\ graphLock' = IF graphLock = r THEN NoRun ELSE graphLock
      /\ knowledgeLock' = IF knowledgeLock = r THEN NoRun ELSE knowledgeLock
  BY GivesUpEffect, GotoEffect DEF Unlocked
<1>1. GraphNumbered'
  <2>1. /\ graph'[r].state # "built" /\ \A q \in Runs : q # r => graph'[q] = graph[q]
        /\ r \in Committed(graph)' => r \in Committed(graph) /\ graph'[r].number = graph[r].number
    BY GivesUpEffect DEF NoGraph, Committed
  <2>2. \A q \in Committed(graph)' : q \in Committed(graph) /\ graph'[q].number = graph[q].number
    BY <2>1 DEF Committed
  <2>3. Distinct(graph)' BY <2>2 DEF GraphNumbered, Distinct
  <2>4. \A q \in Runs : graph'[q].state = "built" => Above(graph, q)'
    BY <2>1, <2>2 DEF GraphNumbered, Above
  <2> QED BY <1>0, <2>1, <2>3, <2>4 DEF GraphNumbered
<1>2. IndexNumbered'
  <2>1. /\ index'[r].state # "built" /\ \A q \in Runs : q # r => index'[q] = index[q]
        /\ r \in Committed(index)' => r \in Committed(index) /\ index'[r] = index[r]
    BY GivesUpEffect, RolledBackEffect DEF NoIndex, Committed
  <2>2. \A q \in Committed(index)' : q \in Committed(index) /\ index'[q] = index[q]
    BY <2>1 DEF Committed
  <2>3. Distinct(index)' BY <2>2 DEF IndexNumbered, Distinct
  <2>4. \A q \in Runs : index'[q].state = "built" => Above(index, q)'
    BY <2>1, <2>2 DEF IndexNumbered, Above
  <2> QED BY <1>0, <2>1, <2>3, <2>4 DEF IndexNumbered
<1>3. ReleaseNumbered'
  <2>1. \A q \in Committed(release) : q \in Committed(release)'
    BY GivesUpEffect, RolledBackEffect DEF Committed
  <2>2. \A q \in Committed(release)' : q \in Committed(release) /\ release'[q] = release[q]
    BY GivesUpEffect, RolledBackEffect DEF NoRelease, Committed
  <2>3. Distinct(release)' BY <2>2 DEF ReleaseNumbered, Distinct
  <2>4. \A q \in Committed(release)' : step'[q] \in {"finished"} \cup Final
    BY <1>0, <2>2 DEF ReleaseNumbered, Committed, Final
  <2>5. UNCHANGED current BY GivesUpEffect
  <2> QED BY <2>1, <2>3, <2>4, <2>5 DEF ReleaseNumbered
<1> QED BY <1>1, <1>2, <1>3

\* The steps that neither build, commit nor withdraw a release.
Prepares(r) ==
  \/ SkipDone(r) \/ Refuse(r) \/ Start(r) \/ Split(r) \/ Stage(r) \/ Govern(r)
  \/ StartOther(r) \/ FinishWithoutIndex(r) \/ End(r)

LEMMA PreparesEffect ==
  ASSUME NEW r \in Runs, Prepares(r)
  PROVE  /\ UNCHANGED <<graph, index, release, current, graphLock, knowledgeLock>>
         /\ \E to \in Steps \ {"building"} : Goto(r, to)
         /\ step[r] \in {"finished"} \cup Final => Goto(r, "ended")
<1>1. UNCHANGED <<graph, index, release, current, graphLock, knowledgeLock>>
  BY DEF Prepares, SkipDone, Refuse, Start, Split, Stage, Govern, StartOther,
         FinishWithoutIndex, End, releases, locks
<1>2. \E to \in Steps \ {"building"} : Goto(r, to)
  BY DEF Prepares, SkipDone, Refuse, Start, Split, Stage, Govern, StartOther,
         FinishWithoutIndex, End, Steps
<1>3. step[r] \in {"finished"} \cup Final => Goto(r, "ended")
  BY DEF Prepares, SkipDone, Refuse, Start, Split, Stage, Govern, StartOther,
         FinishWithoutIndex, End, Final
<1> QED BY <1>1, <1>2, <1>3

\* The steps that choose the graph or index of a release.
Picks(r) == PickGraph(r) \/ PickIndex(r) \/ PickPair(r)

LEMMA PicksEffect ==
  ASSUME TypeOK, NEW r \in Runs, Picks(r)
  PROVE  /\ UNCHANGED <<graph, index, current, graphLock, knowledgeLock>>
         /\ \E to \in {"graphed", "indexed", "ended"} : Goto(r, to)
         /\ step[r] \in {"queued", "staged", "graphed"}
         /\ \A q \in Runs : /\ release'[q].state = release[q].state
                            /\ release'[q].number = release[q].number
<1>1. /\ UNCHANGED <<graph, index, current, graphLock, knowledgeLock>>
      /\ step[r] \in {"queued", "staged", "graphed"}
  BY DEF Picks, PickGraph, PickIndex, PickPair, locks
<1>2. \E to \in {"graphed", "indexed", "ended"} : Goto(r, to)
  BY PickPairEffect DEF Picks, PickGraph, PickIndex
<1>3. UNCHANGED release \/ \E g, i \in Runs \cup {NoRun} : Pointed(r, g, i)
  <2>1. release[r].graph \in Runs \cup {NoRun} /\ release[r].index \in Runs \cup {NoRun}
    BY DEF TypeOK, KnowledgeReleases
  <2> QED BY <2>1, PickGraphEffect, PickIndexEffect, PickPairEffect DEF Picks
<1>4. \A q \in Runs : /\ release'[q].state = release[q].state
                      /\ release'[q].number = release[q].number
  BY <1>3 DEF Pointed, TypeOK
<1> QED BY <1>1, <1>2, <1>4

\* Committed releases belong to runs that are over or nearly so.
LEMMA EarlyUncommitted ==
  ASSUME ReleaseNumbered, NEW r \in Runs, step[r] \notin {"finished"} \cup Final
  PROVE  r \notin Committed(release)
  BY DEF ReleaseNumbered

LEMMA PreparesNumbered ==
  ASSUME TypeOK, Numbered, NEW r \in Runs, Prepares(r) \/ Picks(r)
  PROVE  Numbered'
<1> USE DEF Numbered
<1>1. /\ UNCHANGED <<graph, index, current, graphLock, knowledgeLock>>
      /\ \A q \in Runs : /\ release'[q].state = release[q].state
                         /\ release'[q].number = release[q].number
  BY PreparesEffect, PicksEffect
<1>2. PICK to \in Steps \ {"building"} : Goto(r, to)
  BY PreparesEffect, PicksEffect DEF Steps
<1>3. step'[r] = to /\ \A q \in Runs : q # r => step'[q] = step[q]
  BY <1>2, GotoEffect
<1>4. GraphNumbered' BY <1>1, <1>2, <1>3, GraphKept
<1>5. IndexNumbered' BY <1>1, IndexKept
<1>6. \A q \in Committed(release) : step'[q] \in {"finished"} \cup Final
  <2>1. r \in Committed(release) => Goto(r, "ended")
    <3>1. CASE Prepares(r) BY <3>1, PreparesEffect, EarlyUncommitted
    <3>2. CASE Picks(r) BY <3>2, PicksEffect, EarlyUncommitted DEF Final
    <3> QED BY <3>1, <3>2
  <2>2. r \in Committed(release) => step'[r] = "ended" BY <2>1, GotoEffect
  <2> QED BY <1>3, <2>2 DEF ReleaseNumbered, Committed, Final
<1>7. ReleaseNumbered' BY <1>1, <1>6, ReleasesKept
<1> QED BY <1>4, <1>5, <1>7

LEMMA BuildsNumbered ==
  ASSUME TypeOK, Numbered, NEW r \in Runs,
         BuildGraph(r) \/ CommitGraph(r) \/ BuildIndex(r) \/ ReadCurrent(r) \/ ReadNumber(r)
  PROVE  Numbered'
<1> USE DEF Numbered
<1>0. r \notin Committed(release)
  BY EarlyUncommitted
     DEF BuildGraph, CommitGraph, BuildIndex, ReadCurrent, ReadNumber, Final
<1>1. \A q \in Runs : q # r => step'[q] = step[q]
  BY GotoEffect, CommitGraphEffect DEF BuildGraph, BuildIndex, ReadCurrent, ReadNumber
<1>2. \A q \in Committed(release) : step'[q] \in {"finished"} \cup Final
  BY <1>0, <1>1 DEF ReleaseNumbered, Committed
<1>3. CASE BuildGraph(r)
  <2>1. GraphNumbered' BY <1>3, BuildGraphNumbered
  <2>2. UNCHANGED <<index, release, current, knowledgeLock>> BY <1>3 DEF BuildGraph
  <2>3. IndexNumbered' BY <2>2, IndexKept
  <2>4. ReleaseNumbered' BY <1>2, <2>2, ReleasesKept
  <2> QED BY <2>1, <2>3, <2>4
<1>4. CASE CommitGraph(r)
  <2>1. GraphNumbered' BY <1>4, CommitGraphNumbered
  <2>2. UNCHANGED <<index, current, knowledgeLock>> BY <1>4 DEF CommitGraph
  <2>3. \A q \in Runs : /\ release'[q].state = release[q].state
                        /\ release'[q].number = release[q].number
    <3>1. CASE UNCHANGED release BY <3>1
    <3>2. CASE Pointed(r, r, release[r].index) BY <3>2 DEF Pointed, TypeOK
    <3> QED BY <1>4, <3>1, <3>2, CommitGraphEffect
  <2>4. IndexNumbered' BY <2>2, IndexKept
  <2>5. ReleaseNumbered' BY <1>2, <2>2, <2>3, ReleasesKept
  <2> QED BY <2>1, <2>4, <2>5
<1>5. CASE BuildIndex(r)
  <2>1. UNCHANGED <<graph, current, graphLock>> BY <1>5 DEF BuildIndex
  <2>2. step'[r] # "building" BY <1>5, GotoEffect DEF BuildIndex
  <2>3. \A q \in Runs : /\ release'[q].state = release[q].state
                        /\ release'[q].number = release[q].number
    BY <1>5, BuildIndexEffect DEF Pointed, TypeOK
  <2>4. GraphNumbered' BY <1>1, <2>1, <2>2, GraphKept
  <2>5. IndexNumbered' BY <1>5, BuildIndexNumbered
  <2>6. ReleaseNumbered' BY <1>2, <2>1, <2>3, ReleasesKept
  <2> QED BY <2>4, <2>5, <2>6
<1>6. CASE ReadCurrent(r)
  <2>1. UNCHANGED <<graph, index, release, graphLock, knowledgeLock>>
    BY <1>6 DEF ReadCurrent, locks
  <2>2. step'[r] # "building" BY <1>6, GotoEffect DEF ReadCurrent
  <2>3. GraphNumbered' /\ IndexNumbered' BY <1>1, <2>1, <2>2, GraphKept, IndexKept
  <2>4. \A q \in Runs : current'[q] \subseteq Committed(release)
    BY <1>6 DEF ReadCurrent, ReleaseNumbered, Published, Committed, TypeOK
  <2>5. ReleaseNumbered'
    BY <1>2, <2>1, <2>4 DEF ReleaseNumbered, Distinct, Committed
  <2> QED BY <2>3, <2>5
<1>7. CASE ReadNumber(r)
  <2>1. UNCHANGED <<graph, index, current, graphLock, knowledgeLock>>
    BY <1>7 DEF ReadNumber, locks
  <2>2. step'[r] # "building" BY <1>7, GotoEffect DEF ReadNumber
  <2>3. GraphNumbered' /\ IndexNumbered' BY <1>1, <2>1, <2>2, GraphKept, IndexKept
  <2>4. release'[r].state = "drafted" /\ \A q \in Runs : q # r => release'[q] = release[q]
    BY <1>7, ReadNumberEffect DEF TypeOK
  <2>5. /\ \A q \in Committed(release) : q \in Committed(release)'
        /\ \A q \in Committed(release)' : q \in Committed(release) /\ release'[q] = release[q]
    BY <1>0, <2>4 DEF Committed
  <2>6. ReleaseNumbered'
    BY <1>2, <2>1, <2>5 DEF ReleaseNumbered, Distinct
  <2> QED BY <2>3, <2>6
<1> QED BY <1>3, <1>4, <1>5, <1>6, <1>7

\* Every step of a run is of one of these kinds.
LEMMA NextKinds ==
  ASSUME Next
  PROVE  \E r \in Runs :
           \/ Prepares(r) \/ Picks(r) \/ GivesUp(r) \/ Finish(r)
           \/ BuildGraph(r) \/ CommitGraph(r) \/ BuildIndex(r)
           \/ ReadCurrent(r) \/ ReadNumber(r)
  BY DEF Next, Advance, Prepares, Picks, GivesUp

LEMMA NumberedStep == TypeOK /\ Numbered /\ [Next]_vars => Numbered'
<1> SUFFICES ASSUME TypeOK, Numbered, [Next]_vars PROVE Numbered' OBVIOUS
<1>1. CASE UNCHANGED vars
  <2>1. UNCHANGED <<step, graph, index, release, current, graphLock, knowledgeLock>>
    BY <1>1 DEF vars
  <2> QED BY <2>1 DEF Numbered, GraphNumbered, IndexNumbered, ReleaseNumbered,
                      Distinct, Above, Committed
<1>2. CASE Next
  <2>1. PICK r \in Runs :
          \/ Prepares(r) \/ Picks(r) \/ GivesUp(r) \/ Finish(r)
          \/ BuildGraph(r) \/ CommitGraph(r) \/ BuildIndex(r)
          \/ ReadCurrent(r) \/ ReadNumber(r)
    BY <1>2, NextKinds
  <2>2. CASE Finish(r)
    <3>1. \A q \in Runs : step'[q] = "building" => step[q] = "building"
      BY <2>2, GotoEffect DEF Finish
    <3>2. GraphNumbered' BY <2>2, <3>1, GraphKept DEF Finish, Numbered
    <3> QED BY <2>2, <3>2, FinishNumbered DEF Numbered
  <2> QED BY <2>1, <2>2, PreparesNumbered, BuildsNumbered, GivesUpNumbered
<1> QED BY <1>1, <1>2

LEMMA NumberedInit == Init => Numbered
  BY DEF Init, Numbered, GraphNumbered, IndexNumbered, ReleaseNumbered, Distinct, Above,
         Committed, NoGraph, NoIndex, NoRelease

\* Numbers under construction lie above the committed ones, in every state.
THEOREM AlwaysNumbered == Spec => []Numbered
  BY NumberedInit, NumberedStep, TypeCorrect, PTL DEF Spec

\* No two committed releases of a kind ever bear the same number.
THEOREM NumbersAlwaysUnique == Spec => []ReleaseNumbersUnique
<1>1. Numbered => ReleaseNumbersUnique
  BY DEF Numbered, GraphNumbered, IndexNumbered, ReleaseNumbered, ReleaseNumbersUnique
<1> QED BY <1>1, AlwaysNumbered, PTL

-----------------------------------------------------------------------------
(* The pointers of the knowledge release.                                   *)

\* One step of one run.
Acts(r) ==
  \/ Prepares(r) \/ Picks(r) \/ GivesUp(r) \/ Finish(r)
  \/ BuildGraph(r) \/ CommitGraph(r) \/ BuildIndex(r)
  \/ ReadCurrent(r) \/ ReadNumber(r)

\* How a run gets where it is.
Arrives(r) ==
  /\ step'[r] # "queued"
  /\ step'[r] = "started" => Start(r)
  /\ step'[r] = "split" => step[r] = "started"
  /\ step'[r] = "staged" => step[r] = "split"
  /\ step'[r] = "governed" =>
       \/ step[r] = "staged"
       \/ step[r] = "queued" /\ Kind[r] \in {"curation", "inference"}
  /\ step'[r] = "building" => step[r] = "governed"
  /\ step'[r] = "graphed" =>
       \/ CommitGraph(r) /\ step[r] = "building" /\ Kind[r] # "inference"
       \/ PickGraph(r) /\ step[r] = "staged" /\ "graph" \notin want[r]
  /\ step'[r] = "indexed" =>
       \/ BuildIndex(r) /\ step[r] = "graphed"
       \/ PickIndex(r) /\ step[r] = "graphed" /\ ~Searching(r)
       \/ PickPair(r) /\ Kind[r] = "pair"
  /\ step'[r] = "switching" => ReadCurrent(r) /\ step[r] = "indexed"
  /\ step'[r] = "numbered" => ReadNumber(r) /\ step[r] = "switching"

LEMMA ArrivesEffect ==
  ASSUME TypeOK, NEW r \in Runs, Acts(r)
  PROVE  /\ Arrives(r)
         /\ \A q \in Runs : q # r => step'[q] = step[q] /\ want'[q] = want[q]
         /\ want'[r] = want[r] \/ (Start(r) /\ Targets[r] \subseteq want'[r])
<1>1. CASE Prepares(r)
  <2>1. PICK to \in {"started", "split", "staged", "governed", "finished", "ended", "failed"} :
          /\ Goto(r, to)
          /\ to = "started" => Start(r)
          /\ to = "split" => step[r] = "started"
          /\ to = "staged" => step[r] = "split"
          /\ to = "governed" =>
               \/ step[r] = "staged"
               \/ step[r] = "queued" /\ Kind[r] \in {"curation", "inference"}
    BY <1>1 DEF Prepares, SkipDone, Refuse, Start, Split, Stage, Govern, StartOther,
                FinishWithoutIndex, End
  <2>2. step'[r] = to /\ \A q \in Runs : q # r => step'[q] = step[q]
    BY <2>1, GotoEffect
  <2>3. \/ UNCHANGED want
        \/ /\ Start(r) /\ \A q \in Runs : q # r => want'[q] = want[q]
           /\ Targets[r] \subseteq want'[r]
    BY <1>1 DEF Prepares, SkipDone, Refuse, Start, Split, Stage, Govern, StartOther,
                FinishWithoutIndex, End, memory, TypeOK
  <2> QED BY <2>1, <2>2, <2>3 DEF Arrives
<1>2. CASE Picks(r)
  <2>1. UNCHANGED want BY <1>2 DEF Picks, PickGraph, PickIndex, PickPair, memory
  <2>2. \/ Goto(r, "graphed") /\ PickGraph(r) /\ step[r] = "staged" /\ "graph" \notin want[r]
        \/ Goto(r, "indexed") /\ PickIndex(r) /\ step[r] = "graphed" /\ ~Searching(r)
        \/ Goto(r, "indexed") /\ PickPair(r) /\ Kind[r] = "pair"
        \/ Goto(r, "ended")
    BY <1>2, PickPairEffect DEF Picks, PickGraph, PickIndex, PickPair
  <2> QED BY <2>1, <2>2, GotoEffect DEF Arrives
<1>3. CASE GivesUp(r)
  BY <1>3, GivesUpEffect, GotoEffect DEF Arrives
<1>4. CASE Finish(r) \/ BuildGraph(r) \/ BuildIndex(r) \/ ReadCurrent(r) \/ ReadNumber(r)
  <2>1. UNCHANGED want
    BY <1>4 DEF Finish, BuildGraph, BuildIndex, ReadCurrent, ReadNumber, memory
  <2>2. \/ Goto(r, "finished")
        \/ Goto(r, "building") /\ step[r] = "governed"
        \/ Goto(r, "indexed") /\ BuildIndex(r) /\ step[r] = "graphed"
        \/ Goto(r, "switching") /\ ReadCurrent(r) /\ step[r] = "indexed"
        \/ Goto(r, "numbered") /\ ReadNumber(r) /\ step[r] = "switching"
    BY <1>4 DEF Finish, BuildGraph, BuildIndex, ReadCurrent, ReadNumber
  <2> QED BY <2>1, <2>2, GotoEffect DEF Arrives
<1>5. CASE CommitGraph(r)
  <2>1. UNCHANGED want /\ step[r] = "building" BY <1>5 DEF CommitGraph, memory
  <2>2. Goto(r, "finished") \/ (Goto(r, "graphed") /\ Kind[r] # "inference")
    BY <1>5, CommitGraphEffect
  <2> QED BY <1>5, <2>1, <2>2, GotoEffect DEF Arrives
<1> QED BY <1>1, <1>2, <1>3, <1>4, <1>5 DEF Acts

\* Runs that build the index they publish: no manual publication, and documents
\* are processed for full text, for vectors or for both, if perhaps for the
\* graphs too.
EachSearches ==
  \A r \in Runs : Kind[r] # "pair" /\ (Processing(r) => Targets[r] \cap Channels # {})

\* Runs that build both snapshots.
EachBuildsAll == EachSearches /\ \A r \in Runs : Processing(r) => "graph" \in Targets[r]

\* A run that searches asks for its channels from the start, so it holds the
\* index lock from when it builds the index to the end of the switch.
Asks ==
  /\ \A r \in Runs : step[r] \in {"started", "split", "staged"} => want[r] \cap Channels # {}
  /\ \A r \in Runs : step[r] \in {"governed", "building"} =>
       Searching(r) \/ Kind[r] = "inference"
  /\ \A r \in Runs : step[r] = "graphed" => Searching(r)

LEMMA AsksStep ==
  ASSUME EachSearches, TypeOK, Asks, NEW r \in Runs, Acts(r)
  PROVE  Asks' /\ ~PickIndex(r) /\ ~PickPair(r)
<1>1. /\ Arrives(r)
      /\ \A q \in Runs : q # r => step'[q] = step[q] /\ want'[q] = want[q]
      /\ want'[r] = want[r] \/ (Start(r) /\ Targets[r] \subseteq want'[r])
  BY ArrivesEffect
<1>3. ~PickIndex(r) BY DEF PickIndex, Asks
<1>4. ~PickPair(r) BY DEF PickPair, EachSearches
<1>5. step'[r] \in {"started", "split", "staged"} => want'[r] \cap Channels # {}
  <2>1. CASE Start(r)
    <3>1. step'[r] = "started" /\ Targets[r] \subseteq want'[r]
      BY <2>1, GotoEffect DEF Start, TypeOK
    <3>2. Targets[r] \cap Channels # {} BY <2>1 DEF Start, EachSearches
    <3> QED BY <3>1, <3>2
  <2>2. CASE ~Start(r)
    BY <1>1, <2>2 DEF Arrives, Asks
  <2> QED BY <2>1, <2>2
<1>6. step'[r] \in {"governed", "building"} => Searching(r)' \/ Kind[r] = "inference"
  <2>1. step'[r] \in {"governed", "building"} => want'[r] = want[r]
    BY <1>1, GotoEffect DEF Start
  <2>2. step[r] = "staged" => Searching(r) BY DEF Asks, Searching, ChannelsOf, Channels
  <2>3. want'[r] = want[r] => (Searching(r)' <=> Searching(r)) BY DEF Searching, ChannelsOf
  <2>4. Kind[r] = "curation" => Searching(r)' BY DEF Searching, ChannelsOf, Channels
  <2> QED BY <1>1, <2>1, <2>2, <2>3, <2>4 DEF Arrives, Asks
<1>7. step'[r] = "graphed" => Searching(r)'
  <2>1. step'[r] = "graphed" => want'[r] = want[r]
    BY <1>1, GotoEffect DEF Start
  <2>2. step[r] = "staged" => Searching(r) BY DEF Asks, Searching, ChannelsOf, Channels
  <2>3. want'[r] = want[r] => (Searching(r)' <=> Searching(r)) BY DEF Searching, ChannelsOf
  <2> QED BY <1>1, <2>1, <2>2, <2>3 DEF Arrives, Asks, PickGraph
<1>8. \A q \in Runs : q # r => (Searching(q)' <=> Searching(q)) BY <1>1 DEF Searching, ChannelsOf
<1>9. Asks' BY <1>1, <1>5, <1>6, <1>7, <1>8 DEF Asks
<1> QED BY <1>3, <1>4, <1>9

\* The same of the graph.
AsksGraph ==
  \A r \in Runs : step[r] \in {"started", "split", "staged"} => "graph" \in want[r]

LEMMA AsksGraphStep ==
  ASSUME EachBuildsAll, TypeOK, AsksGraph, NEW r \in Runs, Acts(r)
  PROVE  AsksGraph' /\ ~PickGraph(r)
<1>1. /\ Arrives(r)
      /\ \A q \in Runs : q # r => step'[q] = step[q] /\ want'[q] = want[q]
      /\ want'[r] = want[r] \/ (Start(r) /\ Targets[r] \subseteq want'[r])
  BY ArrivesEffect
<1>2. ~PickGraph(r) BY DEF PickGraph, AsksGraph
<1>3. step'[r] \in {"started", "split", "staged"} => "graph" \in want'[r]
  <2>1. CASE Start(r)
    <3>1. Targets[r] \subseteq want'[r] BY <2>1 DEF Start, TypeOK
    <3>2. "graph" \in Targets[r] BY <2>1 DEF Start, EachBuildsAll
    <3> QED BY <3>1, <3>2
  <2>2. CASE ~Start(r)
    BY <1>1, <2>2 DEF Arrives, AsksGraph
  <2> QED BY <2>1, <2>2
<1> QED BY <1>1, <1>2, <1>3 DEF AsksGraph

\* A release points at its own run's graph, which is published from before the
\* switch until the run withdraws it, and then no published release uses it.
GraphKeeping ==
  /\ \A r \in Runs : release[r].graph \in {r, NoRun}
  /\ \A r \in Runs : step[r] \in {"graphed", "indexed", "switching", "numbered"} =>
       graph[r].state = "published"
  /\ KnowledgeKeepsItsGraph

\* The switch happens under the index lock, so what the run read as published
\* still is when it supersedes it.
Switching ==
  /\ \A r \in Runs : step[r] \in {"indexed", "switching", "numbered"} => knowledgeLock = r
  /\ \A r \in Runs : step[r] \in {"switching", "numbered"} => current[r] = Published(release)
  /\ OnePublishedKnowledge

Switched == Asks /\ Switching
Pointing == Switched /\ AsksGraph /\ GraphKeeping

\* What a step does to the graph pointers and to the published releases.
LEMMA ReleaseEffect ==
  ASSUME TypeOK, Numbered, NEW r \in Runs, Acts(r), ~PickPair(r)
  PROVE  /\ ~PickGraph(r) => \A q \in Runs : release'[q].graph \in {release[q].graph, q, NoRun}
         /\ ~Finish(r) => Published(release)' = Published(release)
         /\ \A k \in Published(release)' : k \in Published(release) \/ (Finish(r) /\ k = r)
         /\ \A k \in Published(release)' : release'[k].graph = release[k].graph
<1>0. step[r] \notin {"finished"} \cup Final => r \notin Published(release)
  BY EarlyUncommitted DEF Numbered, Published, Committed
<1>1. CASE Prepares(r) \/ BuildGraph(r) \/ ReadCurrent(r)
  <2>1. UNCHANGED release BY <1>1, PreparesEffect DEF BuildGraph, ReadCurrent
  <2> QED BY <2>1 DEF Published
<1>2. CASE PickGraph(r) \/ PickIndex(r) \/ BuildIndex(r) \/ CommitGraph(r)
  <2>1. UNCHANGED release \/ \E g, i \in Runs \cup {NoRun} :
          Pointed(r, g, i) /\ (PickGraph(r) \/ g \in {release[r].graph, r})
    <3>1. release[r].graph \in Runs \cup {NoRun} /\ release[r].index \in Runs \cup {NoRun}
      BY DEF TypeOK, KnowledgeReleases
    <3> QED BY <1>2, <3>1, PickGraphEffect, PickIndexEffect, BuildIndexEffect, CommitGraphEffect
  <2>2. step[r] \notin {"finished"} \cup Final
    BY <1>2 DEF PickGraph, PickIndex, BuildIndex, CommitGraph, Final
  <2>3. \A q \in Runs : q # r => release'[q] = release[q]
    BY <2>1 DEF Pointed, TypeOK
  <2>4. /\ release'[r].state = release[r].state
        /\ PickGraph(r) \/ release'[r].graph \in {release[r].graph, r}
    BY <2>1 DEF Pointed, TypeOK
  <2>5. Published(release)' = Published(release) BY <2>3, <2>4 DEF Published
  <2> QED BY <1>0, <2>2, <2>3, <2>4, <2>5 DEF Published
<1>3. CASE ReadNumber(r)
  <2>1. /\ release'[r].state = "drafted" /\ release'[r].graph = release[r].graph
        /\ \A q \in Runs : q # r => release'[q] = release[q]
    BY <1>3, ReadNumberEffect DEF TypeOK
  <2>2. step[r] \notin {"finished"} \cup Final BY <1>3 DEF ReadNumber, Final
  <2>3. Published(release)' = Published(release) BY <1>0, <2>1, <2>2 DEF Published
  <2> QED BY <2>1, <2>3 DEF Published
<1>4. CASE Finish(r)
  BY <1>4, FinishEffect DEF Published
<1>5. CASE GivesUp(r)
  <2>1. \A q \in Runs : release'[q] = IF q = r /\ release[r].state \in {"none", "drafted"}
                                      THEN NoRelease ELSE release[q]
    BY <1>5, GivesUpEffect, RolledBackEffect
  <2>2. Published(release)' = Published(release) BY <2>1 DEF NoRelease, Published
  <2> QED BY <2>1, <2>2 DEF NoRelease, Published
<1> QED BY <1>1, <1>2, <1>3, <1>4, <1>5 DEF Acts, Picks

LEMMA GraphKeepingStep ==
  ASSUME EachBuildsAll, TypeOK, Numbered, Asks, AsksGraph, GraphKeeping, NEW r \in Runs, Acts(r)
  PROVE  GraphKeeping'
<1>1. ~PickGraph(r) /\ ~PickIndex(r) /\ ~PickPair(r)
  BY AsksStep, AsksGraphStep DEF EachBuildsAll
<1>2. /\ \A q \in Runs : release'[q].graph \in {release[q].graph, q, NoRun}
      /\ \A k \in Published(release)' : k \in Published(release) \/ (Finish(r) /\ k = r)
      /\ \A k \in Published(release)' : release'[k].graph = release[k].graph
  BY <1>1, ReleaseEffect
<1>3. Arrives(r) /\ \A q \in Runs : q # r => step'[q] = step[q]
  BY ArrivesEffect
<1>4. \A q \in Runs : q # r => graph'[q] = graph[q]
  BY PreparesEffect, PicksEffect, GivesUpEffect, CommitGraphEffect
     DEF Acts, Finish, BuildGraph, BuildIndex, ReadCurrent, ReadNumber, TypeOK
<1>5. step'[r] \in {"graphed", "indexed", "switching", "numbered"} => graph'[r].state = "published"
  <2>1. CASE step'[r] = "graphed"
    BY <1>1, <1>3, <2>1, CommitGraphEffect DEF Arrives, TypeOK
  <2>2. CASE step'[r] = "indexed"
    BY <1>1, <1>3, <2>2 DEF Arrives, GraphKeeping, BuildIndex
  <2>3. CASE step'[r] = "switching" \/ step'[r] = "numbered"
    BY <1>3, <2>3 DEF Arrives, GraphKeeping, ReadCurrent, ReadNumber
  <2> QED BY <2>1, <2>2, <2>3
<1>6. \A k \in Published(release)' :
        k # r /\ release[k].graph # NoRun => graph'[k].state = "published"
  BY <1>2, <1>4 DEF GraphKeeping, KnowledgeKeepsItsGraph, Published
<1>7. r \in Published(release)' /\ release[r].graph # NoRun => graph'[r].state = "published"
  <2> SUFFICES ASSUME r \in Published(release)', release[r].graph # NoRun
               PROVE  graph'[r].state = "published"
    OBVIOUS
  <2>1. CASE Finish(r) BY <2>1 DEF Finish, GraphKeeping
  <2>2. CASE ~Finish(r)
    <3>1. r \in Published(release) /\ release[r].graph = r
      BY <1>2, <2>2 DEF GraphKeeping
    <3>2. graph[r].state = "published" BY <3>1 DEF GraphKeeping, KnowledgeKeepsItsGraph
    <3>3. step[r] \in {"finished"} \cup Final
      BY <3>1, EarlyUncommitted DEF Numbered, Published, Committed
    <3>4. CASE GivesUp(r) BY <3>1, <3>2, <3>4, GivesUpEffect
    <3>5. CASE ~GivesUp(r)
      <4>1. Prepares(r)
        BY <1>1, <2>2, <3>3, <3>5
           DEF Acts, Picks, BuildGraph, CommitGraph, BuildIndex, ReadCurrent, ReadNumber, Final
      <4> QED BY <3>2, <4>1, PreparesEffect
    <3> QED BY <3>4, <3>5
  <2> QED BY <2>1, <2>2
<1>8. \A q \in Runs : release'[q].graph \in {q, NoRun} BY <1>2 DEF GraphKeeping
<1>9. KnowledgeKeepsItsGraph'
  BY <1>2, <1>6, <1>7, <1>8 DEF KnowledgeKeepsItsGraph, Published
<1>10. \A q \in Runs : step'[q] \in {"graphed", "indexed", "switching", "numbered"} =>
         graph'[q].state = "published"
  BY <1>3, <1>4, <1>5 DEF GraphKeeping
<1> QED BY <1>8, <1>9, <1>10 DEF GraphKeeping

LEMMA SwitchingStep ==
  ASSUME EachSearches, TypeOK, Numbered, Asks, Switching, NEW r \in Runs, Acts(r)
  PROVE  Switching'
<1>1. ~PickIndex(r) /\ ~PickPair(r) BY AsksStep
<1>2. /\ ~Finish(r) => Published(release)' = Published(release)
      /\ \A k \in Published(release)' : k \in Published(release) \/ (Finish(r) /\ k = r)
  BY <1>1, ReleaseEffect
<1>3. Arrives(r) /\ \A q \in Runs : q # r => step'[q] = step[q]
  BY ArrivesEffect
<1> DEFINE Locked(q) == step[q] \in {"indexed", "switching", "numbered"}
<1>4. \A q \in Runs : q # r /\ Locked(q) => knowledgeLock = q /\ knowledgeLock' = q
  <2> SUFFICES ASSUME NEW q \in Runs, q # r, Locked(q)
               PROVE  knowledgeLock = q /\ knowledgeLock' = q
    OBVIOUS
  <2>1. knowledgeLock = q BY DEF Switching
  <2>2. ~BuildIndex(r) BY <2>1, RunsAssumption DEF BuildIndex
  <2>3. Finish(r) \/ GivesUp(r) => knowledgeLock' = q
    BY <2>1, GivesUpEffect DEF Finish, Unlocked
  <2>4. ~Finish(r) /\ ~GivesUp(r) => UNCHANGED knowledgeLock
    BY <2>2, PreparesEffect, PicksEffect
       DEF Acts, BuildGraph, CommitGraph, ReadCurrent, ReadNumber, locks
  <2> QED BY <2>1, <2>3, <2>4
<1>5. Locked(r)' => knowledgeLock' = r
  <2>1. CASE step'[r] = "indexed"
    BY <1>1, <1>3, <2>1 DEF Arrives, BuildIndex
  <2>2. CASE step'[r] = "switching" \/ step'[r] = "numbered"
    BY <1>3, <2>2 DEF Arrives, ReadCurrent, ReadNumber, locks, Switching
  <2> QED BY <2>1, <2>2
<1>6. \A q \in Runs : q # r => current'[q] = current[q]
  BY PreparesEffect, PicksEffect, GivesUpEffect
     DEF Acts, Finish, BuildGraph, CommitGraph, BuildIndex, ReadCurrent, ReadNumber, TypeOK
<1>7. step'[r] \in {"switching", "numbered"} => current'[r] = Published(release)'
  <2>1. CASE step'[r] = "switching"
    BY <1>3, <2>1 DEF Arrives, ReadCurrent, Published, TypeOK
  <2>2. CASE step'[r] = "numbered"
    <3>1. ReadNumber(r) /\ step[r] = "switching" BY <1>3, <2>2 DEF Arrives
    <3>2. ~Finish(r) BY <3>1 DEF Finish
    <3> QED BY <1>2, <3>1, <3>2 DEF Switching, ReadNumber
  <2> QED BY <2>1, <2>2
<1>8. Finish(r) => \A q \in Runs : q # r => ~Locked(q)
  BY RunsAssumption DEF Finish, Switching
<1>9. \A q \in Runs : step'[q] \in {"switching", "numbered"} =>
        current'[q] = Published(release)'
  <2> SUFFICES ASSUME NEW q \in Runs, q # r, step'[q] \in {"switching", "numbered"}
               PROVE  current'[q] = Published(release)'
    BY <1>7
  <2>1. step[q] \in {"switching", "numbered"} BY <1>3
  <2>2. ~Finish(r) BY <1>8, <2>1
  <2> QED BY <1>2, <1>6, <2>1, <2>2 DEF Switching
<1>10. OnePublishedKnowledge'
  <2>1. CASE Finish(r)
    <3>1. current[r] = Published(release) BY <2>1 DEF Finish, Switching
    <3>2. \A k \in Published(release)' : k = r
      BY <2>1, <3>1, FinishEffect DEF Published
    <3> QED BY <3>2 DEF OnePublishedKnowledge
  <2>2. CASE ~Finish(r)
    BY <1>2, <2>2 DEF Switching, OnePublishedKnowledge
  <2> QED BY <2>1, <2>2
<1>11. \A q \in Runs : step'[q] \in {"indexed", "switching", "numbered"} => knowledgeLock' = q
  BY <1>3, <1>4, <1>5
<1> QED BY <1>9, <1>10, <1>11 DEF Switching

LEMMA SwitchedStep ==
  ASSUME EachSearches
  PROVE  TypeOK /\ Numbered /\ Switched /\ [Next]_vars => Switched'
<1> SUFFICES ASSUME TypeOK, Numbered, Switched, [Next]_vars PROVE Switched' OBVIOUS
<1>1. CASE UNCHANGED vars
  BY <1>1 DEF vars, Switched, Asks, Switching, Searching, ChannelsOf, Published,
              OnePublishedKnowledge
<1>2. CASE Next
  <2>1. PICK r \in Runs : Acts(r) BY <1>2, NextKinds DEF Acts
  <2> QED BY <2>1, AsksStep, SwitchingStep DEF Switched
<1> QED BY <1>1, <1>2

LEMMA PointingStep ==
  ASSUME EachBuildsAll
  PROVE  TypeOK /\ Numbered /\ Pointing /\ [Next]_vars => Pointing'
<1> SUFFICES ASSUME TypeOK, Numbered, Pointing, [Next]_vars PROVE Pointing' OBVIOUS
<1>1. Switched' BY SwitchedStep DEF Pointing, EachBuildsAll
<1>2. CASE UNCHANGED vars
  BY <1>1, <1>2 DEF vars, Pointing, AsksGraph, GraphKeeping, Published, KnowledgeKeepsItsGraph
<1>3. CASE Next
  <2>1. PICK r \in Runs : Acts(r) BY <1>3, NextKinds DEF Acts
  <2> QED BY <1>1, <2>1, AsksGraphStep, GraphKeepingStep DEF Pointing, Switched
<1> QED BY <1>2, <1>3

LEMMA SwitchedInit == Init => Switched
  BY DEF Init, Switched, Asks, Switching, Published, NoRelease, OnePublishedKnowledge

LEMMA PointingInit == Init => Pointing
  BY SwitchedInit DEF Init, Pointing, AsksGraph, GraphKeeping, Published, NoRelease,
                      KnowledgeKeepsItsGraph

\* The index lock and the switch, in every state of runs that build an index ...
THEOREM AlwaysSwitched ==
  ASSUME EachSearches
  PROVE  Spec => []Switched
<1>1. TypeOK /\ Numbered /\ Switched /\ [Next]_vars => Switched' BY SwitchedStep
<1> QED BY <1>1, SwitchedInit, TypeCorrect, AlwaysNumbered, PTL DEF Spec

\* ... and the pointers too of runs that build a graph as well.
THEOREM AlwaysPointing ==
  ASSUME EachBuildsAll
  PROVE  Spec => []Pointing
<1>1. TypeOK /\ Numbered /\ Pointing /\ [Next]_vars => Pointing' BY PointingStep
<1> QED BY <1>1, PointingInit, TypeCorrect, AlwaysNumbered, PTL DEF Spec

\* Where every run builds the graph and the index it publishes, however runs fail
\* and interleave, the graph of a published knowledge release is never withdrawn.
THEOREM KnowledgeAlwaysKeepsItsGraph ==
  ASSUME EachBuildsAll
  PROVE  Spec => []KnowledgeKeepsItsGraph
<1>1. Pointing => KnowledgeKeepsItsGraph BY DEF Pointing, GraphKeeping
<1> QED BY <1>1, AlwaysPointing, PTL

\* Where every run builds an index of some channel, at most one knowledge release
\* is published at any time.
THEOREM OneKnowledgeAlwaysPublished ==
  ASSUME EachSearches
  PROVE  Spec => []OnePublishedKnowledge
<1>1. Switched => OnePublishedKnowledge BY DEF Switched, Switching
<1> QED BY <1>1, AlwaysSwitched, PTL

-----------------------------------------------------------------------------
(***************************************************************************)
(* The targets that versions have completed, and what the snapshots of a   *)
(* space contain: completion follows projection, a version under way stays *)
(* out of the releases of others, and the full text side implements        *)
(* SearchCatalogue.                                                        *)
(*                                                                         *)
(* None of these is inductive.  A run writes back a summary it read when   *)
(* it began, so what holds of done must hold of the copies as well; and    *)
(* what a run publishes at its last commit was built several steps before, *)
(* so Owning follows the run's own graph and index up to there.            *)
(***************************************************************************)

Publishing == {"indexed", "switching", "numbered"}

-----------------------------------------------------------------------------
(* What a step does to the tables and summaries.                            *)

\* A run changes no graph or index of the others, and of their knowledge
\* releases at most the state.
LEMMA OthersKept ==
  ASSUME TypeOK, NEW r \in Runs, Acts(r)
  PROVE  \A q \in Runs : q # r =>
           /\ graph'[q] = graph[q]
           /\ index'[q] = index[q]
           /\ release'[q].index = release[q].index
<1>1. CASE Prepares(r) BY <1>1, PreparesEffect
<1>2. CASE Picks(r)
  <2>1. UNCHANGED <<graph, index>> BY <1>2, PicksEffect
  <2>2. UNCHANGED release \/ \E g, i \in Runs \cup {NoRun} : Pointed(r, g, i)
    <3>1. release[r].graph \in Runs \cup {NoRun} /\ release[r].index \in Runs \cup {NoRun}
      BY DEF TypeOK, KnowledgeReleases
    <3> QED BY <1>2, <3>1, PickGraphEffect, PickIndexEffect, PickPairEffect DEF Picks
  <2> QED BY <2>1, <2>2 DEF Pointed, TypeOK
<1>3. CASE GivesUp(r) BY <1>3, GivesUpEffect, RolledBackEffect
<1>4. CASE Finish(r) BY <1>4, FinishEffect DEF Finish
<1>5. CASE BuildGraph(r) BY <1>5 DEF BuildGraph, TypeOK
<1>6. CASE CommitGraph(r)
  BY <1>6, CommitGraphEffect DEF CommitGraph, Pointed, TypeOK
<1>7. CASE BuildIndex(r)
  <2>1. UNCHANGED graph BY <1>7 DEF BuildIndex
  <2> QED BY <1>7, <2>1, BuildIndexEffect DEF Pointed, TypeOK
<1>8. CASE ReadCurrent(r) BY <1>8 DEF ReadCurrent
<1>9. CASE ReadNumber(r)
  <2>1. UNCHANGED <<graph, index>> BY <1>9 DEF ReadNumber
  <2> QED BY <1>9, <2>1, ReadNumberEffect DEF TypeOK
<1> QED BY <1>1, <1>2, <1>3, <1>4, <1>5, <1>6, <1>7, <1>8, <1>9 DEF Acts

\* Where a run changes its own graph and index.
LEMMA OwnMoves ==
  ASSUME TypeOK, NEW r \in Runs, Acts(r)
  PROVE  /\ graph'[r] = graph[r] \/ BuildGraph(r) \/ CommitGraph(r) \/ GivesUp(r)
         /\ \/ index'[r] = index[r] /\ ~Finish(r)
            \/ BuildIndex(r) \/ Finish(r) \/ GivesUp(r)
<1>1. CASE Prepares(r) \/ Picks(r)
  <2>1. UNCHANGED <<graph, index>> BY <1>1, PreparesEffect, PicksEffect
  <2> QED BY <2>1
<1>2. CASE BuildGraph(r) \/ CommitGraph(r) BY <1>2 DEF BuildGraph, CommitGraph
<1>3. CASE BuildIndex(r) BY <1>3 DEF BuildIndex
<1>4. CASE Finish(r) BY <1>4 DEF Finish
<1>5. CASE ReadCurrent(r) \/ ReadNumber(r) BY <1>5 DEF ReadCurrent, ReadNumber
<1> QED BY <1>1, <1>2, <1>3, <1>4, <1>5 DEF Acts

\* A run is over when it has ended, failed or died.
LEMMA FinalRests ==
  ASSUME TypeOK, NEW r \in Runs, Acts(r)
  PROVE  step[r] \notin Final
<1>1. CASE Prepares(r)
  BY <1>1 DEF Prepares, SkipDone, Refuse, Start, Split, Stage, Govern, StartOther,
              FinishWithoutIndex, End, Final
<1>2. CASE Picks(r) BY <1>2, PicksEffect DEF Final
<1>3. CASE GivesUp(r) BY <1>3 DEF GivesUp, Fail, Conflict, NoModel, Die, Working, Final
<1>4. CASE \/ Finish(r) \/ BuildGraph(r) \/ CommitGraph(r) \/ BuildIndex(r)
           \/ ReadCurrent(r) \/ ReadNumber(r)
  BY <1>4 DEF Finish, BuildGraph, CommitGraph, BuildIndex, ReadCurrent, ReadNumber, Final
<1> QED BY <1>1, <1>2, <1>3, <1>4 DEF Acts

\* The summary a run remembers is taken from its version when it begins.
LEMMA RememberedFields ==
  ASSUME NEW s \in Snapshots, NEW d, NEW e, NEW c, NEW f
  PROVE  /\ [s EXCEPT !.done = d, !.entity = e].done = d
         /\ [s EXCEPT !.chunk = c, !.fact = f].done = s.done
  BY DEF Snapshots

LEMMA RememberedEffect ==
  ASSUME TypeOK, NEW r \in Runs, Acts(r)
  PROVE  /\ \A q \in Runs : q # r => saved'[q] = saved[q]
         /\ \/ saved'[r].done = saved[r].done
            \/ Start(r) /\ saved'[r].done = done[VersionOf[r]]
<1>0. saved[r] \in Snapshots BY DEF TypeOK
<1>1. CASE Start(r)
  <2> DEFINE asked == Targets[r] \cup (IF r \in Forced THEN done[VersionOf[r]] ELSE {})
             copied == IF "graph" \in asked THEN entity ELSE saved[r].entity
             taken == [saved[r] EXCEPT !.done = done[VersionOf[r]], !.entity = copied]
  <2>1. saved' = [saved EXCEPT ![r] = taken] BY <1>1, Zenon DEF Start
  <2>2. taken.done = done[VersionOf[r]]
    <3> DEFINE before == done[VersionOf[r]]
    <3>1. [saved[r] EXCEPT !.done = before, !.entity = copied].done = before
      <4> HIDE DEF before, copied
      <4> QED BY <1>0, RememberedFields
    <3> QED BY <3>1
  <2> HIDE DEF taken
  <2> QED BY <1>1, <2>1, <2>2 DEF TypeOK
<1>2. CASE Split(r)
  <2> DEFINE facts == "graph" \in want[r] /\ fact[VersionOf[r]]
             rowsWere == chunk[VersionOf[r]]
             taken == [saved[r] EXCEPT !.chunk = rowsWere, !.fact = facts]
  <2>1. saved' = [saved EXCEPT ![r] = taken] BY <1>2, Zenon DEF Split
  <2>2. taken.done = saved[r].done
    <3> HIDE DEF facts, rowsWere
    <3> QED BY <1>0, RememberedFields
  <2> HIDE DEF taken
  <2> QED BY <2>1, <2>2 DEF TypeOK
<1>3. CASE Acts(r) /\ ~Start(r) /\ ~Split(r)
  <2>1. UNCHANGED saved
    <3>1. CASE Prepares(r)
      BY <1>3, <3>1 DEF Prepares, SkipDone, Refuse, Stage, Govern, StartOther,
                        FinishWithoutIndex, End, memory
    <3>2. CASE Picks(r) BY <3>2 DEF Picks, PickGraph, PickIndex, PickPair, memory
    <3>3. CASE GivesUp(r) BY <3>3 DEF GivesUp, Fail, Conflict, NoModel, Die, memory
    <3>4. CASE \/ Finish(r) \/ BuildGraph(r) \/ CommitGraph(r) \/ BuildIndex(r)
               \/ ReadCurrent(r) \/ ReadNumber(r)
      BY <3>4 DEF Finish, BuildGraph, CommitGraph, BuildIndex, ReadCurrent, ReadNumber, memory
    <3> QED BY <1>3, <3>1, <3>2, <3>3, <3>4 DEF Acts
  <2> QED BY <2>1
<1> QED BY <1>1, <1>2, <1>3

\* What a run writes into the summary of a version: what it remembers, and at
\* the end the targets it was asked for.
Completes(r) == (Finish(r) /\ Processing(r)) \/ FinishWithoutIndex(r)

LEMMA CompletedRows ==
  ASSUME TypeOK, NEW r \in Runs, Completes(r)
  PROVE  /\ \A v \in Versions : v # VersionOf[r] => done'[v] = done[v]
         /\ done'[VersionOf[r]] \subseteq saved[r].done \cup want[r]
         /\ want[r] \cap Channels \subseteq done'[VersionOf[r]]
<1>1. PICK missed \in SUBSET ({"graph", "writing_graph"} \cap want[r]) :
        done' = [done EXCEPT ![VersionOf[r]] =
                   (saved[r].done \ want[r]) \cup (want[r] \ missed)]
  BY DEF Completes, Finish, FinishWithoutIndex, RowsPublished
<1>2. VersionOf[r] \in Versions BY ConfigurationTypes
<1> QED BY <1>1, <1>2 DEF TypeOK, Channels

LEMMA SummaryEffect ==
  ASSUME TypeOK, NEW r \in Runs, Acts(r),
         step[r] \in {"started", "split", "staged"} => Processing(r)
  PROVE  /\ \A v \in Versions : v # VersionOf[r] => done'[v] = done[v]
         /\ \/ UNCHANGED done
            \/ /\ Processing(r) /\ (Stage(r) \/ GivesUp(r))
               /\ done'[VersionOf[r]] = saved[r].done
            \/ Completes(r)
<1>0. VersionOf[r] \in Versions BY ConfigurationTypes
<1>1. CASE Stage(r)
  <2>1. Processing(r) BY <1>1 DEF Stage
  <2>2. CASE done' = [done EXCEPT ![VersionOf[r]] = saved[r].done]
    <3>1. done'[VersionOf[r]] = saved[r].done BY <1>0, <2>2 DEF TypeOK
    <3>2. \A v \in Versions : v # VersionOf[r] => done'[v] = done[v] BY <2>2 DEF TypeOK
    <3> QED BY <1>1, <2>1, <3>1, <3>2
  <2>3. CASE UNCHANGED done BY <2>3
  <2> QED BY <1>1, <2>2, <2>3 DEF Stage
<1>2. CASE Completes(r) BY <1>2, CompletedRows
<1>3. CASE GivesUp(r)
  <2>1. UNCHANGED done \/ (Processing(r) /\ RowsRestored(r))
    BY <1>3 DEF GivesUp, Fail, Conflict, NoModel, Die, Compensated, rows
  <2>2. CASE Processing(r) /\ RowsRestored(r)
    BY <1>0, <1>3, <2>2 DEF RowsRestored, TypeOK
  <2> QED BY <2>1, <2>2
<1>4. CASE ~Stage(r) /\ ~Completes(r) /\ ~GivesUp(r)
  <2>1. UNCHANGED done
    <3>1. CASE Prepares(r)
      BY <1>4, <3>1 DEF Prepares, SkipDone, Refuse, Start, Split, Govern, StartOther,
                        Completes, End, rows
    <3>2. CASE Picks(r) BY <3>2 DEF Picks, PickGraph, PickIndex, PickPair, rows
    <3>3. CASE BuildGraph(r) \/ CommitGraph(r) \/ BuildIndex(r) \/ ReadCurrent(r) \/ ReadNumber(r)
      BY <3>3 DEF BuildGraph, CommitGraph, BuildIndex, ReadCurrent, ReadNumber, rows
    <3>4. CASE Finish(r) BY <1>4, <3>4 DEF Finish, Completes, rows
    <3> QED BY <1>4, <3>1, <3>2, <3>3, <3>4 DEF Acts
  <2> QED BY <2>1
<1> QED BY <1>1, <1>2, <1>3, <1>4

-----------------------------------------------------------------------------
(* What a run has built of its own, from the step that builds it to the     *)
(* commit that publishes it.                                                *)

Stations ==
  \A r \in Runs :
    /\ step[r] \in {"started", "split", "staged"} => Processing(r)
    /\ step[r] \in {"governed", "building", "graphed"} => Kind[r] # "pair"
    /\ step[r] \in {"graphed"} \cup Publishing => Kind[r] # "inference"

OwnGraph ==
  \A r \in Runs :
    /\ step[r] \in {"queued", "started", "split", "staged", "governed"} =>
         graph[r].state = "none"
    /\ step[r] \in {"graphed"} \cup Publishing /\ Processing(r) /\ "graph" \in want[r] =>
         graph[r].state = "published"

OwnIndex ==
  \A r \in Runs :
    /\ step[r] \in {"queued", "started", "split", "staged", "governed", "building", "graphed"} =>
         index[r].state = "none"
    /\ step[r] \in Publishing /\ Kind[r] # "pair" /\ Searching(r) =>
         /\ index[r].state = "built" /\ index[r].channels = ChannelsOf(r)
         /\ release[r].index = r
    /\ step[r] \in Publishing /\ Kind[r] = "pair" => release[r].index # NoRun

Owning == Stations /\ OwnGraph /\ OwnIndex

LEMMA StationsStep ==
  ASSUME TypeOK, Stations, NEW r \in Runs, Acts(r)
  PROVE  Stations'
<1>1. /\ Arrives(r)
      /\ \A q \in Runs : q # r => step'[q] = step[q]
  BY ArrivesEffect
<1>2. step'[r] \in {"started", "split", "staged"} => Processing(r)
  BY <1>1 DEF Arrives, Stations, Start
<1>3. step'[r] \in {"governed", "building", "graphed"} => Kind[r] # "pair"
  BY <1>1, <1>2 DEF Arrives, Stations, Processing
<1>4. step'[r] \in {"graphed"} \cup Publishing => Kind[r] # "inference"
  BY <1>1 DEF Arrives, Stations, Processing, Publishing
<1> QED BY <1>1, <1>2, <1>3, <1>4 DEF Stations, Processing

LEMMA OwnGraphStep ==
  ASSUME TypeOK, Stations, OwnGraph, NEW r \in Runs, Acts(r)
  PROVE  OwnGraph'
<1>1. /\ Arrives(r)
      /\ \A q \in Runs : q # r => step'[q] = step[q] /\ want'[q] = want[q]
      /\ want'[r] = want[r] \/ Start(r)
  BY ArrivesEffect
<1>2. \A q \in Runs : q # r => graph'[q] = graph[q] BY OthersKept
<1>3. \/ graph'[r] = graph[r]
      \/ step'[r] \in {"building", "finished", "failed", "dead"}
      \/ CommitGraph(r) /\ step'[r] = "graphed" /\ graph'[r].state = "published"
  <2>1. BuildGraph(r) => step'[r] = "building" BY GotoEffect DEF BuildGraph
  <2>2. GivesUp(r) => step'[r] \in {"failed", "dead"} BY GivesUpEffect, GotoEffect
  <2>3. CommitGraph(r) => /\ step'[r] \in {"finished", "graphed"}
                          /\ graph'[r].state = "published"
    BY CommitGraphEffect, GotoEffect DEF TypeOK
  <2> QED BY <2>1, <2>2, <2>3, OwnMoves
<1>4. step'[r] \in {"queued", "started", "split", "staged", "governed"} =>
        graph'[r].state = "none"
  BY <1>1, <1>3 DEF Arrives, Start, OwnGraph
<1>5. step'[r] \in {"graphed"} \cup Publishing /\ Processing(r) /\ "graph" \in want'[r] =>
        graph'[r].state = "published"
  <2> SUFFICES ASSUME step'[r] \in {"graphed"} \cup Publishing, Processing(r),
                      "graph" \in want'[r]
               PROVE  graph'[r].state = "published"
    OBVIOUS
  <2>1. "graph" \in want[r] BY <1>1, GotoEffect DEF Start, Publishing
  <2>2. CASE step'[r] = "graphed"
    <3>1. CommitGraph(r) BY <1>1, <2>1, <2>2 DEF Arrives
    <3> QED BY <3>1, CommitGraphEffect DEF TypeOK
  <2>3. CASE step'[r] \in Publishing
    <3>1. step[r] \in {"graphed"} \cup Publishing
      BY <1>1, <2>3 DEF Arrives, Publishing, Processing
    <3>2. graph'[r] = graph[r] BY <1>3, <2>3 DEF Publishing
    <3> QED BY <2>1, <3>1, <3>2 DEF OwnGraph
  <2> QED BY <2>2, <2>3
<1> QED BY <1>1, <1>2, <1>4, <1>5 DEF OwnGraph, Processing

LEMMA OwnIndexStep ==
  ASSUME TypeOK, Stations, OwnIndex, NEW r \in Runs, Acts(r)
  PROVE  OwnIndex'
<1>1. /\ Arrives(r)
      /\ \A q \in Runs : q # r => step'[q] = step[q] /\ want'[q] = want[q]
      /\ want'[r] = want[r] \/ Start(r)
  BY ArrivesEffect
<1>2. \A q \in Runs : q # r => index'[q] = index[q] /\ release'[q].index = release[q].index
  BY OthersKept
<1>3. \/ index'[r] = index[r]
      \/ BuildIndex(r) /\ step'[r] = "indexed"
      \/ step'[r] \in {"finished", "failed", "dead"}
  <2>1. BuildIndex(r) => step'[r] = "indexed" BY GotoEffect DEF BuildIndex
  <2>2. GivesUp(r) => step'[r] \in {"failed", "dead"} BY GivesUpEffect, GotoEffect
  <2>3. Finish(r) => step'[r] = "finished" BY GotoEffect DEF Finish
  <2> QED BY <2>1, <2>2, <2>3, OwnMoves
<1>4. step'[r] \in {"queued", "started", "split", "staged", "governed", "building", "graphed"} =>
        index'[r].state = "none"
  BY <1>1, <1>3 DEF Arrives, Start, OwnIndex
<1>5. BuildIndex(r) => /\ index'[r].state = "built" /\ index'[r].channels = ChannelsOf(r)
                       /\ release'[r].index = r
  BY BuildIndexEffect DEF Pointed, TypeOK
<1>6. step'[r] \in {"switching", "numbered"} =>
        /\ step[r] \in Publishing
        /\ index'[r] = index[r] /\ release'[r].index = release[r].index
  <2>1. CASE step'[r] = "switching"
    BY <1>1, <2>1 DEF Arrives, ReadCurrent, Publishing
  <2>2. CASE step'[r] = "numbered"
    <3>1. ReadNumber(r) BY <1>1, <2>2 DEF Arrives
    <3>2. release'[r].index = release[r].index BY <3>1, ReadNumberEffect DEF TypeOK
    <3> QED BY <3>1, <3>2 DEF ReadNumber, Publishing
  <2> QED BY <2>1, <2>2
<1>7. step'[r] \in Publishing => want'[r] = want[r]
  BY <1>1, GotoEffect DEF Start, Publishing
<1>8. step'[r] \in Publishing /\ Kind[r] # "pair" /\ Searching(r)' =>
        /\ index'[r].state = "built" /\ index'[r].channels = ChannelsOf(r)'
        /\ release'[r].index = r
  <2> SUFFICES ASSUME step'[r] \in Publishing, Kind[r] # "pair", Searching(r)'
               PROVE  /\ index'[r].state = "built" /\ index'[r].channels = ChannelsOf(r)
                      /\ release'[r].index = r
    BY <1>7 DEF ChannelsOf
  <2>1. Searching(r) BY <1>7 DEF Searching, ChannelsOf
  <2>2. CASE step'[r] = "indexed"
    BY <1>1, <1>5, <2>1, <2>2 DEF Arrives
  <2>3. CASE step'[r] \in {"switching", "numbered"}
    BY <1>6, <2>1, <2>3 DEF OwnIndex
  <2> QED BY <2>2, <2>3 DEF Publishing
<1>9. step'[r] \in Publishing /\ Kind[r] = "pair" => release'[r].index # NoRun
  <2> SUFFICES ASSUME step'[r] \in Publishing, Kind[r] = "pair"
               PROVE  release'[r].index # NoRun
    OBVIOUS
  <2>1. CASE step'[r] = "indexed"
    <3>1. PickPair(r)
      BY <1>1, <2>1 DEF Arrives, Stations
    <3>2. \E g, i \in Runs : Pointed(r, g, i)
      BY <2>1, <3>1, PickPairEffect, GotoEffect
    <3> QED BY <3>2, RunsAssumption DEF Pointed, TypeOK
  <2>2. CASE step'[r] \in {"switching", "numbered"}
    BY <1>6, <2>2 DEF OwnIndex
  <2> QED BY <2>1, <2>2 DEF Publishing
<1>10. \A q \in Runs : q # r => ChannelsOf(q)' = ChannelsOf(q) BY <1>1 DEF ChannelsOf
<1>11. \A q \in Runs : q # r => (Searching(q)' <=> Searching(q)) BY <1>10 DEF Searching
<1> QED BY <1>1, <1>2, <1>4, <1>8, <1>9, <1>10, <1>11 DEF OwnIndex

LEMMA OwningInit == Init => Owning
  BY DEF Init, Owning, Stations, OwnGraph, OwnIndex, Publishing, NoGraph, NoIndex

LEMMA OwningStep == TypeOK /\ Owning /\ [Next]_vars => Owning'
<1> SUFFICES ASSUME TypeOK, Owning, [Next]_vars PROVE Owning' OBVIOUS
<1>1. CASE UNCHANGED vars
  BY <1>1 DEF vars, Owning, Stations, OwnGraph, OwnIndex, Searching, ChannelsOf, Processing
<1>2. CASE Next
  <2>1. PICK r \in Runs : Acts(r) BY <1>2, NextKinds DEF Acts
  <2> QED BY <2>1, StationsStep, OwnGraphStep, OwnIndexStep DEF Owning
<1> QED BY <1>1, <1>2

\* A run about to publish holds the graph and the index it says it publishes.
THEOREM AlwaysOwning == Spec => []Owning
  BY OwningInit, OwningStep, TypeCorrect, PTL DEF Spec

-----------------------------------------------------------------------------
(* Completion follows projection.                                           *)

\* A commit is never taken back, although a release may be failed later.
LEMMA CommittedGrows ==
  ASSUME TypeOK, Numbered, Owning, NEW r \in Runs, Acts(r)
  PROVE  /\ Committed(graph) \subseteq Committed(graph)'
         /\ Committed(index) \subseteq Committed(index)'
         /\ Committed(release) \subseteq Committed(release)'
         /\ \A s \in Committed(index) : /\ index'[s].channels = index[s].channels
                                        /\ index'[s].holds = index[s].holds
<1>1. Committed(graph) \subseteq Committed(graph)'
  <2>1. graph[r].state \notin {"none", "built", "drafted"} =>
          graph'[r].state \notin {"none", "built", "drafted"}
    <3>1. ~(BuildGraph(r) /\ graph[r].state \notin {"none", "built"})
      BY DEF BuildGraph, Owning, OwnGraph
    <3>2. CASE CommitGraph(r) BY <3>2, CommitGraphEffect DEF TypeOK
    <3>3. CASE GivesUp(r) BY <3>3, GivesUpEffect
    <3> QED BY <3>1, <3>2, <3>3, OwnMoves
  <2>2. \A q \in Runs : q # r => graph'[q] = graph[q] BY OthersKept
  <2> QED BY <2>1, <2>2 DEF Committed
<1>2. /\ Committed(index) \subseteq Committed(index)'
      /\ \A s \in Committed(index) : /\ index'[s].channels = index[s].channels
                                     /\ index'[s].holds = index[s].holds
  <2>1. index[r].state \notin {"none", "built", "drafted"} =>
          /\ index'[r].state \notin {"none", "built", "drafted"}
          /\ index'[r].channels = index[r].channels /\ index'[r].holds = index[r].holds
    <3>1. BuildIndex(r) => index[r].state = "none" BY DEF BuildIndex, Owning, OwnIndex
    <3>2. CASE Finish(r) BY <3>2, FinishEffect
    <3>3. CASE GivesUp(r)
      <4>1. RolledBack(r) BY <3>3, GivesUpEffect
      <4> QED BY <4>1, RolledBackEffect
    <3> QED BY <3>1, <3>2, <3>3, OwnMoves
  <2>2. \A q \in Runs : q # r => index'[q] = index[q] BY OthersKept
  <2> QED BY <2>1, <2>2 DEF Committed
<1>3. Committed(release) \subseteq Committed(release)'
  <2>1. CASE Prepares(r) \/ Picks(r)
    <3>1. \A q \in Runs : release'[q].state = release[q].state
      BY <2>1, PreparesEffect, PicksEffect
    <3> QED BY <3>1 DEF Committed
  <2>2. CASE GivesUp(r)
    <3>1. RolledBack(r) BY <2>2, GivesUpEffect
    <3> QED BY <3>1, RolledBackEffect DEF Committed
  <2>3. CASE Finish(r) BY <2>3, FinishEffect DEF Committed
  <2>4. CASE BuildGraph(r) \/ ReadCurrent(r)
    <3>1. UNCHANGED release BY <2>4 DEF BuildGraph, ReadCurrent
    <3> QED BY <3>1 DEF Committed
  <2>5. CASE BuildIndex(r) \/ CommitGraph(r)
    <3>1. UNCHANGED release \/ \E g, i : Pointed(r, g, i)
      BY <2>5, BuildIndexEffect, CommitGraphEffect
    <3> QED BY <3>1 DEF Pointed, Committed, TypeOK
  <2>6. CASE ReadNumber(r)
    <3>1. r \notin Committed(release)
      BY <2>6, EarlyUncommitted DEF ReadNumber, Final, Numbered
    <3>2. \A q \in Runs : q # r => release'[q] = release[q]
      BY <2>6, ReadNumberEffect DEF TypeOK
    <3> QED BY <3>1, <3>2 DEF Committed
  <2> QED BY <2>1, <2>2, <2>3, <2>4, <2>5, <2>6 DEF Acts
<1> QED BY <1>1, <1>2, <1>3

\* A run of the version has published its channel, its graph.
Indexed(v, channel) ==
  \E s \in Committed(index) :
    Processing(s) /\ VersionOf[s] = v /\ channel \in index[s].channels
Graphed(v) == \E s \in Committed(graph) : Processing(s) /\ VersionOf[s] = v

\* The copies of summaries that runs write back are as justified as the
\* summaries themselves.
Remembered ==
  \A r \in Runs : Processing(r) =>
    /\ \A channel \in Channels \cap saved[r].done : Indexed(VersionOf[r], channel)
    /\ "graph" \in saved[r].done => Graphed(VersionOf[r])

\* A run that completes has published what it was asked for.
LEMMA CompletesEffect ==
  ASSUME TypeOK, Owning, NEW r \in Runs, Completes(r)
  PROVE  /\ Processing(r)
         /\ \A channel \in Channels \cap want[r] :
              Finish(r) /\ r \in Committed(index)' /\ channel \in index'[r].channels
         /\ "graph" \in want[r] => r \in Committed(graph)'
<1>1. step[r] \in Publishing
  BY DEF Completes, Finish, FinishWithoutIndex, Publishing
<1>2. Kind[r] # "inference" BY <1>1 DEF Owning, Stations
<1>3. FinishWithoutIndex(r) => Processing(r) /\ ~Searching(r)
  <2> SUFFICES ASSUME FinishWithoutIndex(r) PROVE Processing(r) /\ ~Searching(r)
    OBVIOUS
  <2>1. release[r].index = NoRun BY DEF FinishWithoutIndex
  <2>2. Kind[r] # "pair" /\ ~Searching(r)
    BY <1>1, <2>1, RunsAssumption DEF Owning, OwnIndex
  <2>3. Kind[r] # "curation" BY <2>2 DEF Searching, ChannelsOf, Channels
  <2> QED BY <1>2, <2>2, <2>3, RunsAssumption DEF Processing, Kinds
<1>4. Processing(r) BY <1>3 DEF Completes
<1>5. ChannelsOf(r) = want[r] \cap Channels BY <1>4 DEF Processing, ChannelsOf
<1>6. ASSUME NEW channel \in Channels \cap want[r]
      PROVE  Finish(r) /\ r \in Committed(index)' /\ channel \in index'[r].channels
  <2>1. Searching(r) BY <1>5, <1>6 DEF Searching
  <2>2. Finish(r) BY <1>3, <2>1 DEF Completes
  <2>3. index[r].state = "built" /\ index[r].channels = ChannelsOf(r)
    BY <1>1, <1>4, <2>1 DEF Owning, OwnIndex, Processing
  <2> QED BY <1>5, <1>6, <2>2, <2>3, FinishEffect DEF Committed
<1>7. "graph" \in want[r] => r \in Committed(graph)'
  <2>1. UNCHANGED graph BY DEF Completes, Finish, FinishWithoutIndex, releases
  <2> QED BY <1>1, <1>4, <2>1 DEF Owning, OwnGraph, Committed
<1> QED BY <1>4, <1>6, <1>7

LEMMA RememberedStep ==
  ASSUME TypeOK, Numbered, Owning, CompletionFollowsProjection, Remembered,
         NEW r \in Runs, Acts(r)
  PROVE  CompletionFollowsProjection' /\ Remembered'
<1>1. \A v \in Versions : /\ \A channel \in Channels : Indexed(v, channel) => Indexed(v, channel)'
                          /\ Graphed(v) => Graphed(v)'
  BY CommittedGrows DEF Indexed, Graphed, Processing
<1>2. \A v \in Versions : /\ \A channel \in Channels \cap done[v] : Indexed(v, channel)
                          /\ "graph" \in done[v] => Graphed(v)
  BY DEF CompletionFollowsProjection, Indexed, Graphed
<1>3. VersionOf[r] \in Versions BY ConfigurationTypes
<1>4. \A v \in Versions : /\ \A channel \in Channels \cap done'[v] : Indexed(v, channel)'
                          /\ "graph" \in done'[v] => Graphed(v)'
  <2>1. /\ \A v \in Versions : v # VersionOf[r] => done'[v] = done[v]
        /\ \/ UNCHANGED done
           \/ Processing(r) /\ done'[VersionOf[r]] = saved[r].done
           \/ Completes(r)
    BY SummaryEffect DEF Owning, Stations
  <2>2. CASE UNCHANGED done BY <1>1, <1>2, <2>2
  <2>3. CASE Processing(r) /\ done'[VersionOf[r]] = saved[r].done
    BY <1>1, <1>2, <1>3, <2>1, <2>3 DEF Remembered
  <2>4. CASE Completes(r)
    <3>1. Processing(r) BY <2>4, CompletesEffect
    <3>2. done'[VersionOf[r]] \subseteq saved[r].done \cup want[r]
      BY <2>4, CompletedRows
    <3>3. \A channel \in Channels \cap want[r] : Indexed(VersionOf[r], channel)'
      BY <2>4, <3>1, CompletesEffect DEF Indexed, Processing
    <3>4. "graph" \in want[r] => Graphed(VersionOf[r])'
      BY <2>4, <3>1, CompletesEffect DEF Graphed, Processing
    <3>5. /\ \A channel \in Channels \cap saved[r].done : Indexed(VersionOf[r], channel)'
          /\ "graph" \in saved[r].done => Graphed(VersionOf[r])'
      BY <1>1, <1>3, <3>1 DEF Remembered
    <3>6. /\ \A channel \in Channels \cap done'[VersionOf[r]] : Indexed(VersionOf[r], channel)'
          /\ "graph" \in done'[VersionOf[r]] => Graphed(VersionOf[r])'
      BY <3>2, <3>3, <3>4, <3>5
    <3> QED BY <1>1, <1>2, <2>1, <3>6
  <2> QED BY <2>1, <2>2, <2>3, <2>4
<1>5. CompletionFollowsProjection'
  BY <1>4 DEF CompletionFollowsProjection, Indexed, Graphed
<1>6. Remembered'
  <2>1. /\ \A q \in Runs : q # r => saved'[q] = saved[q]
        /\ \/ saved'[r].done = saved[r].done
           \/ saved'[r].done = done[VersionOf[r]]
    BY RememberedEffect
  <2>2. \A q \in Runs : VersionOf[q] \in Versions BY ConfigurationTypes
  <2>3. ASSUME NEW q \in Runs, Processing(q)
        PROVE  /\ \A channel \in Channels \cap saved'[q].done : Indexed(VersionOf[q], channel)'
               /\ "graph" \in saved'[q].done => Graphed(VersionOf[q])'
    <3>1. saved'[q].done = saved[q].done \/ saved'[q].done = done[VersionOf[q]]
      BY <2>1
    <3> QED BY <1>1, <1>2, <2>2, <2>3, <3>1 DEF Remembered
  <2> QED BY <2>3 DEF Remembered, Processing
<1> QED BY <1>5, <1>6

LEMMA RememberedInit == Init => CompletionFollowsProjection /\ Remembered
  BY ConfigurationTypes DEF Init, CompletionFollowsProjection, Remembered

LEMMA CompletionStep ==
  TypeOK /\ Numbered /\ Owning /\ CompletionFollowsProjection /\ Remembered /\ [Next]_vars
    => CompletionFollowsProjection' /\ Remembered'
<1> SUFFICES ASSUME TypeOK, Numbered, Owning, CompletionFollowsProjection, Remembered, [Next]_vars
             PROVE  CompletionFollowsProjection' /\ Remembered'
  OBVIOUS
<1>1. CASE UNCHANGED vars
  BY <1>1 DEF vars, CompletionFollowsProjection, Remembered, Indexed, Graphed, Committed,
              Processing
<1>2. CASE Next
  <2>1. PICK r \in Runs : Acts(r) BY <1>2, NextKinds DEF Acts
  <2> QED BY <2>1, RememberedStep
<1> QED BY <1>1, <1>2

\* A target marked completed was published by a run of that version, whatever
\* summaries runs read, lose and write back.
THEOREM CompletionAlwaysFollows == Spec => []CompletionFollowsProjection
<1> DEFINE Both == CompletionFollowsProjection /\ Remembered
<1>1. Init => Both BY RememberedInit
<1>2. TypeOK /\ Numbered /\ Owning /\ Both /\ [Next]_vars => Both' BY CompletionStep
<1>3. Both => CompletionFollowsProjection OBVIOUS
<1> HIDE DEF Both
<1> QED BY <1>1, <1>2, <1>3, TypeCorrect, AlwaysNumbered, AlwaysOwning, PTL DEF Spec

-----------------------------------------------------------------------------
(* A version under way stays out of the releases of others.                 *)

\* Documents are processed for full text, for vectors or for both, if perhaps for
\* the graphs too.  A version processed for the graphs alone, in a space without
\* index, has no release that outlives the failure of its run.
DocumentsAreSearchable == \A r \in Runs : Processing(r) => Targets[r] \cap Channels # {}

\* Such a run asks for the index until it has published it.
Sought ==
  \A r \in Runs : Processing(r) /\ step[r] \notin {"queued", "finished"} \cup Final =>
    want[r] \cap Channels # {}

\* Whatever is completed, or remembered as completed, was released.
Known ==
  /\ \A r \in Runs : Processing(r) /\ step[r] = "finished" => r \in Committed(release)
  /\ \A v \in Versions : done[v] # {} => v \in Released
  /\ \A r \in Runs : Processing(r) /\ saved[r].done # {} => VersionOf[r] \in Released

\* A committed index holds released versions only, so the next one may take its
\* full text over.
IndexesReleased ==
  \A s \in Committed(index), channel \in Channels : index[s].holds[channel] \subseteq Released

LEMMA ActsTypes ==
  ASSUME TypeOK, NEW r \in Runs, Acts(r)
  PROVE  TypeOK'
<1>1. Next BY DEF Acts, Prepares, Picks, GivesUp, Next, Advance
<1> QED BY <1>1, TypeStep

LEMMA SoughtStep ==
  ASSUME DocumentsAreSearchable, TypeOK, Owning, Sought, NEW r \in Runs, Acts(r)
  PROVE  Sought'
<1>1. /\ Arrives(r)
      /\ \A q \in Runs : q # r => step'[q] = step[q] /\ want'[q] = want[q]
      /\ want'[r] = want[r] \/ (Start(r) /\ Targets[r] \subseteq want'[r])
  BY ArrivesEffect
<1>2. Processing(r) /\ step'[r] \notin {"queued", "finished"} \cup Final =>
        want'[r] \cap Channels # {}
  <2> SUFFICES ASSUME Processing(r), step'[r] \notin {"queued", "finished"} \cup Final
               PROVE  want'[r] \cap Channels # {}
    OBVIOUS
  <2>1. CASE Start(r)
    <3>1. want' = [want EXCEPT ![r] =
                     Targets[r] \cup (IF r \in Forced THEN done[VersionOf[r]] ELSE {})]
      BY <2>1 DEF Start
    <3> QED BY <3>1 DEF DocumentsAreSearchable, TypeOK
  <2>2. CASE ~Start(r)
    <3>1. step'[r] \in Steps BY ActsTypes DEF TypeOK
    <3>2. step[r] \notin {"queued", "finished"} \cup Final
      BY <1>1, <2>2, <3>1 DEF Arrives, Steps, Final, Processing
    <3> QED BY <1>1, <2>2, <3>2 DEF Sought
  <2> QED BY <2>1, <2>2
<1> QED BY <1>1, <1>2 DEF Sought, Processing

\* A released version stays released.
LEMMA ReleasedGrows ==
  ASSUME TypeOK, Numbered, Owning, Known, NEW r \in Runs, Acts(r)
  PROVE  Released \subseteq Released'
<1>1. Committed(release) \subseteq Committed(release)' BY CommittedGrows
<1>2. \A q \in Runs : q # r => step'[q] = step[q] BY ArrivesEffect
<1>3. step[r] \notin Final BY FinalRests
<1>4. ASSUME NEW v \in Released PROVE v \in Released'
  <2>1. PICK s \in Runs : /\ Processing(s) /\ VersionOf[s] = v
                          /\ step[s] \in {"finished", "ended"} \/ s \in Committed(release)
    BY DEF Released
  <2>2. CASE s \in Committed(release) BY <1>1, <2>1, <2>2 DEF Released, Processing
  <2>3. CASE s \notin Committed(release)
    <3>1. s # r BY <1>3, <2>1, <2>3 DEF Known, Final
    <3> QED BY <1>2, <2>1, <2>3, <3>1 DEF Released, Processing
  <2> QED BY <2>2, <2>3
<1> QED BY <1>4

LEMMA KnownStep ==
  ASSUME DocumentsAreSearchable, TypeOK, Numbered, Owning, Sought, Known,
         NEW r \in Runs, Acts(r)
  PROVE  Known'
<1>1. Released \subseteq Released' BY ReleasedGrows
<1>2. Committed(release) \subseteq Committed(release)' BY CommittedGrows
<1>3. \A q \in Runs : q # r => step'[q] = step[q] BY ArrivesEffect
<1>4. VersionOf[r] \in Versions BY ConfigurationTypes
<1>5. Completes(r) => Finish(r) /\ Processing(r)
  <2>1. Completes(r) => step[r] \in {"indexed", "numbered"}
    BY DEF Completes, Finish, FinishWithoutIndex
  <2> QED BY <2>1, CompletesEffect DEF Sought, Final
<1>6. Finish(r) => step'[r] = "finished" /\ r \in Committed(release)'
  <2>1. Finish(r) => step'[r] = "finished" BY GotoEffect DEF Finish
  <2>2. Finish(r) => release'[r].state = "published" BY FinishEffect
  <2> QED BY <2>1, <2>2 DEF Committed
<1>7. Completes(r) => VersionOf[r] \in Released'
  BY <1>4, <1>5, <1>6 DEF Released, Processing
<1>8. Processing(r) /\ step'[r] = "finished" => r \in Committed(release)'
  <2>1. CASE Prepares(r)
    <3>1. step'[r] = "finished" => Completes(r)
      BY <2>1, GotoEffect DEF Prepares, SkipDone, Refuse, Start, Split, Stage, Govern,
                              StartOther, FinishWithoutIndex, End, Completes
    <3> QED BY <1>5, <1>6, <3>1
  <2>2. CASE Finish(r) BY <1>6, <2>2
  <2>3. CASE Acts(r) /\ ~Prepares(r) /\ ~Finish(r)
    <3>1. Processing(r) => step'[r] # "finished"
      BY <2>3, PicksEffect, GivesUpEffect, CommitGraphEffect, GotoEffect
         DEF Acts, BuildGraph, BuildIndex, ReadCurrent, ReadNumber, Processing
    <3> QED BY <3>1
  <2> QED BY <2>1, <2>2, <2>3
<1>9. \A v \in Versions : done'[v] # {} => v \in Released'
  <2>1. /\ \A v \in Versions : v # VersionOf[r] => done'[v] = done[v]
        /\ \/ UNCHANGED done
           \/ Processing(r) /\ done'[VersionOf[r]] = saved[r].done
           \/ Completes(r)
    BY SummaryEffect DEF Owning, Stations
  <2> QED BY <1>1, <1>7, <2>1 DEF Known
<1>10. \A q \in Runs : Processing(q) /\ saved'[q].done # {} => VersionOf[q] \in Released'
  <2>1. /\ \A q \in Runs : q # r => saved'[q] = saved[q]
        /\ \/ saved'[r].done = saved[r].done
           \/ saved'[r].done = done[VersionOf[r]]
    BY RememberedEffect
  <2> QED BY <1>1, <1>4, <2>1 DEF Known
<1> QED BY <1>2, <1>3, <1>8, <1>9, <1>10 DEF Known, Processing

\* A release is built from versions known to be released, and its own.
LEMMA UnfinishedStep ==
  ASSUME TypeOK, Numbered, Owning, Known, IndexesReleased, UnfinishedStaysOut,
         NEW r \in Runs, Acts(r)
  PROVE  UnfinishedStaysOut'
<1>1. Released \subseteq Released' BY ReleasedGrows
<1>2. /\ \A q \in Runs : q # r => step'[q] = step[q]
      /\ step'[r] = "building" => step[r] = "governed"
  BY ArrivesEffect DEF Arrives
<1>3. \A q \in Runs : q # r => graph'[q] = graph[q] /\ index'[q] = index[q]
  BY OthersKept
<1>4. \A goal \in Goals : Projected(r, goal) \subseteq Released \cup Own(r)
  BY DEF Projected, Known
<1>5. step'[r] = "building" => graph'[r].versions \subseteq Released \cup Own(r)
  <2> SUFFICES ASSUME step'[r] = "building"
               PROVE  graph'[r].versions \subseteq Released \cup Own(r)
    OBVIOUS
  <2>1. BuildGraph(r)
    BY <1>2, GotoEffect, PreparesEffect, PicksEffect, GivesUpEffect
       DEF Acts, Finish, CommitGraph, BuildIndex, ReadCurrent, ReadNumber
  <2>2. graph'[r].versions = GraphVersions(r) BY <2>1 DEF BuildGraph, TypeOK
  <2> QED BY <1>4, <2>2 DEF GraphVersions, Goals
<1>6. ASSUME index'[r].state = "built", NEW channel \in Channels
      PROVE  index'[r].holds[channel] \subseteq Released \cup Own(r)
  <2>1. CASE index'[r] = index[r] BY <1>6, <2>1 DEF UnfinishedStaysOut
  <2>2. CASE BuildIndex(r)
    <3>1. PICK before \in Runs \cup {NoRun} :
            IsLatest(index, before) /\ index'[r].holds = Holds(r, before)
      BY <2>2, BuildIndexEffect DEF TypeOK
    <3>2. TakenOver(before, channel) \subseteq Released
      <4>1. before # NoRun => before \in Committed(index)
        BY <3>1 DEF IsLatest, Published, Committed
      <4> QED BY <4>1 DEF TakenOver, IndexesReleased
    <3>3. {v \in Projected(r, channel) : Effective(v)} \subseteq Released \cup Own(r)
      BY <1>4 DEF Goals
    <3> QED BY <3>1, <3>2, <3>3 DEF Holds
  <2>3. CASE Finish(r) BY <1>6, <2>3, FinishEffect
  <2>4. CASE GivesUp(r)
    <3>1. index'[r] = IF index[r].state = "built" THEN NoIndex ELSE index[r]
      BY <2>4, GivesUpEffect, RolledBackEffect
    <3> QED BY <1>6, <3>1 DEF NoIndex
  <2> QED BY <2>1, <2>2, <2>3, <2>4, OwnMoves
<1>7. ASSUME NEW q \in Runs, q # r
      PROVE  /\ step'[q] = "building" => graph'[q].versions \subseteq Released' \cup Own(q)
             /\ index'[q].state = "built" => \A channel \in Channels :
                  index'[q].holds[channel] \subseteq Released' \cup Own(q)
  BY <1>1, <1>2, <1>3, <1>7 DEF UnfinishedStaysOut
<1> QED BY <1>1, <1>5, <1>6, <1>7 DEF UnfinishedStaysOut, Own, Processing

\* An index is committed with the release of its own version.
LEMMA IndexesStep ==
  ASSUME TypeOK, Numbered, Owning, Known, IndexesReleased, UnfinishedStaysOut,
         NEW r \in Runs, Acts(r)
  PROVE  IndexesReleased'
<1>1. Released \subseteq Released' BY ReleasedGrows
<1>2. \A s \in Committed(index) : index'[s].holds = index[s].holds BY CommittedGrows
<1>3. ASSUME NEW s \in Committed(index)', s \notin Committed(index), NEW channel \in Channels
      PROVE  index'[s].holds[channel] \subseteq Released'
  <2>1. s \in Runs BY DEF Committed
  <2>2. s = r BY <1>3, <2>1, OthersKept DEF Committed
  <2>3. Finish(r) /\ index[r].state = "built"
    <3>1. BuildIndex(r) => index'[r].state = "built" BY BuildIndexEffect DEF TypeOK
    <3>2. GivesUp(r) => index'[r] = NoIndex \/ index'[r] = index[r]
      BY GivesUpEffect, RolledBackEffect
    <3>3. Finish(r)
      BY <1>3, <2>2, <3>1, <3>2, OwnMoves DEF Committed, NoIndex
    <3>4. index[r].state \in {"none", "built", "published"} BY DEF TypeOK, IndexReleases
    <3> QED BY <1>3, <2>2, <3>3, <3>4, FinishEffect DEF Committed
  <2>4. index[r].holds[channel] \subseteq Released \cup Own(r)
    BY <2>3 DEF UnfinishedStaysOut
  <2>5. Own(r) \subseteq Released'
    <3>1. r \in Committed(release)' BY <2>3, FinishEffect DEF Committed
    <3> QED BY <3>1, ConfigurationTypes DEF Own, Released, Processing
  <2> QED BY <1>1, <2>2, <2>3, <2>4, <2>5, FinishEffect
<1> QED BY <1>1, <1>2, <1>3 DEF IndexesReleased

\* The inductive invariant.
StayingOut == Sought /\ Known /\ IndexesReleased /\ UnfinishedStaysOut

LEMMA StayingOutInit == Init => StayingOut
  BY DEF Init, StayingOut, Sought, Known, IndexesReleased, UnfinishedStaysOut, Committed, NoIndex

LEMMA StayingOutStep ==
  ASSUME DocumentsAreSearchable
  PROVE  TypeOK /\ Numbered /\ Owning /\ StayingOut /\ [Next]_vars => StayingOut'
<1> SUFFICES ASSUME TypeOK, Numbered, Owning, StayingOut, [Next]_vars PROVE StayingOut'
  OBVIOUS
<1> USE DEF StayingOut
<1>1. CASE UNCHANGED vars
  BY <1>1 DEF vars, Sought, Known, IndexesReleased, UnfinishedStaysOut, Released, Own,
              Committed, Processing
<1>2. CASE Next
  <2>1. PICK r \in Runs : Acts(r) BY <1>2, NextKinds DEF Acts
  <2> QED BY <2>1, SoughtStep, KnownStep, IndexesStep, UnfinishedStep
<1> QED BY <1>1, <1>2

\* What is completed, remembered or indexed was released, in every state.
THEOREM AlwaysStayingOut ==
  ASSUME DocumentsAreSearchable
  PROVE  Spec => []StayingOut
<1>1. TypeOK /\ Numbered /\ Owning /\ StayingOut /\ [Next]_vars => StayingOut'
  BY StayingOutStep
<1> QED BY <1>1, StayingOutInit, TypeCorrect, AlwaysNumbered, AlwaysOwning, PTL DEF Spec

\* The text of a version that is not finished never enters the index that another
\* run publishes, in either channel, nor its facts a graph.
THEOREM UnfinishedAlwaysStaysOut ==
  ASSUME DocumentsAreSearchable
  PROVE  Spec => []UnfinishedStaysOut
<1>1. StayingOut => UnfinishedStaysOut BY DEF StayingOut
<1> QED BY <1>1, AlwaysStayingOut, PTL

-----------------------------------------------------------------------------
(* The full text side implements SearchCatalogue, and vectors are whole,    *)
(* where every run builds an index of some channel and every version is     *)
(* processed by one run: a second run supersedes the chunks of its version  *)
(* while it works, and other runs may then release an index without it.     *)

OneRunPerVersion ==
  \A r, s \in Runs : Processing(r) /\ Processing(s) /\ VersionOf[r] = VersionOf[s] => r = s

\* The only run of a version remembers nothing completed, and completes at its
\* last commit, with the chunks of the version published.
Fresh ==
  /\ \A r \in Runs : saved[r].done = {}
  /\ \A v \in Versions : done[v] # {} => chunk[v] = "published"
  /\ \A r \in Runs : Processing(r) =>
       /\ done[VersionOf[r]] # {} => step[r] \in {"finished", "ended", "dead"}
       /\ step[r] \in {"staged", "governed", "building", "graphed"} =>
            chunk[VersionOf[r]] = "staged"

\* What completes with the run's release.
Gains(r, channel) == {v \in Own(r) : channel \in want[r]}

\* The index of the current release is the latest one, and with it the OpenSearch
\* index to take over is the one readers see.
Latest ==
  /\ Published(index) # {} => Published(release) # {}
  /\ \A k \in Published(release) :
       /\ release[k].index = k /\ index[k].state = "published"
       /\ \A s \in Published(index) : index[s].number <= index[k].number

\* An index under construction holds what was live when it was built, and under
\* the lock nothing becomes live: what it holds beyond that is still shown.
Holding ==
  /\ \A r \in Runs : step[r] \in Publishing =>
       /\ Live \cup Gains(r, "fulltext") \subseteq index[r].holds["fulltext"]
       /\ index[r].holds["fulltext"] \subseteq Live \cup Gains(r, "fulltext") \cup Shown
       /\ "vector" \in index[r].channels =>
            Completed("vector") \cup Gains(r, "vector") \subseteq index[r].holds["vector"]
  /\ \A k \in Published(release) : "vector" \in index[k].channels =>
       Completed("vector") \subseteq index[k].holds["vector"]
  /\ Live \subseteq Shown

LEMMA FreshStep ==
  ASSUME OneRunPerVersion, TypeOK, Owning, Fresh, NEW r \in Runs, Acts(r)
  PROVE  Fresh'
<1>0. \A q \in Runs : VersionOf[q] \in Versions BY ConfigurationTypes
<1>1. /\ Arrives(r)
      /\ \A q \in Runs : q # r => step'[q] = step[q]
  BY ArrivesEffect
<1>2. /\ \A v \in Versions : v # VersionOf[r] => done'[v] = done[v]
      /\ \/ UNCHANGED done
         \/ Processing(r) /\ (Stage(r) \/ GivesUp(r)) /\ done'[VersionOf[r]] = {}
         \/ Completes(r)
  BY SummaryEffect DEF Owning, Stations, Fresh
<1>3. Completes(r) =>
        /\ Processing(r) /\ step'[r] = "finished" /\ chunk'[VersionOf[r]] = "published"
  <2>1. Completes(r) => Processing(r) /\ RowsPublished(r) /\ Goto(r, "finished")
    BY CompletesEffect DEF Completes, Finish, FinishWithoutIndex
  <2> QED BY <1>0, <2>1, GotoEffect DEF RowsPublished, TypeOK
<1>4. Processing(r) /\ step[r] \in {"queued", "started", "split", "staged", "governed", "building",
                                    "graphed"} \cup Publishing
        => done[VersionOf[r]] = {}
  BY DEF Fresh, Publishing
<1>5. Start(r) => done[VersionOf[r]] = {} BY <1>4 DEF Start
<1>6. \A q \in Runs : saved'[q].done = {}
  BY <1>5, RememberedEffect DEF Fresh
\* Chunks change at the version of a processing run only.
<1>7. /\ \A v \in Versions : v # VersionOf[r] => chunk'[v] = chunk[v]
      /\ \/ UNCHANGED chunk
         \/ /\ Processing(r)
            /\ Split(r) \/ Stage(r) \/ Completes(r) \/ (GivesUp(r) /\ RowsRestored(r))
  <2>1. CASE Split(r) \/ Stage(r)
    <3>1. Processing(r) BY <2>1 DEF Split, Stage, Owning, Stations
    <3>2. \A v \in Versions : v # VersionOf[r] => chunk'[v] = chunk[v]
      BY <2>1 DEF Split, Stage, TypeOK
    <3> QED BY <2>1, <3>1, <3>2
  <2>2. CASE Completes(r)
    <3>1. \A v \in Versions : v # VersionOf[r] => chunk'[v] = chunk[v]
      BY <2>2 DEF Completes, Finish, FinishWithoutIndex, RowsPublished, TypeOK
    <3> QED BY <1>3, <2>2, <3>1
  <2>3. CASE GivesUp(r)
    <3>1. UNCHANGED chunk \/ (Processing(r) /\ RowsRestored(r))
      BY <2>3 DEF GivesUp, Fail, Conflict, NoModel, Die, Compensated, rows
    <3>2. RowsRestored(r) => \A v \in Versions : v # VersionOf[r] => chunk'[v] = chunk[v]
      BY DEF RowsRestored, TypeOK
    <3> QED BY <2>3, <3>1, <3>2
  <2>4. CASE ~Split(r) /\ ~Stage(r) /\ ~Completes(r) /\ ~GivesUp(r)
    <3>1. CASE Prepares(r)
      BY <2>4, <3>1 DEF Prepares, SkipDone, Refuse, Start, Govern, StartOther,
                        Completes, End, rows
    <3>2. CASE Picks(r) BY <3>2 DEF Picks, PickGraph, PickIndex, PickPair, rows
    <3>3. CASE BuildGraph(r) \/ CommitGraph(r) \/ BuildIndex(r) \/ ReadCurrent(r) \/ ReadNumber(r)
      BY <3>3 DEF BuildGraph, CommitGraph, BuildIndex, ReadCurrent, ReadNumber, rows
    <3>4. CASE Finish(r) BY <2>4, <3>4 DEF Finish, Completes, rows
    <3> QED BY <2>4, <3>1, <3>2, <3>3, <3>4 DEF Acts
  <2> QED BY <2>1, <2>2, <2>3, <2>4
<1>8. done'[VersionOf[r]] # {} => chunk'[VersionOf[r]] = "published"
  <2> SUFFICES ASSUME done'[VersionOf[r]] # {}, ~Completes(r)
               PROVE  chunk'[VersionOf[r]] = "published"
    BY <1>3
  <2>1. UNCHANGED done BY <1>2
  <2>2. chunk[VersionOf[r]] = "published" BY <1>0, <2>1 DEF Fresh
  <2>3. ~(Processing(r) /\ (Split(r) \/ Stage(r))) BY <1>4, <2>1 DEF Split, Stage
  <2>4. ~(Processing(r) /\ GivesUp(r) /\ RowsRestored(r))
    BY <1>0, <2>1 DEF RowsRestored, Fresh, TypeOK
  <2> QED BY <1>7, <2>2, <2>3, <2>4
<1>9. \A v \in Versions : done'[v] # {} => chunk'[v] = "published"
  BY <1>2, <1>7, <1>8 DEF Fresh
<1>10. Processing(r) /\ done'[VersionOf[r]] # {} => step'[r] \in {"finished", "ended", "dead"}
  <2> SUFFICES ASSUME Processing(r), done'[VersionOf[r]] # {}, ~Completes(r)
               PROVE  step'[r] \in {"finished", "ended", "dead"}
    BY <1>3
  <2>1. UNCHANGED done BY <1>2
  <2>2. step[r] = "finished" BY <2>1, FinalRests DEF Fresh, Final
  <2>3. CASE Prepares(r) BY <2>2, <2>3, PreparesEffect, GotoEffect
  <2>4. CASE GivesUp(r)
    <3>1. ~RowsRestored(r) BY <1>0, <2>1 DEF RowsRestored, Fresh, TypeOK
    <3>2. Die(r)
      BY <2>4, <2>2, <3>1 DEF GivesUp, Fail, Conflict, NoModel, Compensated
    <3> QED BY <3>2, GotoEffect DEF Die
  <2> QED BY <2>2, <2>3, <2>4, PicksEffect
          DEF Acts, Finish, BuildGraph, CommitGraph, BuildIndex, ReadCurrent, ReadNumber
<1>11. Processing(r) /\ step'[r] \in {"staged", "governed", "building", "graphed"} =>
         chunk'[VersionOf[r]] = "staged"
  <2> SUFFICES ASSUME Processing(r), step'[r] \in {"staged", "governed", "building", "graphed"}
               PROVE  chunk'[VersionOf[r]] = "staged"
    OBVIOUS
  <2>1. CASE Stage(r) BY <1>0, <2>1 DEF Stage, TypeOK
  <2>2. CASE ~Stage(r)
    <3>1. ~Split(r) /\ ~Completes(r) /\ ~GivesUp(r)
      BY <1>3, GotoEffect, GivesUpEffect DEF Split
    <3>2. chunk'[VersionOf[r]] = chunk[VersionOf[r]] BY <1>7, <2>2, <3>1
    <3>3. step[r] \in {"staged", "governed", "building", "graphed"}
      <4>1. step'[r] = "staged" => Stage(r)
        BY <3>1, GotoEffect, PicksEffect, CommitGraphEffect
           DEF Acts, Prepares, SkipDone, Refuse, Start, Govern, StartOther, Completes, End,
               Finish, BuildGraph, BuildIndex, ReadCurrent, ReadNumber
      <4> QED BY <1>1, <2>2, <4>1 DEF Arrives, Processing
    <3> QED BY <3>2, <3>3 DEF Fresh
  <2> QED BY <2>1, <2>2
<1>12. ASSUME NEW q \in Runs, q # r, Processing(q)
       PROVE  /\ done'[VersionOf[q]] # {} => step'[q] \in {"finished", "ended", "dead"}
              /\ step'[q] \in {"staged", "governed", "building", "graphed"} =>
                   chunk'[VersionOf[q]] = "staged"
  <2>1. Processing(r) => VersionOf[q] # VersionOf[r] BY <1>12 DEF OneRunPerVersion
  <2>2. done'[VersionOf[q]] = done[VersionOf[q]] BY <1>0, <1>2, <1>3, <2>1
  <2>3. chunk'[VersionOf[q]] = chunk[VersionOf[q]] BY <1>0, <1>7, <2>1
  <2> QED BY <1>1, <1>12, <2>2, <2>3 DEF Fresh
<1> QED BY <1>6, <1>9, <1>10, <1>11, <1>12 DEF Fresh, Processing

\* Where runs build an index, the run at the switch has built it.
LEMMA BuiltOwn ==
  ASSUME EachSearches, Owning, Sought, NEW r \in Runs, step[r] \in Publishing
  PROVE  /\ index[r].state = "built" /\ index[r].channels = ChannelsOf(r)
         /\ release[r].index = r
<1>1. Kind[r] # "pair" /\ Kind[r] # "inference" BY DEF EachSearches, Owning, Stations
<1>2. Searching(r)
  <2>1. CASE Processing(r)
    BY <2>1 DEF Sought, Searching, ChannelsOf, Processing, Publishing, Final
  <2>2. CASE ~Processing(r)
    BY <1>1, <2>2, RunsAssumption DEF Searching, ChannelsOf, Channels, Processing, Kinds
  <2> QED BY <2>1, <2>2
<1> QED BY <1>1, <1>2 DEF Owning, OwnIndex

\* What a step does to the versions that have completed a channel.
LEMMA CompletedEffect ==
  ASSUME TypeOK, Owning, Sought, Fresh, NEW r \in Runs, Acts(r), NEW channel \in Channels
  PROVE  /\ Finish(r) => Completed(channel)' = Completed(channel) \cup Gains(r, channel)
         /\ ~Finish(r) => \/ Completed(channel)' = Completed(channel)
                          \/ /\ GivesUp(r) /\ VersionOf[r] \in Completed(channel)
                             /\ Completed(channel)' = Completed(channel) \ {VersionOf[r]}
<1>0. VersionOf[r] \in Versions BY ConfigurationTypes
<1>1. /\ \A v \in Versions : v # VersionOf[r] => done'[v] = done[v]
      /\ \/ UNCHANGED done
         \/ Processing(r) /\ (Stage(r) \/ GivesUp(r)) /\ done'[VersionOf[r]] = {}
         \/ Completes(r)
  BY SummaryEffect DEF Owning, Stations, Fresh
<1>2. ASSUME Completes(r)
      PROVE  /\ Finish(r) /\ Processing(r) /\ done[VersionOf[r]] = {}
             /\ channel \in done'[VersionOf[r]] <=> channel \in want[r]
  <2>1. step[r] \in Publishing
    BY <1>2 DEF Completes, Finish, FinishWithoutIndex, Publishing
  <2>2. Processing(r) BY <1>2, CompletesEffect
  <2>3. want[r] \cap Channels # {} BY <2>1, <2>2 DEF Sought, Publishing, Final
  <2>4. Finish(r) BY <1>2, <2>3, CompletesEffect
  <2>5. done[VersionOf[r]] = {} BY <2>1, <2>2 DEF Fresh, Publishing
  <2>6. /\ done'[VersionOf[r]] \subseteq want[r]
        /\ want[r] \cap Channels \subseteq done'[VersionOf[r]]
    BY <1>2, CompletedRows DEF Fresh
  <2> QED BY <2>2, <2>4, <2>5, <2>6
<1>3. CASE Finish(r)
  <2>1. CASE Processing(r)
    <3>1. Completes(r) BY <1>3, <2>1 DEF Completes
    <3> QED BY <1>0, <1>1, <1>2, <1>3, <2>1, <3>1 DEF Completed, Gains, Own
  <2>2. CASE ~Processing(r)
    BY <1>3, <2>2 DEF Finish, rows, Completed, Gains, Own
  <2> QED BY <2>1, <2>2
<1>4. CASE GivesUp(r)
  <2>1. ~Finish(r) BY <1>4, GivesUpEffect, GotoEffect DEF Finish
  <2> QED BY <1>0, <1>1, <1>2, <1>4, <2>1 DEF Completed
<1>5. CASE ~Finish(r) /\ ~GivesUp(r)
  <2>1. Processing(r) /\ Stage(r) => done[VersionOf[r]] = {}
    BY DEF Stage, Fresh
  <2>2. \/ UNCHANGED done
        \/ done'[VersionOf[r]] = {} /\ done[VersionOf[r]] = {}
    BY <1>1, <1>2, <1>5, <2>1
  <2> QED BY <1>1, <1>5, <2>2 DEF Completed
<1> QED BY <1>3, <1>4, <1>5

\* Published indexes change with the last commit of a run only.
LEMMA IndexesKept ==
  ASSUME TypeOK, Owning, NEW r \in Runs, Acts(r), ~Finish(r)
  PROVE  /\ Published(index)' = Published(index)
         /\ \A s \in Published(index) : index'[s] = index[s]
<1>1. \A q \in Runs : q # r => index'[q] = index[q] BY OthersKept
<1>2. CASE index'[r] = index[r] BY <1>1, <1>2 DEF Published
<1>3. CASE BuildIndex(r)
  <2>1. index[r].state = "none" BY <1>3 DEF BuildIndex, Owning, OwnIndex
  <2>2. index'[r].state = "built" BY <1>3, BuildIndexEffect DEF TypeOK
  <2> QED BY <1>1, <2>1, <2>2 DEF Published
<1>4. CASE GivesUp(r)
  <2>1. index'[r] = IF index[r].state = "built" THEN NoIndex ELSE index[r]
    BY <1>4, GivesUpEffect, RolledBackEffect
  <2> QED BY <1>1, <2>1 DEF NoIndex, Published
<1> QED BY <1>2, <1>3, <1>4, OwnMoves

\* A published release keeps its index until it is superseded.
LEMMA PublishedKept ==
  ASSUME TypeOK, Numbered, Owning, Latest, NEW r \in Runs, Acts(r), ~Finish(r),
         NEW k \in Published(release)
  PROVE  release'[k].index = k /\ index'[k] = index[k]
<1>1. k \in Runs /\ release[k].index = k /\ index[k].state = "published"
  BY DEF Latest, Published
<1>2. index'[k] = index[k] BY <1>1, IndexesKept DEF Published
<1>3. CASE k # r BY <1>1, <1>2, <1>3, OthersKept
<1>4. CASE k = r
  <2>1. step[r] \in {"finished"} \cup Final
    BY <1>4, EarlyUncommitted DEF Numbered, Published, Committed
  <2>2. Prepares(r) \/ GivesUp(r)
    BY <2>1, PicksEffect
       DEF Acts, BuildGraph, CommitGraph, BuildIndex, ReadCurrent, ReadNumber, Final
  <2>3. CASE Prepares(r) BY <1>1, <1>2, <1>4, <2>3, PreparesEffect
  <2>4. CASE GivesUp(r)
    <3>1. RolledBack(r) BY <2>4, GivesUpEffect
    <3>2. release[r].state = "published" BY <1>4 DEF Published
    <3> QED BY <1>1, <1>2, <1>4, <3>1, <3>2, RolledBackEffect
  <2> QED BY <2>2, <2>3, <2>4
<1> QED BY <1>3, <1>4

LEMMA LatestStep ==
  ASSUME EachSearches, TypeOK, Numbered, Owning, Sought, Switched, Latest,
         NEW r \in Runs, Acts(r)
  PROVE  /\ Latest'
         /\ Finish(r) => Published(release)' = {r}
         /\ ~Finish(r) => Published(release)' = Published(release)
<1>1. CASE ~Finish(r)
  <2>1. Published(release)' = Published(release)
    BY <1>1, AsksStep, ReleaseEffect DEF Switched
  <2>2. \A k \in Published(release) : release'[k].index = k /\ index'[k] = index[k]
    BY <1>1, PublishedKept
  <2>3. /\ Published(index)' = Published(index)
        /\ \A s \in Published(index) : index'[s] = index[s]
    BY <1>1, IndexesKept
  <2> QED BY <1>1, <2>1, <2>2, <2>3 DEF Latest
<1>2. CASE Finish(r)
  <2>1. step[r] = "numbered" BY <1>2 DEF Finish
  <2>2. index[r].state = "built" /\ release[r].index = r
    BY <2>1, BuiltOwn DEF Publishing
  <2>3. current[r] = Published(release) BY <2>1 DEF Switched, Switching
  <2>4. Published(release)' = {r} BY <1>2, <2>3, FinishEffect DEF Published
  <2>5. release'[r].index = r /\ index'[r].state = "published"
    BY <1>2, <2>2, FinishEffect
  <2>6. \A s \in Published(index)' : index'[s].number <= index'[r].number
    <3>1. Above(index, r) BY <2>2 DEF Numbered, IndexNumbered
    <3>2. \A s \in Published(index)' : s = r \/ s \in Committed(index)
      BY <1>2, FinishEffect DEF Published, Committed
    <3>3. \A s \in Runs : index'[s].number = index[s].number /\ index[s].number \in Nat
      BY <1>2, FinishEffect DEF TypeOK, IndexReleases
    <3> QED BY <3>1, <3>2, <3>3 DEF Above, Committed
  <2> QED BY <1>2, <2>4, <2>5, <2>6 DEF Latest
<1> QED BY <1>1, <1>2

\* The only published release is the one readers see.
LEMMA OnlyIsLatest ==
  ASSUME TypeOK, OnePublishedKnowledge
  PROVE  Current = Published(release)
<1>1. ASSUME NEW k \in Published(release) PROVE IsLatest(release, k)
  <2>1. \A s \in Published(release) : s = k BY DEF OnePublishedKnowledge
  <2>2. release[k].number \in Nat BY DEF Published, TypeOK, KnowledgeReleases
  <2> QED BY <2>1, <2>2 DEF IsLatest
<1> QED BY <1>1 DEF Current

\* What readers see of the full text: the text of the only published release.
LEMMA ShownIs ==
  ASSUME TypeOK, OnePublishedKnowledge, Latest
  PROVE  Shown = {v \in Versions : \E k \in Published(release) : v \in index[k].holds["fulltext"]}
<1>1. Current = Published(release) BY OnlyIsLatest
<1>2. \A k \in Published(release) : release[k].index = k BY DEF Latest
<1> QED BY <1>1, <1>2 DEF Shown

\* What readers see changes with the last commit of a run only.
LEMMA ShownEffect ==
  ASSUME EachSearches, TypeOK, Numbered, Owning, Sought, Switched, Switched', Latest,
         NEW r \in Runs, Acts(r)
  PROVE  /\ ~Finish(r) => Shown' = Shown
         /\ Finish(r) => Shown' = index[r].holds["fulltext"]
<1>1. Shown = {v \in Versions : \E k \in Published(release) : v \in index[k].holds["fulltext"]}
  BY ShownIs DEF Switched, Switching
<1>2. Shown' = {v \in Versions : \E k \in Published(release)' : v \in index'[k].holds["fulltext"]}
  <2>1. TypeOK' BY ActsTypes
  <2>2. ASSUME NEW k \in Published(release)' PROVE IsLatest(release, k)'
    <3>1. \A s \in Published(release)' : s = k
      BY DEF Switched, Switching, OnePublishedKnowledge
    <3>2. release'[k].number \in Nat
      BY <2>1 DEF Published, TypeOK, KnowledgeReleases
    <3>3. \A s \in Published(release)' : release'[s].number <= release'[k].number
      BY <3>1, <3>2
    <3> QED BY <3>3 DEF IsLatest
  <2>3. Current' = Published(release)' BY <2>2 DEF Current
  <2>4. \A k \in Published(release)' : release'[k].index = k BY LatestStep DEF Latest
  <2> QED BY <2>3, <2>4 DEF Shown
<1>3. CASE ~Finish(r)
  <2>1. Published(release)' = Published(release) BY <1>3, LatestStep
  <2>2. \A k \in Published(release) : index'[k] = index[k] BY <1>3, PublishedKept
  <2> QED BY <1>1, <1>2, <1>3, <2>1, <2>2
<1>4. CASE Finish(r)
  <2>1. Published(release)' = {r} BY <1>4, LatestStep
  <2>2. index'[r].holds = index[r].holds BY <1>4, FinishEffect
  <2>3. index[r].holds["fulltext"] \subseteq Versions
    BY DEF TypeOK, IndexReleases, Channels
  <2> QED BY <1>2, <1>4, <2>1, <2>2, <2>3
<1> QED BY <1>3, <1>4

\* The OpenSearch index that is taken over is the one readers see.
LEMMA TakenOverIsShown ==
  ASSUME TypeOK, Numbered, Switched, Latest, NEW before \in Runs \cup {NoRun},
         IsLatest(index, before)
  PROVE  TakenOver(before, "fulltext") = Shown
<1>1. Shown = {v \in Versions : \E k \in Published(release) : v \in index[k].holds["fulltext"]}
  BY ShownIs DEF Switched, Switching
<1>2. CASE before = NoRun
  <2>1. Published(index) = {} BY <1>2, RunsAssumption DEF IsLatest, Published
  <2>2. Published(release) = {} BY <2>1 DEF Latest, Published
  <2> QED BY <1>1, <1>2, <2>2 DEF TakenOver
<1>3. CASE before # NoRun
  <2>1. before \in Published(index) BY <1>3 DEF IsLatest
  <2>2. PICK k \in Published(release) : TRUE BY <2>1 DEF Latest
  <2>3. k \in Published(index) /\ index[before].number <= index[k].number
    BY <2>1, <2>2 DEF Latest, Published
  <2>4. index[k].number <= index[before].number BY <2>1, <2>3 DEF IsLatest
  <2>5. \A s \in Runs : index[s].number \in Nat BY DEF TypeOK, IndexReleases
  <2>6. before = k
    BY <2>1, <2>3, <2>4, <2>5 DEF Numbered, IndexNumbered, Distinct, Published, Committed
  <2>7. \A l \in Published(release) : l = k
    BY <2>2 DEF Switched, Switching, OnePublishedKnowledge
  <2>8. index[k].holds["fulltext"] \subseteq Versions
    BY <2>3 DEF TypeOK, IndexReleases, Channels, Published
  <2> QED BY <1>1, <1>3, <2>2, <2>6, <2>7, <2>8 DEF TakenOver
<1> QED BY <1>2, <1>3

\* What a run builds: all that is live, its own version, and what is shown.
LEMMA BuildIndexHolds ==
  ASSUME TypeOK, Numbered, Owning, Sought, Switched, Latest, Fresh, Live \subseteq Shown,
         NEW r \in Runs, BuildIndex(r)
  PROVE  /\ Live \cup Gains(r, "fulltext") \subseteq index'[r].holds["fulltext"]
         /\ index'[r].holds["fulltext"] \subseteq Live \cup Gains(r, "fulltext") \cup Shown
         /\ "vector" \in index'[r].channels =>
              Completed("vector") \cup Gains(r, "vector") \subseteq index'[r].holds["vector"]
<1>1. PICK before \in Runs \cup {NoRun} :
        /\ IsLatest(index, before)
        /\ index'[r].holds = Holds(r, before) /\ index'[r].channels = ChannelsOf(r)
  BY BuildIndexEffect DEF TypeOK
<1>2. ASSUME NEW channel \in Channels
      PROVE  {v \in Projected(r, channel) : Effective(v)} = Completed(channel) \cup Own(r)
  <2>1. Projected(r, channel) = Completed(channel) \cup Own(r) BY DEF Projected, Completed
  <2>2. \A v \in Completed(channel) : Effective(v) BY DEF Completed, Fresh, Effective
  <2>3. \A v \in Own(r) : Effective(v) BY DEF BuildIndex, Own, Fresh, Effective
  <2> QED BY <2>1, <2>2, <2>3
<1>3. \A channel \in Channels :
        /\ channel \in ChannelsOf(r) => Gains(r, channel) = Own(r)
        /\ channel \notin ChannelsOf(r) => Gains(r, channel) = {}
  BY DEF Gains, Own, ChannelsOf, Processing
<1>4. "fulltext" \in Channels /\ "vector" \in Channels BY DEF Channels
<1>5. CASE "fulltext" \in ChannelsOf(r)
  BY <1>1, <1>2, <1>3, <1>4, <1>5 DEF Holds, Live
<1>6. CASE "fulltext" \notin ChannelsOf(r)
  <2>1. index'[r].holds["fulltext"] = Shown
    BY <1>1, <1>4, <1>6, TakenOverIsShown DEF Holds
  <2>2. "vector" \in ChannelsOf(r) => index'[r].holds["vector"] = Completed("vector") \cup Own(r)
    BY <1>1, <1>2, <1>4 DEF Holds
  <2> QED BY <1>1, <1>3, <1>4, <1>6, <2>1, <2>2
<1> QED BY <1>5, <1>6

LEMMA HoldingStep ==
  ASSUME EachSearches, TypeOK, Numbered, Owning, Sought, Switched, Switched', Latest, Fresh,
         Holding, NEW r \in Runs, Acts(r)
  PROVE  Holding'
<1>0. "fulltext" \in Channels /\ "vector" \in Channels BY DEF Channels
<1>1. ASSUME NEW channel \in Channels
      PROVE  /\ Finish(r) => Completed(channel)' = Completed(channel) \cup Gains(r, channel)
             /\ ~Finish(r) => /\ Completed(channel)' \subseteq Completed(channel)
                              /\ Completed(channel) \subseteq Completed(channel)' \cup {VersionOf[r]}
             /\ ~Finish(r) /\ ~GivesUp(r) => Completed(channel)' = Completed(channel)
  BY CompletedEffect
<1>2. /\ ~Finish(r) => Shown' = Shown
      /\ Finish(r) => Shown' = index[r].holds["fulltext"]
  BY ShownEffect
<1>3. /\ Arrives(r)
      /\ \A q \in Runs : q # r => step'[q] = step[q] /\ want'[q] = want[q]
      /\ want'[r] = want[r] \/ Start(r)
  BY ArrivesEffect
<1>4. Live' \subseteq Shown'
  <2>1. CASE Finish(r) BY <1>0, <1>1, <1>2, <2>1 DEF Finish, Holding, Publishing, Live
  <2>2. CASE ~Finish(r) BY <1>0, <1>1, <1>2, <2>2 DEF Holding, Live
  <2> QED BY <2>1, <2>2
<1>5. ASSUME NEW k \in Published(release)', "vector" \in index'[k].channels
      PROVE  Completed("vector")' \subseteq index'[k].holds["vector"]
  <2>1. CASE Finish(r)
    <3>1. k = r BY <2>1, LatestStep
    <3>2. index'[r].channels = index[r].channels /\ index'[r].holds = index[r].holds
      BY <2>1, FinishEffect
    <3> QED BY <1>0, <1>1, <1>5, <2>1, <3>1, <3>2 DEF Finish, Holding, Publishing
  <2>2. CASE ~Finish(r)
    <3>1. k \in Published(release) BY <2>2, LatestStep
    <3>2. index'[k] = index[k] BY <2>2, <3>1, PublishedKept
    <3> QED BY <1>0, <1>1, <1>5, <2>2, <3>1, <3>2 DEF Holding
  <2> QED BY <2>1, <2>2
<1>6. ASSUME NEW q \in Runs, q # r, step'[q] \in Publishing
      PROVE  /\ Live' \cup Gains(q, "fulltext")' \subseteq index'[q].holds["fulltext"]
             /\ index'[q].holds["fulltext"] \subseteq Live' \cup Gains(q, "fulltext")' \cup Shown'
             /\ "vector" \in index'[q].channels =>
                  Completed("vector")' \cup Gains(q, "vector")' \subseteq index'[q].holds["vector"]
  <2>1. step[q] \in Publishing BY <1>3, <1>6
  <2>2. index'[q] = index[q] BY <1>6, OthersKept
  <2>3. ~Finish(r)
    BY <1>6, <2>1, RunsAssumption DEF Finish, Switched, Switching, Publishing
  <2>4. Live \subseteq Shown BY DEF Holding
  <2>5. \A channel \in Channels : Gains(q, channel)' = Gains(q, channel)
    BY <1>3, <1>6 DEF Gains, Own, Processing
  <2>6. /\ Live \cup Gains(q, "fulltext") \subseteq index[q].holds["fulltext"]
        /\ index[q].holds["fulltext"] \subseteq Live \cup Gains(q, "fulltext") \cup Shown
        /\ "vector" \in index[q].channels =>
             Completed("vector") \cup Gains(q, "vector") \subseteq index[q].holds["vector"]
    BY <2>1 DEF Holding
  <2>7. Live' \subseteq Live /\ Shown' = Shown /\ Completed("vector")' \subseteq Completed("vector")
    BY <1>0, <1>1, <1>2, <2>3 DEF Live
  <2> QED BY <1>0, <2>2, <2>4, <2>5, <2>6, <2>7
<1>7. ASSUME step'[r] \in Publishing
      PROVE  /\ Live' \cup Gains(r, "fulltext")' \subseteq index'[r].holds["fulltext"]
             /\ index'[r].holds["fulltext"] \subseteq Live' \cup Gains(r, "fulltext")' \cup Shown'
             /\ "vector" \in index'[r].channels =>
                  Completed("vector")' \cup Gains(r, "vector")' \subseteq index'[r].holds["vector"]
  <2>1. ~Finish(r) /\ ~GivesUp(r)
    BY <1>7, GotoEffect, GivesUpEffect DEF Finish, Publishing
  <2>2. Live' = Live /\ Shown' = Shown /\ Completed("vector")' = Completed("vector")
    BY <1>0, <1>1, <1>2, <2>1 DEF Live
  <2>3. ~Start(r) BY <1>7, GotoEffect DEF Start, Publishing
  <2>4. \A channel \in Channels : Gains(r, channel)' = Gains(r, channel)
    BY <1>3, <2>3 DEF Gains, Own, Processing
  <2>5. CASE BuildIndex(r)
    BY <1>0, <2>2, <2>4, <2>5, BuildIndexHolds DEF Holding
  <2>6. CASE ~BuildIndex(r)
    <3>1. ~PickIndex(r) /\ ~PickPair(r) BY AsksStep DEF Switched
    <3>2. step[r] \in Publishing BY <1>3, <1>7, <2>6, <3>1 DEF Arrives, Publishing
    <3>3. index'[r] = index[r] BY <2>1, <2>6, OwnMoves
    <3> QED BY <1>0, <2>2, <2>4, <3>2, <3>3 DEF Holding
  <2> QED BY <2>5, <2>6
<1> QED BY <1>4, <1>5, <1>6, <1>7 DEF Holding

\* The inductive invariant of the refinement.
Catalogued == Switched /\ Sought /\ Latest /\ Fresh /\ Holding

LEMMA CataloguedInit == Init => Catalogued
<1> SUFFICES ASSUME Init PROVE Catalogued OBVIOUS
<1>1. Fresh /\ Sought BY ConfigurationTypes DEF Init, Fresh, Sought
<1>2. Published(release) = {} /\ Published(index) = {}
  BY DEF Init, Published, NoRelease, NoIndex
<1>3. Live = {} BY DEF Init, Live, Completed
<1>4. Holding BY <1>2, <1>3 DEF Init, Holding, Publishing
<1>5. Latest BY <1>2 DEF Latest
<1> QED BY <1>1, <1>4, <1>5, SwitchedInit DEF Catalogued

LEMMA CataloguedStep ==
  ASSUME EachSearches, OneRunPerVersion, TypeOK, Numbered, Owning, Catalogued,
         NEW r \in Runs, Acts(r)
  PROVE  Catalogued'
<1>1. DocumentsAreSearchable BY DEF EachSearches, DocumentsAreSearchable
<1>2. Switched' BY AsksStep, SwitchingStep DEF Catalogued, Switched
<1> QED BY <1>1, <1>2, SoughtStep, LatestStep, FreshStep, HoldingStep DEF Catalogued

\* Every step of a run is a step of the catalogue, or none.
LEMMA CatalogueStep ==
  ASSUME EachSearches, OneRunPerVersion, TypeOK, Numbered, Owning, Catalogued,
         NEW r \in Runs, Acts(r)
  PROVE  [Catalogue!Next]_<<Live, Shown>>
<1>1. Catalogued' BY CataloguedStep
<1>2. /\ Finish(r) => Live' = Live \cup Gains(r, "fulltext")
      /\ ~Finish(r) => \/ Live' = Live
                       \/ VersionOf[r] \in Live /\ Live' = Live \ {VersionOf[r]}
  BY CompletedEffect DEF Catalogued, Live, Channels
<1>3. /\ ~Finish(r) => Shown' = Shown
      /\ Finish(r) => Shown' = index[r].holds["fulltext"]
  BY <1>1, ShownEffect DEF Catalogued
<1>4. VersionOf[r] \in Versions BY ConfigurationTypes
<1>5. CASE Finish(r)
  <2>1. /\ Live \cup Gains(r, "fulltext") \subseteq index[r].holds["fulltext"]
        /\ index[r].holds["fulltext"] \subseteq Live \cup Gains(r, "fulltext") \cup Shown
    BY <1>5 DEF Finish, Catalogued, Holding, Publishing
  <2>2. Catalogue!Release BY <1>2, <1>3, <1>5, <2>1 DEF Catalogue!Release
  <2>3. CASE Gains(r, "fulltext") = {VersionOf[r]}
    <3>1. Catalogue!Publish(VersionOf[r])
      BY <1>2, <1>5, <2>2, <2>3 DEF Catalogue!Publish
    <3> QED BY <1>4, <3>1 DEF Catalogue!Next
  <2>4. CASE Gains(r, "fulltext") = {}
    <3>1. Catalogue!Republish BY <1>2, <1>5, <2>2, <2>4 DEF Catalogue!Republish
    <3> QED BY <3>1 DEF Catalogue!Next
  <2> QED BY <2>3, <2>4 DEF Gains, Own
<1>6. CASE ~Finish(r)
  <2>1. CASE Live' = Live BY <1>3, <1>6, <2>1
  <2>2. CASE VersionOf[r] \in Live /\ Live' = Live \ {VersionOf[r]}
    <3>1. Catalogue!Withdraw(VersionOf[r])
      BY <1>3, <1>6, <2>2 DEF Catalogue!Withdraw
    <3> QED BY <1>4, <3>1 DEF Catalogue!Next
  <2> QED BY <1>2, <1>6, <2>1, <2>2
<1> QED BY <1>5, <1>6

LEMMA AlwaysCataloguedStep ==
  ASSUME EachSearches, OneRunPerVersion
  PROVE  TypeOK /\ Numbered /\ Owning /\ Catalogued /\ [Next]_vars
           => Catalogued' /\ [Catalogue!Next]_<<Live, Shown>>
<1> SUFFICES ASSUME TypeOK, Numbered, Owning, Catalogued, [Next]_vars
             PROVE  Catalogued' /\ [Catalogue!Next]_<<Live, Shown>>
  OBVIOUS
<1>1. CASE UNCHANGED vars
  <2>1. Completed("vector")' = Completed("vector") /\ Live' = Live /\ Shown' = Shown
    BY <1>1 DEF vars, Live, Completed, Shown, Current, Published, IsLatest
  <2>2. Switched' BY <1>1, SwitchedStep DEF Catalogued
  <2>3. Sought' /\ Fresh' /\ Latest'
    BY <1>1 DEF vars, Catalogued, Sought, Fresh, Latest, Published, Processing
  <2>4. Holding'
    BY <1>1, <2>1 DEF vars, Catalogued, Holding, Gains, Own, Published, Processing
  <2> QED BY <2>1, <2>2, <2>3, <2>4 DEF Catalogued
<1>2. CASE Next
  <2>1. PICK r \in Runs : Acts(r) BY <1>2, NextKinds DEF Acts
  <2> QED BY <2>1, CataloguedStep, CatalogueStep
<1> QED BY <1>1, <1>2

THEOREM AlwaysCatalogued ==
  ASSUME EachSearches, OneRunPerVersion
  PROVE  Spec => []Catalogued
<1>1. TypeOK /\ Numbered /\ Owning /\ Catalogued /\ [Next]_vars => Catalogued'
  BY AlwaysCataloguedStep
<1> QED BY <1>1, CataloguedInit, TypeCorrect, AlwaysNumbered, AlwaysOwning, PTL DEF Spec

\* Where every run builds an index of some channel, and every version is
\* processed by one run, the full text side implements the catalogue: no
\* interleaving, failure or crash, and no run of vectors alone, drops a version
\* that completed full text from what readers see.
THEOREM FullTextImplementsCatalogue ==
  ASSUME EachSearches, OneRunPerVersion
  PROVE  Spec => ImplementsCatalogue
<1>1. Init => Catalogue!Init
  BY DEF Init, Catalogue!Init, Live, Completed, Shown, Current, Published, NoRelease
<1>2. TypeOK /\ Numbered /\ Owning /\ Catalogued /\ [Next]_vars
        => Catalogued' /\ [Catalogue!Next]_<<Live, Shown>>
  BY AlwaysCataloguedStep
<1> QED BY <1>1, <1>2, CataloguedInit, TypeCorrect, AlwaysNumbered, AlwaysOwning, PTL
    DEF Spec, ImplementsCatalogue, Catalogue!Spec, Catalogue!vars

\* In particular readers find the text of every version that completed it.
THEOREM NoTextLostToReaders ==
  ASSUME EachSearches, OneRunPerVersion
  PROVE  Spec => []Catalogue!NothingLost
<1>1. Catalogued => Catalogue!NothingLost
  BY DEF Catalogued, Holding, Catalogue!NothingLost
<1> QED BY <1>1, AlwaysCatalogued, PTL

\* Of the vectors readers find those of every version that completed them, or,
\* after a run that built full text only, none at all.
THEOREM VectorsAlwaysWhole ==
  ASSUME EachSearches, OneRunPerVersion
  PROVE  Spec => []VectorsWhole
<1>1. TypeOK /\ Catalogued => VectorsWhole
  <2> SUFFICES ASSUME TypeOK, Catalogued PROVE VectorsWhole OBVIOUS
  <2>1. Current = Published(release)
    BY OnlyIsLatest DEF Catalogued, Switched, Switching
  <2> QED BY <2>1 DEF Catalogued, Latest, Holding, VectorsWhole
<1> QED BY <1>1, AlwaysCatalogued, TypeCorrect, PTL
=============================================================================
