------------------------- MODULE MCKnowledgePublish -------------------------
(***************************************************************************)
(* Instances of KnowledgePublish for TLC, each with some of the runs:      *)
(* "b1" processes version "b", all others version "a".  The versions share *)
(* an entity.                                                              *)
(***************************************************************************)
EXTENDS KnowledgePublish

CONSTANT none

AB == {"a", "b"}
Found == {"x", "y"}
SharedEntity == [v \in AB |-> IF v = "a" THEN {"x"} ELSE {"x", "y"}]

KindOf == [r \in Runs |-> IF r = "curate" THEN "curation"
                          ELSE IF r = "pair" THEN "pair" ELSE "process"]
VersionOfRun == [r \in Runs |-> IF r = "b1" THEN "b" ELSE "a"]
\* "b1" builds a graph and vectors only, "a1" or "a2" both channels too.  Beside
\* "a2" and "a3", which share a channel, "a1" is forced: it builds a writing graph
\* and whatever is completed when it starts.
TargetsOf ==
  [r \in Runs |-> IF r = "a3" THEN {"vector"}
                  ELSE IF r = "b1" THEN {"vector", "graph"}
                  ELSE IF r = "a1" /\ "a2" \in Runs THEN {"writing_graph"}
                  ELSE Channels \cup {"graph"}]
ForcedRuns == IF "a2" \in Runs THEN {"a1"} ELSE {}

Documents == {"a1", "b1"}
DocumentsAndCuration == {"a1", "b1", "curate"}
Mixed == {"a1", "a2", "a3", "pair"}
First == {"a1"}
Nobody == {}

\* What a run remembers is nobody's any more once it is over.
Remembered ==
  <<step, rows, graph, index, release, locks,
    [r \in Runs |-> IF step[r] \in Final THEN none
                    ELSE <<want[r], saved[r], pending[r], held[r], current[r]>>]>>
=============================================================================
