--------------------------- MODULE SearchCatalogue ---------------------------
(***************************************************************************)
(* What the publication of a space promises to readers of its full text:   *)
(* the versions that completed full text are live, and the versions shown  *)
(* by the current knowledge release always include the live ones.          *)
(***************************************************************************)
CONSTANT Versions

VARIABLES
  live,   \* versions that have completed the target
  shown   \* versions whose text the current knowledge release holds

vars == <<live, shown>>

Init == live = {} /\ shown = {}

\* The next release may still show a version that was withdrawn meanwhile.
Release == live' \subseteq shown' /\ shown' \subseteq live' \cup shown

\* A version completes and is shown in one step.
Publish(v) == live' = live \cup {v} /\ Release

\* The same versions are released again, after a curation or a run of another
\* channel.
Republish == live' = live /\ Release

\* The run of a version fails after its release: readers are not affected.
Withdraw(v) == v \in live /\ live' = live \ {v} /\ UNCHANGED shown

Next == Republish \/ \E v \in Versions : Publish(v) \/ Withdraw(v)

Spec == Init /\ [][Next]_vars

\* Readers find every live version.
NothingLost == live \subseteq shown
=============================================================================
