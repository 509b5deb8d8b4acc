--------------------------- MODULE ToolCallsProofs ---------------------------
(***************************************************************************)
(* Theorems about ToolCalls, for every number of calls and every size of   *)
(* the pool.                                                               *)
(*                                                                         *)
(* The safety properties follow from one invariant.  While a batch runs,   *)
(* the log holds the results of the calls 1 .. Len(results); the calls     *)
(* before the group are among them, those from `start` on have not begun,  *)
(* and of those in between every one that is still at work or broken is in *)
(* the pool.  The step that is hard is the end of a group: a started call  *)
(* that has landed is in the pool or not the first without a result,       *)
(* so an empty pool means that all results are in the log.                 *)
(***************************************************************************)
EXTENDS ToolCalls, FiniteSetTheorems, SequenceTheorems, TLAPS

Filling == {"fill", "prepare", "race"}
Running == Filling \cup {"commit", "drain"}

TypeInv ==
  /\ aborted \in BOOLEAN
  /\ ToolTypeOK
  /\ concluded \in BOOLEAN

\* Where the group lies in the batch.
GroupInv ==
  /\ start <= total + 1
  /\ at \in Running =>
       /\ first <= start /\ start <= last + 1 /\ first <= last /\ last <= total
       /\ mode = "exclusive" => last = first
  /\ at = "prepare" => start <= last

\* The log holds the results of a prefix of the batch, those of the done calls.
LogInv ==
  /\ \A i \in DOMAIN results : results[i] = i
  /\ at \in Running \cup {"group"} =>
       \A c \in Calls : slot[c] = "done" <=> c <= Len(results)
  /\ at = "returned" => Len(results) = total
  /\ \A c \in Calls : slot[c] = "broken" => c > Len(results)

\* What the calls before, in and behind the started part are doing.
SlotInv ==
  /\ at \in Running => \A c \in Calls : c < first => slot[c] = "done"
  /\ at = "group" => \A c \in Calls : c < start => slot[c] = "done"
  /\ at \in Running \cup {"group"} =>
       \A c \in Calls : c > start => slot[c] = "unstarted"
  /\ at \in {"group", "fill", "commit", "race"} =>
       \A c \in Calls : c = start => slot[c] = "unstarted"
  /\ at = "prepare" => slot[start] = "preparing"
  /\ at = "drain" => \A c \in Calls : c = start => slot[c] \in {"unstarted", "broken"}
  /\ at \in Running =>
       \A c \in Calls : c < start => slot[c] \in {"flying", "landed", "broken", "done"}

\* The pool holds what is at work; a failure is seen before the pool is left.
PoolInv ==
  /\ \A c \in inFlight : c < start
  /\ \A c \in Calls : slot[c] = "flying" => at \in Running /\ c \in inFlight
  /\ at = "group" => inFlight = {}
  /\ Cardinality(inFlight) <= MaxParallel
  /\ at = "prepare" => Cardinality(inFlight) < MaxParallel
  /\ at \in Running => \A c \in inFlight : c >= first
  /\ at \in Filling \cup {"commit"} =>
       \A c \in Calls : slot[c] = "broken" => c \in inFlight /\ failure
  /\ at \in Filling =>
       \A c \in Calls : c = Len(results) + 1 /\ slot[c] = "landed" => c \in inFlight
  /\ at = "group" => \A c \in Calls : slot[c] # "broken"

SignalInv == at = "fill" /\ aborted => stop

Inv == TypeInv /\ GroupInv /\ LogInv /\ SlotInv /\ PoolInv /\ SignalInv

-----------------------------------------------------------------------------
(* Lemmas about the log and the pool.                                       *)

\* The calls in front of the group have their results, and no call behind `start`.
LEMMA LogReachesGroup ==
  ASSUME Inv, at \in Running
  PROVE  /\ Len(results) \in Nat
         /\ first <= Len(results) + 1
         /\ Len(results) < start
<1> USE ToolConstants DEF Inv, TypeInv, ToolTypeOK, GroupInv, Calls
<1>1. Len(results) \in Nat
  OBVIOUS
<1>2. first <= Len(results) + 1
  <2>1. CASE first = 1
    BY <1>1, <2>1
  <2>2. CASE first # 1
    <3>1. first - 1 \in Calls /\ first - 1 < first
      BY <2>2 DEF Running
    <3>2. slot[first - 1] = "done"
      BY <3>1 DEF SlotInv
    <3> QED
      BY <1>1, <3>1, <3>2 DEF LogInv
  <2> QED
    BY <2>1, <2>2
<1>3. Len(results) < start
  <2>1. CASE start \notin Calls
    <3>1. start = MaxCalls + 1
      BY <2>1
    <3>2. Len(results) <= MaxCalls
      <4> SUFFICES ASSUME Len(results) > MaxCalls PROVE FALSE
        BY <1>1
      <4>1. MaxCalls + 1 \in DOMAIN results
        BY <1>1
      <4>2. results[MaxCalls + 1] = MaxCalls + 1
        BY <4>1 DEF LogInv
      <4>3. results[MaxCalls + 1] \in Calls
        BY <4>1
      <4> QED
        BY <4>2, <4>3
    <3> QED
      BY <1>1, <3>1, <3>2
  <2>2. CASE start \in Calls
    <3>1. slot[start] # "done"
      BY <2>2 DEF SlotInv, Running, Filling
    <3> QED
      BY <1>1, <2>2, <3>1 DEF LogInv
  <2> QED
    BY <2>1, <2>2
<1> QED
  BY <1>1, <1>2, <1>3

\* The front of the group is the first call without a result.
LEMMA FrontIsNext ==
  ASSUME Inv, at \in Running, Uncommitted # {}
  PROVE  /\ Front = Len(results) + 1
         /\ Front \in Uncommitted
         /\ Front \in Calls
<1> DEFINE n == Len(results) + 1
<1>1. n \in Nat /\ first <= n
  BY LogReachesGroup
<1>2. Uncommitted = {c \in first .. last : n <= c}
  BY <1>1, ToolConstants DEF Uncommitted, Inv, TypeInv, ToolTypeOK, GroupInv, LogInv, Calls
<1>3. first \in Nat /\ last \in Nat /\ last <= MaxCalls /\ first >= 1
  BY ToolConstants DEF Inv, TypeInv, ToolTypeOK, GroupInv
<1>4. n \in Uncommitted /\ \A d \in Uncommitted : n <= d
  BY <1>1, <1>2, <1>3
<1>5. Front \in Uncommitted /\ \A d \in Uncommitted : Front <= d
  BY <1>4 DEF Front
<1>6. Front = n
  BY <1>1, <1>2, <1>3, <1>4, <1>5
<1>7. n \in Calls
  BY <1>1, <1>2, <1>3, <1>4, ToolConstants DEF Calls
<1> QED
  BY <1>4, <1>6, <1>7

\* The pool is a finite set, and taking from it leaves it within its limit.
LEMMA PoolFinite ==
  ASSUME Inv
  PROVE  IsFiniteSet(inFlight) /\ Cardinality(inFlight) \in Nat
<1>1. IsFiniteSet(Calls)
  BY FS_Interval, ToolConstants DEF Calls
<1>2. inFlight \subseteq Calls
  BY DEF Inv, TypeInv, ToolTypeOK
<1> QED
  BY <1>1, <1>2, FS_Subset, FS_CardinalityType

\* An empty pool at the end of a race: every started call has its result.
LEMMA EmptyPoolIsCommitted ==
  ASSUME Inv, at = "race", inFlight = {}
  PROVE  Len(results) = start - 1
<1>1. Len(results) \in Nat /\ first <= Len(results) + 1 /\ Len(results) < start
  BY LogReachesGroup DEF Running, Filling
<1>2. start \in Nat /\ start <= MaxCalls + 1 /\ first \in Nat /\ MaxCalls \in Nat
  BY ToolConstants DEF Inv, TypeInv, ToolTypeOK
<1> SUFFICES ASSUME Len(results) + 1 < start PROVE FALSE
  BY <1>1, <1>2
<1> DEFINE n == Len(results) + 1
<1>3. n \in Calls /\ n < start
  BY <1>1, <1>2 DEF Calls
<1>4. slot[n] \in {"flying", "landed", "broken", "done"}
  BY <1>3 DEF Inv, SlotInv, Running, Filling
<1>5. slot[n] # "done"
  BY <1>1, <1>3 DEF Inv, LogInv, Running, Filling
<1> QED
  BY <1>3, <1>4, <1>5 DEF Inv, PoolInv, Filling

-----------------------------------------------------------------------------
(* One lemma per step of the scheduler: it keeps the invariant.             *)

\* A group opens on calls that have not begun, and samples the signal.
LEMMA OpenGroupKeeps ==
  ASSUME Inv, NEW m \in Modes, OpenGroup(m), aborted' = aborted
  PROVE  Inv'
<1> USE ToolConstants DEF Inv, TypeInv, ToolTypeOK, Calls, Running, Filling
<1>1. TypeInv'
  BY DEF Modes, Places, SlotStates, OpenGroup
<1>2. GroupInv'
  BY DEF GroupInv, OpenGroup
<1>3. LogInv'
  BY DEF GroupInv, LogInv, SlotInv, OpenGroup
<1>4. SlotInv'
  BY DEF GroupInv, SlotInv, PoolInv, OpenGroup
<1>5. PoolInv'
  BY DEF GroupInv, LogInv, SlotInv, PoolInv, OpenGroup
<1>6. SignalInv'
  BY DEF SignalInv, OpenGroup
<1> QED
  BY <1>1, <1>2, <1>3, <1>4, <1>5, <1>6

\* The batch ends when its last group has closed.
LEMMA ReturnKeeps ==
  ASSUME Inv, Return, aborted' = aborted
  PROVE  Inv'
<1> USE ToolConstants DEF Inv, TypeInv, ToolTypeOK, Calls, Running, Filling
<1>1. TypeInv'
  BY DEF Modes, Places, SlotStates, Return
<1>2. GroupInv'
  BY DEF GroupInv, Return
<1>3. LogInv'
  BY DEF GroupInv, LogInv, SlotInv, Return
<1>4. SlotInv'
  BY DEF GroupInv, SlotInv, PoolInv, Return
<1>5. PoolInv'
  BY DEF GroupInv, LogInv, SlotInv, PoolInv, Return
<1>6. SignalInv'
  BY DEF SignalInv, Return
<1> QED
  BY <1>1, <1>2, <1>3, <1>4, <1>5, <1>6

\* A call is started in a pool that has room.
LEMMA StartCallKeeps ==
  ASSUME Inv, StartCall, aborted' = aborted
  PROVE  Inv'
<1> USE ToolConstants DEF Inv, TypeInv, ToolTypeOK, Calls, Running, Filling
<1>1. TypeInv'
  BY DEF Modes, Places, SlotStates, StartCall, MayStart
<1>2. GroupInv'
  BY DEF GroupInv, StartCall, MayStart
<1>3. LogInv'
  BY DEF GroupInv, LogInv, SlotInv, StartCall, MayStart
<1>4. SlotInv'
  BY DEF GroupInv, SlotInv, PoolInv, StartCall, MayStart
<1>5. PoolInv'
  BY DEF GroupInv, LogInv, SlotInv, PoolInv, StartCall, MayStart
<1>6. SignalInv'
  BY DEF SignalInv, StartCall, MayStart
<1> QED
  BY <1>1, <1>2, <1>3, <1>4, <1>5, <1>6

\* The scheduler turns from filling to waiting.
LEMMA StopFillingKeeps ==
  ASSUME Inv, StopFilling, aborted' = aborted
  PROVE  Inv'
<1> USE ToolConstants DEF Inv, TypeInv, ToolTypeOK, Calls, Running, Filling
<1>1. TypeInv'
  BY DEF Modes, Places, SlotStates, StopFilling
<1>2. GroupInv'
  BY DEF GroupInv, StopFilling
<1>3. LogInv'
  BY DEF GroupInv, LogInv, SlotInv, StopFilling
<1>4. SlotInv'
  BY DEF GroupInv, SlotInv, PoolInv, StopFilling
<1>5. PoolInv'
  BY DEF GroupInv, LogInv, SlotInv, PoolInv, StopFilling
<1>6. SignalInv'
  BY DEF SignalInv, StopFilling
<1> QED
  BY <1>1, <1>2, <1>3, <1>4, <1>5, <1>6

\* The started call joins the pool or lands at once.
LEMMA PreparedKeeps ==
  ASSUME Inv, NEW body \in BOOLEAN, Prepared(body), aborted' = aborted
  PROVE  Inv'
<1> USE ToolConstants DEF Inv, TypeInv, ToolTypeOK, Calls, Running, Filling
<1>1. TypeInv'
  BY DEF Modes, Places, SlotStates, GroupInv, Prepared
<1>2. GroupInv'
  BY DEF GroupInv, Prepared
<1>3. LogInv'
  BY DEF GroupInv, LogInv, SlotInv, Prepared
<1>4. SlotInv'
  BY DEF GroupInv, SlotInv, PoolInv, Prepared
<1>5. PoolInv'
  <2>1. start \notin inFlight /\ IsFiniteSet(inFlight) /\ Cardinality(inFlight) \in Nat
    BY PoolFinite DEF PoolInv
  <2>2. Cardinality(inFlight \cup {start}) = Cardinality(inFlight) + 1
    BY <2>1, FS_AddElement
  <2>3. Cardinality(inFlight') <= MaxParallel
    BY <2>1, <2>2 DEF PoolInv, Prepared
  <2>4. /\ \A d \in inFlight' : d < start' /\ d >= first'
        /\ \A d \in Calls : slot'[d] = "flying" => d \in inFlight'
        /\ \A d \in Calls : slot'[d] = "broken" => d \in inFlight' /\ failure'
    BY DEF GroupInv, SlotInv, PoolInv, Prepared
  <2> QED
    BY <2>3, <2>4 DEF PoolInv, Prepared
<1>6. SignalInv'
  BY DEF SignalInv, Prepared
<1> QED
  BY <1>1, <1>2, <1>3, <1>4, <1>5, <1>6

\* The call that failed to be prepared is broken and has no result.
LEMMA PrepareFailsKeeps ==
  ASSUME Inv, PrepareFails, aborted' = aborted
  PROVE  Inv'
<1> USE ToolConstants DEF Inv, TypeInv, ToolTypeOK, Calls, Running, Filling
<1>1. TypeInv'
  BY DEF Modes, Places, SlotStates, PrepareFails
<1>2. GroupInv'
  BY DEF GroupInv, PrepareFails
<1>3. LogInv'
  BY DEF GroupInv, LogInv, SlotInv, PrepareFails
<1>4. SlotInv'
  BY DEF GroupInv, SlotInv, PoolInv, PrepareFails
<1>5. PoolInv'
  BY DEF GroupInv, LogInv, SlotInv, PoolInv, PrepareFails
<1>6. SignalInv'
  BY DEF SignalInv, PrepareFails
<1> QED
  BY <1>1, <1>2, <1>3, <1>4, <1>5, <1>6

\* The front call gets the next result of the log.
LEMMA CommitKeeps ==
  ASSUME Inv, NEW concludes \in BOOLEAN, Commit(concludes), aborted' = aborted
  PROVE  Inv'
<1> USE ToolConstants DEF Inv, TypeInv, ToolTypeOK, Calls, Running, Filling
<1>1. TypeInv'
  <2>1. Front \in Calls /\ Front = Len(results) + 1 /\ slot[Front] = "landed"
    BY FrontIsNext DEF Commit, Ready
  <2> QED
    BY <2>1 DEF Modes, Places, SlotStates, Commit
<1>2. GroupInv'
  BY DEF GroupInv, Commit
<1>3. LogInv'
  <2>1. Front \in Calls /\ Front = Len(results) + 1 /\ slot[Front] = "landed"
    BY FrontIsNext DEF Commit, Ready
  <2>2. Len(results) \in Nat /\ Len(results') = Len(results) + 1
    BY <2>1 DEF Commit
  <2>3. \A i \in DOMAIN results' : results'[i] = i
    BY <2>1, <2>2 DEF LogInv, Commit
  <2>4. \A d \in Calls : slot'[d] = IF d = Front THEN "done" ELSE slot[d]
    BY DEF Commit
  <2>5. \A d \in Calls : slot'[d] = "done" <=> d <= Len(results')
    BY <2>1, <2>2, <2>4 DEF LogInv, Commit
  <2>6. \A d \in Calls : slot'[d] = "broken" => d > Len(results')
    BY <2>1, <2>2, <2>4 DEF LogInv, Commit
  <2> QED
    BY <2>3, <2>5, <2>6 DEF LogInv, Commit
<1>4. SlotInv'
  <2>1. Front \in Calls /\ Front = Len(results) + 1 /\ slot[Front] = "landed"
    BY FrontIsNext DEF Commit, Ready
  <2>2. Front < start
    BY <2>1 DEF SlotInv, Commit
  <2>3. \A d \in Calls : slot'[d] = IF d = Front THEN "done" ELSE slot[d]
    BY DEF Commit
  <2> QED
    BY <2>2, <2>3 DEF SlotInv, Commit
<1>5. PoolInv'
  BY DEF GroupInv, LogInv, SlotInv, PoolInv, Commit
<1>6. SignalInv'
  BY DEF SignalInv, Commit
<1> QED
  BY <1>1, <1>2, <1>3, <1>4, <1>5, <1>6

\* A failing commit leaves the front call without a result.
LEMMA FinalizeFailsKeeps ==
  ASSUME Inv, FinalizeFails, aborted' = aborted
  PROVE  Inv'
<1> USE ToolConstants DEF Inv, TypeInv, ToolTypeOK, Calls, Running, Filling
<1>1. TypeInv'
  BY DEF Modes, Places, SlotStates, FinalizeFails
<1>2. GroupInv'
  BY DEF GroupInv, FinalizeFails
<1>3. LogInv'
  BY DEF GroupInv, LogInv, SlotInv, FinalizeFails
<1>4. SlotInv'
  BY DEF GroupInv, SlotInv, PoolInv, FinalizeFails
<1>5. PoolInv'
  BY DEF GroupInv, LogInv, SlotInv, PoolInv, FinalizeFails
<1>6. SignalInv'
  BY DEF SignalInv, FinalizeFails
<1> QED
  BY <1>1, <1>2, <1>3, <1>4, <1>5, <1>6

\* Filling goes on only when the front call has not landed.
LEMMA CommittedKeeps ==
  ASSUME Inv, Committed, aborted' = aborted
  PROVE  Inv'
<1> USE ToolConstants DEF Inv, TypeInv, ToolTypeOK, Calls, Running, Filling
<1>1. TypeInv'
  BY DEF Modes, Places, SlotStates, Committed
<1>2. GroupInv'
  BY DEF GroupInv, Committed
<1>3. LogInv'
  BY DEF GroupInv, LogInv, SlotInv, Committed
<1>4. SlotInv'
  BY DEF GroupInv, SlotInv, PoolInv, Committed
<1>5. PoolInv'
  <2>1. ASSUME NEW d \in Calls, d = Len(results) + 1, slot[d] = "landed"
        PROVE  FALSE
    <3>1. first <= d /\ d < start
      BY <2>1, LogReachesGroup DEF SlotInv, Committed
    <3>2. d \in Uncommitted
      BY <2>1, <3>1 DEF GroupInv, Uncommitted, Committed
    <3>3. Front = d
      BY <2>1, <3>2, FrontIsNext DEF Committed
    <3> QED
      BY <2>1, <3>2, <3>3 DEF Committed, Ready
  <2> QED
    BY <2>1 DEF PoolInv, Committed
<1>6. SignalInv'
  BY DEF SignalInv, Committed
<1> QED
  BY <1>1, <1>2, <1>3, <1>4, <1>5, <1>6

\* A settled body leaves the pool, and its result is committed next.
LEMMA ObserveKeeps ==
  ASSUME Inv, NEW c \in Calls, Observe(c), aborted' = aborted
  PROVE  Inv'
<1> USE ToolConstants DEF Inv, TypeInv, ToolTypeOK, Calls, Running, Filling
<1>1. TypeInv'
  BY DEF Modes, Places, SlotStates, Observe
<1>2. GroupInv'
  BY DEF GroupInv, Observe
<1>3. LogInv'
  BY DEF GroupInv, LogInv, SlotInv, Observe
<1>4. SlotInv'
  BY DEF GroupInv, SlotInv, PoolInv, Observe
<1>5. PoolInv'
  <2>1. IsFiniteSet(inFlight) /\ Cardinality(inFlight) \in Nat
    BY PoolFinite
  <2>2. Cardinality(inFlight \ {c}) = Cardinality(inFlight) - 1
    BY <2>1, FS_RemoveElement DEF Observe
  <2>3. Cardinality(inFlight') <= MaxParallel
    BY <2>1, <2>2 DEF PoolInv, Observe
  <2>4. /\ \A d \in Calls : slot[d] = "flying" => d \in inFlight'
        /\ ~failure => \A d \in Calls : slot[d] # "broken"
    BY DEF PoolInv, Observe, Settled
  <2> QED
    BY <2>3, <2>4 DEF PoolInv, Observe
<1>6. SignalInv'
  BY DEF SignalInv, Observe
<1> QED
  BY <1>1, <1>2, <1>3, <1>4, <1>5, <1>6

\* A group closes when the pool is empty, with all its results in the log.
LEMMA CloseGroupKeeps ==
  ASSUME Inv, CloseGroup, aborted' = aborted
  PROVE  Inv'
<1> USE ToolConstants DEF Inv, TypeInv, ToolTypeOK, Calls, Running, Filling
<1>1. TypeInv'
  BY DEF Modes, Places, SlotStates, CloseGroup
<1>2. GroupInv'
  BY DEF GroupInv, CloseGroup
<1>3. LogInv'
  BY DEF GroupInv, LogInv, SlotInv, CloseGroup
<1>4. SlotInv'
  <2>1. Len(results) = start - 1
    BY EmptyPoolIsCommitted DEF CloseGroup
  <2>2. \A d \in Calls : d < start => slot[d] = "done"
    BY <2>1 DEF LogInv, CloseGroup
  <2> QED
    BY <2>2 DEF SlotInv, CloseGroup
<1>5. PoolInv'
  BY DEF GroupInv, LogInv, SlotInv, PoolInv, CloseGroup
<1>6. SignalInv'
  BY DEF SignalInv, CloseGroup
<1> QED
  BY <1>1, <1>2, <1>3, <1>4, <1>5, <1>6

\* After an abort the log is completed with the calls that were not started.
LEMMA SkipRestKeeps ==
  ASSUME Inv, SkipRest, aborted' = aborted
  PROVE  Inv'
<1> USE ToolConstants DEF Inv, TypeInv, ToolTypeOK, Calls, Running, Filling
<1>1. TypeInv'
  BY DEF Modes, Places, SlotStates, SkipRest
<1>2. GroupInv'
  BY DEF GroupInv, SkipRest
<1>3. LogInv'
  <2> DEFINE rest == [i \in 1 .. (total - start + 1) |-> start + i - 1]
  <2>1. Len(results) = start - 1
    BY EmptyPoolIsCommitted DEF SkipRest
  <2>2. start \in Nat /\ total \in Nat /\ start <= total + 1
    BY DEF GroupInv
  <2>3. rest \in Seq(Nat) /\ Len(rest) = total - start + 1
    BY <2>2
  <2>4. results \in Seq(Nat)
    BY <2>1, <2>2
  <2> HIDE DEF rest
  <2>5. results' = results \o rest
    BY DEF SkipRest, rest
  <2>6. Len(results') = total
    <3>1. Len(results') = Len(results) + Len(rest)
      BY <2>3, <2>4, <2>5, ConcatProperties
    <3> QED
      BY <2>1, <2>2, <2>3, <3>1
  <2>7. ASSUME NEW i \in DOMAIN results' PROVE results'[i] = i
    <3>1. i \in 1 .. total
      BY <2>1, <2>2, <2>3, <2>4, <2>5, ConcatProperties
    <3>2. CASE i <= Len(results)
      <4>1. i \in 1 .. Len(results) /\ results'[i] = results[i]
        BY <2>1, <2>2, <2>3, <2>4, <2>5, <3>1, <3>2, ConcatProperties
      <4> QED
        BY <4>1 DEF LogInv
    <3>3. CASE i > Len(results)
      <4>1. i - Len(results) \in 1 .. Len(rest) /\ results'[i] = rest[i - Len(results)]
        <5> DEFINE j == i - Len(results)
        <5>1. j \in 1 .. Len(rest) /\ i = j + Len(results)
          BY <2>1, <2>2, <2>3, <3>1, <3>3
        <5> QED
          BY <2>3, <2>4, <2>5, <5>1, ConcatProperties
      <4> QED
        BY <2>1, <2>2, <2>3, <3>1, <4>1 DEF rest
    <3> QED
      BY <2>1, <2>2, <3>1, <3>2, <3>3
  <2>8. \A d \in Calls : slot'[d] # "broken"
    BY DEF SlotInv, PoolInv, SkipRest
  <2> QED
    BY <2>6, <2>7, <2>8 DEF LogInv, SkipRest
<1>4. SlotInv'
  BY DEF GroupInv, SlotInv, PoolInv, SkipRest
<1>5. PoolInv'
  BY DEF GroupInv, LogInv, SlotInv, PoolInv, SkipRest
<1>6. SignalInv'
  BY DEF SignalInv, SkipRest
<1> QED
  BY <1>1, <1>2, <1>3, <1>4, <1>5, <1>6

\* A failure is thrown when everything in the pool has settled.
LEMMA DrainedKeeps ==
  ASSUME Inv, Drained, aborted' = aborted
  PROVE  Inv'
<1> USE ToolConstants DEF Inv, TypeInv, ToolTypeOK, Calls, Running, Filling
<1>1. TypeInv'
  BY DEF Modes, Places, SlotStates, Drained
<1>2. GroupInv'
  BY DEF GroupInv, Drained
<1>3. LogInv'
  BY DEF GroupInv, LogInv, SlotInv, Drained
<1>4. SlotInv'
  BY DEF GroupInv, SlotInv, PoolInv, Drained
<1>5. PoolInv'
  BY DEF GroupInv, LogInv, SlotInv, PoolInv, Drained, Settled
<1>6. SignalInv'
  BY DEF SignalInv, Drained
<1> QED
  BY <1>1, <1>2, <1>3, <1>4, <1>5, <1>6

\* A body lands while it is in the pool.
LEMMA LandKeeps ==
  ASSUME Inv, NEW c \in Calls, Land(c), aborted' = aborted
  PROVE  Inv'
<1> USE ToolConstants DEF Inv, TypeInv, ToolTypeOK, Calls, Running, Filling
<1>1. TypeInv'
  BY DEF Modes, Places, SlotStates, Land
<1>2. GroupInv'
  BY DEF GroupInv, Land
<1>3. LogInv'
  BY DEF GroupInv, LogInv, SlotInv, Land
<1>4. SlotInv'
  BY DEF GroupInv, SlotInv, PoolInv, Land
<1>5. PoolInv'
  BY DEF GroupInv, LogInv, SlotInv, PoolInv, Land
<1>6. SignalInv'
  BY DEF SignalInv, Land
<1> QED
  BY <1>1, <1>2, <1>3, <1>4, <1>5, <1>6

\* A body breaks while it is in the pool.
LEMMA BreakKeeps ==
  ASSUME Inv, NEW c \in Calls, Break(c), aborted' = aborted
  PROVE  Inv'
<1> USE ToolConstants DEF Inv, TypeInv, ToolTypeOK, Calls, Running, Filling
<1>1. TypeInv'
  BY DEF Modes, Places, SlotStates, Break
<1>2. GroupInv'
  BY DEF GroupInv, Break
<1>3. LogInv'
  BY DEF GroupInv, LogInv, SlotInv, PoolInv, Break
<1>4. SlotInv'
  BY DEF GroupInv, SlotInv, PoolInv, Break
<1>5. PoolInv'
  BY DEF GroupInv, LogInv, SlotInv, PoolInv, Break
<1>6. SignalInv'
  BY DEF SignalInv, Break
<1> QED
  BY <1>1, <1>2, <1>3, <1>4, <1>5, <1>6

\* A new batch starts from nothing.
LEMMA PlanKeeps ==
  ASSUME Inv, NEW n \in 1 .. MaxCalls, Plan(n), aborted' = aborted
  PROVE  Inv'
<1> USE ToolConstants DEF Inv, TypeInv, ToolTypeOK, Calls, Running, Filling
<1>1. TypeInv'
  <2>1. <<>> \in Seq(Calls) /\ {} \subseteq Calls /\ n \in 0 .. MaxCalls
    OBVIOUS
  <2>2. [c \in Calls |-> "unstarted"] \in [Calls -> SlotStates]
    BY DEF SlotStates
  <2>3. slot' \in [Calls -> SlotStates] /\ results' \in Seq(Calls) /\ inFlight' \subseteq Calls
    BY <2>1, <2>2, Zenon DEF Plan
  <2>4. /\ total' \in 0 .. MaxCalls /\ first' \in 1 .. (MaxCalls + 1)
        /\ last' \in 0 .. MaxCalls /\ start' \in 1 .. (MaxCalls + 1)
    BY DEF Plan
  <2>5. /\ at' \in Places /\ mode' \in Modes /\ stop' \in BOOLEAN
        /\ failure' \in BOOLEAN /\ concluded' \in BOOLEAN
    BY DEF Plan, Places, Modes
  <2> QED
    BY <2>3, <2>4, <2>5
<1>2. GroupInv' /\ SlotInv' /\ SignalInv'
  BY DEF GroupInv, SlotInv, SignalInv, Plan
<1>3. LogInv'
  BY DEF LogInv, Plan
<1>4. PoolInv'
  BY FS_EmptySet DEF PoolInv, Plan
<1> QED
  BY <1>1, <1>2, <1>3, <1>4

\* The signal may abort wherever the scheduler waits.
LEMMA AbortKeeps ==
  ASSUME Inv, AbortSignal
  PROVE  Inv'
<1> USE DEF Inv, AbortSignal, toolVars
<1>1. TypeInv' /\ SignalInv'
  BY DEF TypeInv, ToolTypeOK, SignalInv, Synchronous
<1>2. GroupInv' /\ LogInv' /\ SlotInv' /\ PoolInv'
  BY DEF GroupInv, LogInv, SlotInv, PoolInv, Running, Filling
<1> QED
  BY <1>1, <1>2

\* The signal is the caller's: nothing but filling the pool depends on it.
LEMMA SignalKeeps ==
  ASSUME Inv, UNCHANGED toolVars, aborted' \in BOOLEAN, at # "fill"
  PROVE  Inv'
<1> USE DEF Inv, toolVars
<1>1. TypeInv' /\ SignalInv'
  BY DEF TypeInv, ToolTypeOK, SignalInv
<1>2. GroupInv' /\ LogInv' /\ SlotInv' /\ PoolInv'
  BY DEF GroupInv, LogInv, SlotInv, PoolInv, Running, Filling
<1> QED
  BY <1>1, <1>2

\* A caller with no calls planned, as at first and once it took an outcome.
LEMMA NoCallsInv ==
  ASSUME NoCalls, aborted \in BOOLEAN
  PROVE  Inv
<1> USE ToolConstants DEF NoCalls, Calls, Running, Filling
<1>1. TypeInv
  <2>1. <<>> \in Seq(Calls) /\ {} \subseteq Calls
    OBVIOUS
  <2>2. [c \in Calls |-> "unstarted"] \in [Calls -> SlotStates]
    BY DEF SlotStates
  <2>3. slot \in [Calls -> SlotStates] /\ results \in Seq(Calls) /\ inFlight \subseteq Calls
    BY <2>1, <2>2, Zenon
  <2>4. /\ total \in 0 .. MaxCalls /\ first \in 1 .. (MaxCalls + 1)
        /\ last \in 0 .. MaxCalls /\ start \in 1 .. (MaxCalls + 1)
    OBVIOUS
  <2>5. /\ at \in Places /\ mode \in Modes /\ stop \in BOOLEAN
        /\ failure \in BOOLEAN /\ concluded \in BOOLEAN
    BY DEF Places, Modes
  <2> QED
    BY <2>3, <2>4, <2>5 DEF TypeInv, ToolTypeOK
<1>2. GroupInv /\ SlotInv /\ SignalInv
  BY DEF GroupInv, SlotInv, SignalInv
<1>3. LogInv
  BY DEF LogInv
<1>4. PoolInv
  BY FS_EmptySet DEF PoolInv
<1> QED
  BY <1>1, <1>2, <1>3, <1>4 DEF Inv

LEMMA ForgetKeeps ==
  ASSUME Forget, aborted' \in BOOLEAN
  PROVE  Inv'
<1> USE ToolConstants DEF Forget, Calls, Running, Filling
<1>1. TypeInv'
  <2>1. <<>> \in Seq(Calls) /\ {} \subseteq Calls
    OBVIOUS
  <2>2. [c \in Calls |-> "unstarted"] \in [Calls -> SlotStates]
    BY DEF SlotStates
  <2>3. slot' \in [Calls -> SlotStates] /\ results' \in Seq(Calls) /\ inFlight' \subseteq Calls
    BY <2>1, <2>2, Zenon
  <2>4. /\ total' \in 0 .. MaxCalls /\ first' \in 1 .. (MaxCalls + 1)
        /\ last' \in 0 .. MaxCalls /\ start' \in 1 .. (MaxCalls + 1)
    OBVIOUS
  <2>5. /\ at' \in Places /\ mode' \in Modes /\ stop' \in BOOLEAN
        /\ failure' \in BOOLEAN /\ concluded' \in BOOLEAN
    BY DEF Places, Modes
  <2> QED
    BY <2>3, <2>4, <2>5 DEF TypeInv, ToolTypeOK
<1>2. GroupInv' /\ SlotInv' /\ SignalInv'
  BY DEF GroupInv, SlotInv, SignalInv
<1>3. LogInv'
  BY DEF LogInv
<1>4. PoolInv'
  BY FS_EmptySet DEF PoolInv
<1> QED
  BY <1>1, <1>2, <1>3, <1>4 DEF Inv

-----------------------------------------------------------------------------
(* The theorems.                                                            *)

\* Before any batch nothing has begun.
LEMMA InitInv == Init => Inv
BY NoCallsInv DEF Init

\* Every step of the scheduler, the bodies and the signal keeps the invariant.
LEMMA NextKeeps == Inv /\ [Next]_<<aborted, toolVars>> => Inv'
<1> SUFFICES ASSUME Inv, [Next]_<<aborted, toolVars>> PROVE Inv'
  OBVIOUS
<1>1. CASE AbortSignal
  BY <1>1, AbortKeeps
<1>2. CASE Scheduler
  <2>1. CASE \E n \in 1 .. MaxCalls : Plan(n)
    BY <1>2, <2>1, PlanKeeps DEF Scheduler
  <2>2. CASE \E c \in BOOLEAN : Commit(c)
    BY <1>2, <2>2, CommitKeeps DEF Scheduler
  <2>3. CASE SchedulerStep
    BY <1>2, <2>3, OpenGroupKeeps, ReturnKeeps, StartCallKeeps, StopFillingKeeps,
       PreparedKeeps, PrepareFailsKeeps, FinalizeFailsKeeps, CommittedKeeps,
       ObserveKeeps, CloseGroupKeeps, SkipRestKeeps, DrainedKeeps
       DEF Scheduler, SchedulerStep
  <2> QED
    BY <1>2, <2>1, <2>2, <2>3 DEF Scheduler
<1>3. CASE Bodies
  BY <1>3, LandKeeps, BreakKeeps DEF Bodies, BodyStep
<1>4. CASE UNCHANGED <<aborted, toolVars>>
  BY <1>4 DEF toolVars, Inv, TypeInv, ToolTypeOK, GroupInv, LogInv, SlotInv,
     PoolInv, SignalInv, Running, Filling
<1> QED
  BY <1>1, <1>2, <1>3, <1>4 DEF Next

\* The strengthened invariant holds in every reachable state.
THEOREM Invariance == Spec => []Inv
<1>1. Init => Inv
  BY InitInv
<1>2. Inv /\ [Next]_<<aborted, toolVars>> => Inv'
  BY NextKeeps
<1> QED
  BY <1>1, <1>2, PTL DEF Spec

\* Whatever order the bodies settle in, the log has one result per call, in order.
THEOREM AlwaysInModelOrder == Spec => []ResultsInModelOrder
<1>1. Inv => ResultsInModelOrder
  BY DEF Inv, LogInv, ResultsInModelOrder
<1> QED
  BY <1>1, Invariance, PTL

\* No body runs behind a scheduler that returned or threw.
THEOREM NeverRunsOn == Spec => []NothingRunsOn
<1>1. Inv => NothingRunsOn
  BY DEF Inv, PoolInv, NothingRunsOn, Running, Filling
<1> QED
  BY <1>1, Invariance, PTL

\* A barrier runs alone, and the pool never exceeds its limit.
THEOREM BarriersAlwaysAlone == Spec => []BarriersRunAlone
<1>1. Inv => BarriersRunAlone
  <2> SUFFICES ASSUME Inv PROVE BarriersRunAlone
    OBVIOUS
  <2> DEFINE flying == {c \in Calls : slot[c] = "flying"}
  <2>1. flying \subseteq inFlight
    BY DEF Inv, PoolInv
  <2>2. Cardinality(flying) <= MaxParallel
    <3>1. IsFiniteSet(inFlight) /\ Cardinality(inFlight) \in Nat
      BY PoolFinite
    <3>2. Cardinality(flying) <= Cardinality(inFlight) /\ Cardinality(flying) \in Nat
      BY <2>1, <3>1, FS_Subset, FS_CardinalityType
    <3> QED
      BY <3>1, <3>2, ToolConstants DEF Inv, PoolInv
  <2>3. mode = "exclusive" => flying \subseteq {first}
    <3> SUFFICES ASSUME mode = "exclusive", NEW c \in flying PROVE c = first
      OBVIOUS
    <3>1. at \in Running /\ c \in inFlight /\ c \in Calls
      BY DEF Inv, PoolInv
    <3>2. first <= c /\ c < start /\ start <= last + 1 /\ last = first
      BY <3>1 DEF Inv, PoolInv, GroupInv
    <3> QED
      BY <3>1, <3>2 DEF Inv, TypeInv, ToolTypeOK, Calls
  <2> QED
    BY <2>2, <2>3 DEF BarriersRunAlone
<1> QED
  BY <1>1, Invariance, PTL

\* runGroup's closing check never fails.
THEOREM StartedAlwaysCommitted == Spec => []StartedIsCommitted
<1>1. Inv => StartedIsCommitted
  BY ToolConstants DEF Inv, SlotInv, StartedIsCommitted, TypeInv, ToolTypeOK, Calls, GroupInv
<1> QED
  BY <1>1, Invariance, PTL

\* An aborted signal starts no call any more.
THEOREM AbortNeverStarts == Spec => AbortStartsNothing
<1> DEFINE NoStart == \A c \in Calls :
             slot[c] = "unstarted" /\ slot'[c] = "preparing" => ~aborted
<1>1. Inv /\ [Next]_<<aborted, toolVars>> => [NoStart]_<<aborted, toolVars>>
  <2> SUFFICES ASSUME Inv, Next, NEW c \in Calls,
                      slot[c] = "unstarted", slot'[c] = "preparing"
               PROVE  ~aborted
    BY DEF Next
  <2> QED
    BY DEF Inv, TypeInv, ToolTypeOK, SignalInv, MayStart, Next, AbortSignal, Scheduler,
       SchedulerStep, Bodies, BodyStep, toolVars, Plan, OpenGroup, Return, StartCall,
       StopFilling, Prepared, PrepareFails, FinalizeFails, Committed, Observe, CloseGroup,
       SkipRest, Drained, Commit, Land, Break
<1> QED
  BY <1>1, Invariance, PTL DEF Spec, AbortStartsNothing
=============================================================================
