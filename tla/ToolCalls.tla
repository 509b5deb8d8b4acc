------------------------------ MODULE ToolCalls ------------------------------
(***************************************************************************)
(* The scheduler of one assistant step's tool calls                        *)
(* (src/deepseek-harness/packages/core/agent-loop/src/tool-calls.ts).      *)
(*                                                                         *)
(* Calls are numbered 1 .. total in the order of the model's message.      *)
(* Exclusive calls run alone, parallel ones in a rolling pool of at most   *)
(* MaxParallel; bodies overlap, while the events tool/call and tool/result *)
(* are appended in model order.  Between two actions the code awaits, so   *)
(* bodies settle and the signal may abort there.  The signal belongs to    *)
(* the caller: the agent loop instantiates this module with its own.       *)
(***************************************************************************)
EXTENDS Naturals, Sequences, FiniteSets

CONSTANTS MaxCalls,      \* bound: the calls of one message
          MaxParallel    \* ctx.agentLoop.config.maxParallelToolCalls

ASSUME ToolConstants == MaxCalls \in Nat \ {0} /\ MaxParallel \in Nat \ {0}

VARIABLES
  aborted,    \* signal.aborted, the caller's
  total,      \* planned.length
  at,         \* where the scheduler waits
  mode,       \* the kind of the current group
  first,      \* the group's first call ...
  last,       \* ... and its last
  start,      \* first + nextToStart: the next call to start
  stop,       \* runGroup's `aborted`, sampled from the signal
  slot,       \* what became of each call
  inFlight,   \* the keys of inFlight, settled or not
  failure,    \* schedulerFailure # undefined
  concluded,  \* some committed result concludes the turn
  results     \* the calls whose tool/result is in the log, in log order

toolVars == <<total, at, mode, first, last, start, stop, slot, inFlight,
              failure, concluded, results>>

Calls == 1 .. MaxCalls
Modes == {"parallel", "exclusive"}

(***************************************************************************)
(* "unstarted" has no tool/call; "preparing" has one and awaits pre-       *)
(* execute; "flying" runs its body; "landed" has a result to commit;       *)
(* "broken" failed inside the scheduler and gets no result; "done" and     *)
(* "skipped" have their tool/result.                                       *)
(***************************************************************************)
SlotStates == {"unstarted", "preparing", "flying", "landed", "broken",
               "done", "skipped"}
Settled == {"landed", "broken", "done"}
Places == {"off", "group", "fill", "prepare", "commit", "race", "drain",
           "returned", "threw"}

NoCalls ==
  /\ total = 0 /\ at = "off" /\ mode = "parallel"
  /\ first = 1 /\ last = 0 /\ start = 1 /\ stop = FALSE
  /\ slot = [c \in Calls |-> "unstarted"]
  /\ inFlight = {} /\ failure = FALSE /\ concluded = FALSE /\ results = <<>>

(* executeToolCalls is entered with the calls of the message. *)
Plan(n) ==
  /\ at = "off"
  /\ total' = n /\ at' = "group" /\ first' = 1 /\ last' = 0 /\ start' = 1
  /\ mode' = "parallel" /\ stop' = FALSE
  /\ slot' = [c \in Calls |-> "unstarted"]
  /\ inFlight' = {} /\ failure' = FALSE /\ concluded' = FALSE /\ results' = <<>>

(* The caller has taken the outcome. *)
Forget ==
  /\ at \in {"returned", "threw"}
  /\ total' = 0 /\ at' = "off" /\ mode' = "parallel"
  /\ first' = 1 /\ last' = 0 /\ start' = 1 /\ stop' = FALSE
  /\ slot' = [c \in Calls |-> "unstarted"]
  /\ inFlight' = {} /\ failure' = FALSE /\ concluded' = FALSE /\ results' = <<>>

\* Mutant of OpenGroup: a barrier opens a group of all that remain, too.
OpenGroupMixed(m) ==
  /\ at = "group" /\ start <= total
  /\ mode' = m /\ first' = start /\ last' = total
  /\ stop' = aborted
  /\ at' = "fill"
  /\ UNCHANGED <<total, start, slot, inFlight, failure, concluded, results>>

(***************************************************************************)
(* The next group: the mode of the first remaining call decides between a  *)
(* barrier of one call and a pool of all that remain.                      *)
(***************************************************************************)
OpenGroup(m) ==
  /\ at = "group" /\ start <= total
  /\ mode' = m /\ first' = start
  /\ last' = IF m = "parallel" THEN total ELSE start
  /\ stop' = aborted
  /\ at' = "fill"
  /\ UNCHANGED <<total, start, slot, inFlight, failure, concluded, results>>

Return ==
  /\ at = "group" /\ start > total
  /\ at' = "returned"
  /\ UNCHANGED <<total, mode, first, last, start, stop, slot, inFlight,
                 failure, concluded, results>>

MayStart == ~stop /\ start <= last /\ Cardinality(inFlight) < MaxParallel

(* startCall: the call is logged, then pre-execute is awaited. *)
StartCall ==
  /\ at = "fill" /\ MayStart
  /\ slot' = [slot EXCEPT ![start] = "preparing"]
  /\ at' = "prepare"
  /\ UNCHANGED <<total, mode, first, last, start, stop, inFlight, failure,
                 concluded, results>>

(***************************************************************************)
(* The pool is full, or nothing is left to start, or the next call is no   *)
(* longer a parallel one: its mode is read again just before the start.    *)
(***************************************************************************)
StopFilling ==
  /\ at = "fill"
  /\ MayStart => start > first /\ mode = "parallel"
  /\ at' = "race"
  /\ UNCHANGED <<total, mode, first, last, start, stop, slot, inFlight,
                 failure, concluded, results>>

(* Pre-execute returned: a body to run, or a result without one. *)
Prepared(body) ==
  /\ at = "prepare" /\ ~failure
  /\ slot' = [slot EXCEPT ![start] = IF body THEN "flying" ELSE "landed"]
  /\ inFlight' = IF body THEN inFlight \cup {start} ELSE inFlight
  /\ start' = start + 1
  /\ at' = "commit"
  /\ UNCHANGED <<total, mode, first, last, stop, failure, concluded, results>>

(* Pre-execute threw, or a body failed meanwhile: nothing more is started. *)
PrepareFails ==
  /\ at = "prepare"
  /\ failure' = TRUE
  /\ slot' = [slot EXCEPT ![start] = "broken"]
  /\ at' = "drain"
  /\ UNCHANGED <<total, mode, first, last, start, stop, inFlight, concluded,
                 results>>

(* A body settles at any time, with its result or by breaking. *)
Land(c) ==
  /\ slot[c] = "flying"
  /\ slot' = [slot EXCEPT ![c] = "landed"]
  /\ UNCHANGED <<total, at, mode, first, last, start, stop, inFlight, failure,
                 concluded, results>>

Break(c) ==
  /\ slot[c] = "flying"
  /\ slot' = [slot EXCEPT ![c] = "broken"]
  /\ failure' = TRUE
  /\ UNCHANGED <<total, at, mode, first, last, start, stop, inFlight,
                 concluded, results>>

(* The first call of the group without a result in the log. *)
Uncommitted == {c \in first .. last : slot[c] # "done"}
\* Mutant of Front: what landed is committed first.
FrontLanded ==
  LET landed == {c \in Uncommitted : slot[c] = "landed"}
  IN  CHOOSE c \in Uncommitted : landed = {} \/ c \in landed

Front == CHOOSE c \in Uncommitted : \A d \in Uncommitted : c <= d
Ready == Uncommitted # {} /\ slot[Front] = "landed"

(* commitReady finalizes the front call and appends its result. *)
Commit(concludes) ==
  /\ at = "commit" /\ Ready
  /\ slot' = [slot EXCEPT ![Front] = "done"]
  /\ results' = Append(results, Front)
  /\ concluded' = (concluded \/ concludes)
  /\ UNCHANGED <<total, at, mode, first, last, start, stop, inFlight, failure>>

FinalizeFails ==
  /\ at = "commit" /\ Ready
  /\ failure' = TRUE
  /\ at' = "drain"
  /\ UNCHANGED <<total, mode, first, last, start, stop, slot, inFlight,
                 concluded, results>>

\* Mutant of Committed: the signal is not read again.
CommittedUnaware ==
  /\ at = "commit" /\ ~Ready
  /\ at' = IF failure THEN "drain" ELSE "fill"
  /\ UNCHANGED <<total, mode, first, last, start, stop, slot, inFlight, failure,
                 concluded, results>>

(* Nothing more to commit: a failure is thrown, an abort is noticed. *)
Committed ==
  /\ at = "commit" /\ ~Ready
  /\ IF failure
     THEN at' = "drain" /\ stop' = stop
     ELSE at' = "fill" /\ stop' = (stop \/ aborted)
  /\ UNCHANGED <<total, mode, first, last, start, slot, inFlight, failure,
                 concluded, results>>

\* Mutant of Observe: the settled body keeps its place in the pool.
ObserveKept(c) ==
  /\ at = "race" /\ c \in inFlight /\ slot[c] \in Settled
  /\ at' = IF failure THEN "drain" ELSE "commit"
  /\ UNCHANGED <<total, mode, first, last, start, stop, slot, inFlight, failure,
                 concluded, results>>

(* Promise.race reports a settled body. *)
Observe(c) ==
  /\ at = "race" /\ c \in inFlight /\ slot[c] \in Settled
  /\ inFlight' = inFlight \ {c}
  /\ at' = IF failure THEN "drain" ELSE "commit"
  /\ UNCHANGED <<total, mode, first, last, start, stop, slot, failure,
                 concluded, results>>

\* Mutant of CloseGroup: the group closes when its last call was started.
CloseGroupStarted ==
  /\ at = "race" /\ start > last /\ ~stop
  /\ at' = "group"
  /\ UNCHANGED <<total, mode, first, last, start, stop, slot, inFlight,
                 failure, concluded, results>>

(* The pool is empty: the caller goes on with what was not started. *)
CloseGroup ==
  /\ at = "race" /\ inFlight = {} /\ ~stop
  /\ at' = "group"
  /\ UNCHANGED <<total, mode, first, last, start, stop, slot, inFlight,
                 failure, concluded, results>>

(***************************************************************************)
(* After an abort every call that was not started gets a pair of synthetic *)
(* events, in model order: the rest of the group, then the later calls.    *)
(***************************************************************************)
SkipRest ==
  /\ at = "race" /\ inFlight = {} /\ stop
  /\ slot' = [c \in Calls |-> IF c \in start .. total THEN "skipped" ELSE slot[c]]
  /\ results' = results \o [i \in 1 .. (total - start + 1) |-> start + i - 1]
  /\ at' = "returned"
  /\ UNCHANGED <<total, mode, first, last, start, stop, inFlight, failure,
                 concluded>>

\* Mutant of Drained: the first failure is thrown at once.
DrainedAtOnce ==
  /\ at = "drain"
  /\ at' = "threw"
  /\ UNCHANGED <<total, mode, first, last, start, stop, slot, inFlight,
                 failure, concluded, results>>

(* Promise.allSettled, then the first failure is thrown. *)
Drained ==
  /\ at = "drain" /\ \A c \in inFlight : slot[c] \in Settled
  /\ at' = "threw"
  /\ UNCHANGED <<total, mode, first, last, start, stop, slot, inFlight,
                 failure, concluded, results>>

(* The continuations of the scheduler itself ... *)
SchedulerStep ==
  \/ \E m \in Modes : OpenGroup(m)
  \/ Return
  \/ StartCall
  \/ StopFilling
  \/ \E b \in BOOLEAN : Prepared(b)
  \/ PrepareFails
  \/ FinalizeFails
  \/ Committed
  \/ \E c \in Calls : Observe(c)
  \/ CloseGroup
  \/ SkipRest
  \/ Drained

(* ... and the bodies.  The caller stages the contexts of the commits. *)
BodyStep == \E c \in Calls : Land(c) \/ Break(c)

(***************************************************************************)
(* From the sampling of the signal to the next start, or to the wait, the  *)
(* scheduler runs without an await: nothing else happens there.            *)
(***************************************************************************)
Synchronous == at = "fill"

(* The scheduler on its own: one batch, a signal that may abort in any await. *)
Init == aborted = FALSE /\ NoCalls

AbortSignal ==
  /\ ~aborted /\ ~Synchronous
  /\ aborted' = TRUE
  /\ UNCHANGED toolVars

Scheduler ==
  /\ \/ \E n \in 1 .. MaxCalls : Plan(n)
     \/ SchedulerStep
     \/ \E c \in BOOLEAN : Commit(c)
  /\ UNCHANGED aborted

Bodies == ~Synchronous /\ BodyStep /\ UNCHANGED aborted

Next == AbortSignal \/ Scheduler \/ Bodies

(* Continuations run, and bodies settle: tools have timeouts and the signal. *)
Spec ==
  /\ Init /\ [][Next]_<<aborted, toolVars>>
  /\ WF_<<aborted, toolVars>>(Scheduler) /\ WF_<<aborted, toolVars>>(Bodies)

----------------------------------------------------------------------------
ToolTypeOK ==
  /\ total \in 0 .. MaxCalls /\ at \in Places /\ mode \in Modes
  /\ first \in 1 .. (MaxCalls + 1) /\ last \in 0 .. MaxCalls
  /\ start \in 1 .. (MaxCalls + 1) /\ stop \in BOOLEAN
  /\ slot \in [Calls -> SlotStates] /\ inFlight \subseteq Calls
  /\ failure \in BOOLEAN /\ concluded \in BOOLEAN
  /\ results \in Seq(Calls)

(***************************************************************************)
(* The log holds the results in the order of the model's calls, none twice *)
(* and none left out, whatever order the bodies settle in; a step that     *)
(* returns, aborted or not, has one for every call (what makes the next    *)
(* request replayable), and one that throws has invented none.             *)
(***************************************************************************)
ResultsInModelOrder ==
  /\ \A i \in DOMAIN results : results[i] = i
  /\ at = "returned" => Len(results) = total
  /\ \A c \in Calls : slot[c] = "broken" => c > Len(results)

(***************************************************************************)
(* When the scheduler is left, no tool body is still running: a step never *)
(* ends under a tool that may still write.                                 *)
(***************************************************************************)
NothingRunsOn ==
  at \in {"off", "returned", "threw"} => \A c \in Calls : slot[c] # "flying"

(***************************************************************************)
(* A call that was started as a barrier runs alone, and the pool is never  *)
(* larger than its limit.                                                  *)
(***************************************************************************)
BarriersRunAlone ==
  LET running == {c \in Calls : slot[c] = "flying"}
  IN  /\ Cardinality(running) <= MaxParallel
      /\ mode = "exclusive" => running \subseteq {first}

(***************************************************************************)
(* runGroup's closing check is unreachable: a group that closes without an *)
(* abort has committed every call it started ("a non-aborted group commits *)
(* every started call", tool-calls.ts:243).                                *)
(***************************************************************************)
StartedIsCommitted ==
  at = "group" => \A c \in 1 .. (start - 1) : slot[c] = "done"

(***************************************************************************)
(* Once the signal is aborted no call is started any more: an abort that   *)
(* arrives while pre-execute, a commit or a body is awaited is noticed     *)
(* before the pool is filled again.                                        *)
(***************************************************************************)
AbortStartsNothing ==
  [][\A c \in Calls :
       slot[c] = "unstarted" /\ slot'[c] = "preparing" => ~aborted]_<<aborted, toolVars>>

(***************************************************************************)
(* Every batch comes to an end, aborted, failed or not: a body that has    *)
(* settled is always observed and no place in the pool is lost.            *)
(***************************************************************************)
BatchEnds == at # "off" ~> at \in {"returned", "threw"}
=============================================================================
