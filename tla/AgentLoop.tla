------------------------------ MODULE AgentLoop ------------------------------
(***************************************************************************)
(* The driver of one agent: its inbox, its turns and steps, cancellation,  *)
(* maintenance and disposal                                                *)
(* (src/deepseek-harness/packages/core/agent-loop/src/agent.ts, the inbox  *)
(* of packages/core/agent/src/inbox.ts, the account of consumed work of    *)
(* packages/core/agent/src/consumed-work.ts and the teardown of            *)
(* packages/core/agent-loop/src/index.ts).  The tool calls of a step are   *)
(* the module ToolCalls, whose signal is the one of the running activity.  *)
(*                                                                         *)
(* The code is single threaded.  An action is what runs between two        *)
(* awaits, or up to an event whose listeners may call back into the agent; *)
(* other parts of the program send, cancel and dispose in between.  A call *)
(* that emits such events before it is through, a waking send or a clear,  *)
(* leaves a frame on the stack `calls', and what listeners do meanwhile is *)
(* over before it goes on.  Not cut: the events of claim, of step/start    *)
(* with its messages, and a splice between its event and its mutation.     *)
(***************************************************************************)
EXTENDS Naturals, Sequences, FiniteSets

CONSTANTS Messages,      \* the inputs callers send, each once
          Context,       \* the context a tool's result leaves for the next step
          MaxSteps,      \* bound: the steps of a turn that may call tools
          MaxRetries,    \* bound: retries of a model request in one step
          MaxNested,     \* bound: calls that wait for each other's listeners
          MaxCalls, MaxParallel

ASSUME LoopConstants ==
  /\ Context \notin Messages
  /\ MaxSteps \in Nat /\ MaxRetries \in Nat /\ MaxNested \in Nat
  /\ MaxCalls \in Nat \ {0} /\ MaxParallel \in Nat \ {0}

VARIABLES
  phase,      \* Phase: kind, turn (lastTurn), step, wake (wakeRequested), abort
  inbox,      \* the two pending lists
  pc,         \* where the driver waits
  replay,     \* an activity is between its idle transition and its look at the latch
  target,     \* the inbox boundary of the next step
  batch,      \* the messages of the proposed step
  turnEnds,   \* turnEnds of turn()
  retries,    \* failed attempts of the request that is being made
  openTurn,   \* the log: the turn without turn/end, 0 if none
  openStep,   \* the log: is there a step without step/end?
  account,    \* foldConsumedWork of the log
  exit,       \* how the last driver left, "none" while it may go on
  fate,       \* what became of each message ...
  fateTurn,   \* ... and in or before which turn
  sent,       \* of a pending message: what the agent was doing when it came
  teardown,   \* the disposal: "no", "waiting" from its cancel on, "done"
  calls       \* sends and clears whose listeners are at work, innermost last

VARIABLES total, at, mode, first, last, start, stop, slot, inFlight, failure,
          concluded, results

Tools == INSTANCE ToolCalls WITH aborted <- phase.abort # "live"

inputVars == <<fate, fateTurn, sent>>
closing == <<teardown, calls>>
turnVars == <<target, batch, turnEnds, retries, openTurn, openStep>>
toolVars == <<total, at, mode, first, last, start, stop, slot, inFlight, failure,
              concluded, results>>
vars == <<phase, inbox, pc, replay, turnVars, account, exit, inputVars,
          closing, toolVars>>

----------------------------------------------------------------------------
Idle(t) ==
  [kind |-> "idle", turn |-> t, step |-> 0, wake |-> FALSE, abort |-> "live"]
Busy(k, t) ==
  [kind |-> k, turn |-> t, step |-> 0, wake |-> FALSE, abort |-> "live"]

IsIdle == phase.kind = "idle"
Aborted == phase.abort # "live"
HasPending == inbox.nextTurn # <<>> \/ inbox.nextStep # <<>>
Pending(m) == fate[m] = "pending"
Settled == IsIdle /\ ~replay /\ calls = <<>>

(* The driver runs synchronously: its first part, up to the first await. *)
Starting == pc \in {"opening", "claim"}

(***************************************************************************)
(* A call that waits for listeners: a waking send before its wakeDriver    *)
(* (late: the send's classification), a clear before its next-turn splice  *)
(* ("turns") or before it drops the latch and aborts ("latch").  inner:    *)
(* it was itself called by a listener of the driver's first part.          *)
(***************************************************************************)
Frame(op, cause, late) ==
  [op |-> op, cause |-> cause, late |-> late, inner |-> Starting]
Top == calls[Len(calls)]
Rest == SubSeq(calls, 1, Len(calls) - 1)
Nests == Len(calls) < MaxNested
Clearing == \E i \in DOMAIN calls : calls[i].op # "wake"

(* The innermost call goes on, the driver's first part only inside of it. *)
Returns(op) == calls # <<>> /\ Top.op = op /\ (Starting => Top.inner)

(***************************************************************************)
(* What the agent is doing when an input arrives.  "leaving" is the gap    *)
(* between the driver's last look at the inbox and its idle transition,    *)
(* "clearing" an event of a clear that goes on to cancel the activity.     *)
(***************************************************************************)
Activity ==
  IF Clearing THEN "clearing"
  ELSE IF IsIdle THEN "idle"
  ELSE IF phase.abort = "disposed" THEN "disposed"
  ELSE IF phase.kind = "maintenance" THEN "maintenance"
  ELSE IF Aborted THEN "aborted"
  ELSE IF pc = "leaving" THEN "leaving" ELSE "live"

NotPending == [to |-> "idle", woke |-> FALSE, turn |-> 0]

Init ==
  /\ phase = Idle(0)
  /\ inbox = [nextTurn |-> <<>>, nextStep |-> <<>>]
  /\ pc = "none" /\ replay = FALSE
  /\ target = "nextTurn" /\ batch = <<>> /\ turnEnds = "none"
  /\ retries = 0
  /\ openTurn = 0 /\ openStep = FALSE
  /\ account = [stepped |-> FALSE, claimed |-> FALSE, end |-> 0, dropped |-> FALSE]
  /\ exit = "none"
  /\ fate = [m \in Messages |-> "unsent"] /\ fateTurn = [m \in Messages |-> 0]
  /\ sent = [m \in Messages |-> NotPending]
  /\ teardown = "no" /\ calls = <<>>
  /\ Tools!NoCalls

----------------------------------------------------------------------------
(* The inbox. *)

(* The messages of a list, contexts left out. *)
Inputs(list) == {list[i] : i \in DOMAIN list} \cap Messages

(* The turn that will account for work lost now. *)
ThisTurn == IF openTurn # 0 THEN openTurn ELSE phase.turn + 1

Become(ms, f) ==
  /\ fate' = [m \in Messages |-> IF m \in ms THEN f ELSE fate[m]]
  /\ fateTurn' = [m \in Messages |-> IF m \in ms THEN ThisTurn ELSE fateTurn[m]]
  /\ sent' = [m \in Messages |-> IF m \in ms THEN NotPending ELSE sent[m]]

(* The signal takes the first cause; without keepInbox the latch goes too. *)
Abort(cause, keep) ==
  IF IsIdle THEN phase
  ELSE [kind |-> phase.kind, turn |-> phase.turn, step |-> phase.step,
        wake |-> phase.wake /\ keep,
        abort |-> IF Aborted THEN phase.abort ELSE cause]

(***************************************************************************)
(* clear(), then the abort: next-step input is discarded first, next-turn  *)
(* input second; the events of a splice that removes something let         *)
(* listeners call in before the rest.                                      *)
(***************************************************************************)
DiscardSteps(cause, outer) ==
  /\ inbox' = [nextTurn |-> inbox.nextTurn, nextStep |-> <<>>]
  /\ Become(Inputs(inbox.nextStep), "discarded")
  /\ calls' = Append(outer, Frame("turns", cause, FALSE))

DiscardTurns(cause, outer) ==
  /\ inbox' = [nextTurn |-> <<>>, nextStep |-> inbox.nextStep]
  /\ Become(Inputs(inbox.nextTurn), "discarded")
  /\ calls' = Append(outer, Frame("latch", cause, FALSE))

Discarded ==
  /\ account' = [stepped |-> account.stepped, claimed |-> account.claimed,
                 end |-> account.end, dropped |-> TRUE]
  /\ UNCHANGED phase

DropLatch(cause, outer) ==
  /\ phase' = Abort(cause, FALSE) /\ calls' = outer
  /\ UNCHANGED <<inbox, inputVars, account>>

ClearTurns(cause, outer) ==
  IF inbox.nextTurn # <<>> THEN DiscardTurns(cause, outer) /\ Discarded
  ELSE DropLatch(cause, outer)

Clear(cause, outer) ==
  IF inbox.nextStep # <<>> THEN DiscardSteps(cause, outer) /\ Discarded
  ELSE ClearTurns(cause, outer)

(* remove(): one pending message is cancelled. *)
Located(list, m) == CHOOSE i \in DOMAIN list : list[i] = m
Without(list, m) ==
  IF m \notin Inputs(list) THEN list
  ELSE SubSeq(list, 1, Located(list, m) - 1)
         \o SubSeq(list, Located(list, m) + 1, Len(list))
Remove(m) ==
  /\ Pending(m) /\ teardown # "done"
  /\ inbox' = [nextTurn |-> Without(inbox.nextTurn, m),
               nextStep |-> Without(inbox.nextStep, m)]
  /\ Become({m}, "discarded") /\ Discarded
  /\ UNCHANGED <<pc, replay, turnVars, exit, closing, toolVars>>

----------------------------------------------------------------------------
(* Waking the driver. *)

\* Mutant of Latches: only maintenance defers a wake.
LatchesMaintenance(afterAbort) ==
  phase.abort # "disposed" /\ phase.kind = "maintenance"

(***************************************************************************)
(* wakeDriver: an idle agent starts a driver; maintenance, or an aborted   *)
(* driver for input that came after the abort, latches the wake; a driver  *)
(* at work is left to claim the input itself.                              *)
(***************************************************************************)
Latches(afterAbort) ==
  /\ phase.abort # "disposed"
  /\ phase.kind = "maintenance" \/ afterAbort

Latched ==
  [kind |-> phase.kind, turn |-> phase.turn, step |-> phase.step,
   wake |-> TRUE, abort |-> phase.abort]

WakeDriver(afterAbort) ==
  IF IsIdle THEN phase' = Busy("running", phase.turn) /\ pc' = "opening"
  ELSE /\ phase' = IF Latches(afterAbort) THEN Latched ELSE phase
       /\ pc' = pc

(* The inbox list that takes the input: waking input never joins an aborted activity. *)
SendTo(list, wakeup) ==
  IF wakeup /\ ~IsIdle /\ Aborted THEN "nextTurn" ELSE list

(* send(), for followup (next turn, waking), steer (next step, waking), inject. *)
Send(m, list, wakeup) ==
  /\ fate[m] = "unsent" /\ teardown # "done"
  /\ list = "nextTurn" => wakeup
  /\ IF SendTo(list, wakeup) = "nextTurn"
     THEN inbox' = [nextTurn |-> Append(inbox.nextTurn, m), nextStep |-> inbox.nextStep]
     ELSE inbox' = [nextTurn |-> inbox.nextTurn, nextStep |-> Append(inbox.nextStep, m)]
  /\ fate' = [fate EXCEPT ![m] = "pending"]
  /\ sent' = [sent EXCEPT ![m] = [to |-> Activity, woke |-> wakeup, turn |-> phase.turn]]
  /\ IF wakeup
     THEN Nests /\ calls' = Append(calls, Frame("wake", "live", ~IsIdle /\ Aborted))
     ELSE UNCHANGED calls
  /\ UNCHANGED <<phase, pc, replay, turnVars, account, exit, fateTurn, teardown, toolVars>>

(* ... and after the listeners of the insertion, its wakeDriver. *)
Wake ==
  /\ Returns("wake")
  /\ WakeDriver(Top.late) /\ calls' = Rest
  /\ UNCHANGED <<inbox, replay, turnVars, account, exit, inputVars, teardown, toolVars>>

(* cancel() by a caller; with keepInbox it only aborts. *)
CancelKept ==
  /\ teardown # "done"
  /\ phase' = Abort("user", TRUE)
  /\ UNCHANGED <<inbox, pc, replay, turnVars, account, exit, inputVars, closing,
                 toolVars>>

Cancel ==
  /\ teardown # "done" /\ Nests
  /\ Clear("user", calls)
  /\ UNCHANGED <<pc, replay, turnVars, exit, teardown, toolVars>>

(* The rest of a clear, after the listeners of its splices. *)
GoOnClearing ==
  /\ \/ Returns("turns") /\ ClearTurns(Top.cause, Rest)
     \/ Returns("latch") /\ DropLatch(Top.cause, Rest)
  /\ UNCHANGED <<pc, replay, turnVars, exit, teardown, toolVars>>

(* runMaintenance() from the idle phase. *)
StartMaintenance ==
  /\ IsIdle /\ teardown # "done"
  /\ phase' = Busy("maintenance", phase.turn)
  /\ UNCHANGED <<inbox, pc, replay, turnVars, account, exit, inputVars,
                 closing, toolVars>>

\* Mutant of EndMaintenance: the latch is not replayed.
EndMaintenanceIdle ==
  /\ phase.kind = "maintenance" /\ ~replay /\ calls = <<>>
  /\ phase' = Idle(phase.turn)
  /\ UNCHANGED <<inbox, pc, replay, turnVars, account, exit, inputVars, closing,
                 toolVars>>

(* The job ends: its idle transition, then the latch (Replay). *)
EndMaintenance ==
  /\ phase.kind = "maintenance" /\ ~replay /\ calls = <<>>
  /\ phase' = Idle(phase.turn) /\ replay' = phase.wake
  /\ UNCHANGED <<inbox, pc, turnVars, account, exit, inputVars, closing, toolVars>>

(* dispose(): a cancel with cause "disposed", then whenIdle. *)
Dispose ==
  /\ teardown = "no" /\ Nests
  /\ teardown' = "waiting"
  /\ Clear("disposed", calls)
  /\ UNCHANGED <<pc, replay, turnVars, exit, toolVars>>

\* Mutant of Disposed: the teardown also waits for the inbox to be empty.
DisposedWhenEmpty ==
  /\ teardown = "waiting" /\ Settled /\ ~HasPending
  /\ teardown' = "done"
  /\ UNCHANGED <<phase, inbox, pc, replay, turnVars, account, exit, inputVars,
                 calls, toolVars>>

Disposed ==
  /\ teardown = "waiting" /\ Settled
  /\ teardown' = "done"
  /\ UNCHANGED <<phase, inbox, pc, replay, turnVars, account, exit, inputVars,
                 calls, toolVars>>

Others ==
  /\ ~Tools!Synchronous
  /\ \/ \E m \in Messages, list \in {"nextTurn", "nextStep"}, w \in BOOLEAN :
          Send(m, list, w)
     \/ \E m \in Messages : Remove(m)
     \/ Cancel \/ CancelKept
     \/ StartMaintenance
     \/ Dispose

----------------------------------------------------------------------------
(* The driver. *)

(* No listener is at work, or the driver was started by one. *)
DriverRuns == calls # <<>> => ~Top.inner

(* turn() up to turn/start; an abort that is already there opens no turn. *)
OpenTurn ==
  /\ pc = "opening" /\ DriverRuns
  /\ IF Aborted
     THEN /\ pc' = "leaving" /\ exit' = "unopened"
          /\ UNCHANGED <<phase, openTurn, target, turnEnds>>
     ELSE /\ pc' = "claim" /\ exit' = "none"
          /\ phase' = [kind |-> "running", turn |-> phase.turn + 1, step |-> 0,
                       wake |-> phase.wake, abort |-> phase.abort]
          /\ openTurn' = phase.turn + 1
          /\ target' = "nextTurn" /\ turnEnds' = "none"
  /\ UNCHANGED <<inbox, replay, batch, retries, openStep, account, inputVars,
                 closing, toolVars>>

(* claim(): all next-step input, and one queued prompt at a turn's start. *)
ClaimedTurns == IF target = "nextTurn" /\ inbox.nextTurn # <<>> THEN 1 ELSE 0

Claim ==
  /\ pc = "claim" /\ DriverRuns /\ ~Aborted
  /\ batch' = inbox.nextStep \o SubSeq(inbox.nextTurn, 1, ClaimedTurns)
  /\ inbox' = [nextTurn |-> SubSeq(inbox.nextTurn, ClaimedTurns + 1, Len(inbox.nextTurn)),
               nextStep |-> <<>>]
  /\ Become(Inputs(batch'), "claimed")
  /\ account' = [stepped |-> account.stepped,
                 claimed |-> account.claimed \/ batch' # <<>>,
                 end |-> account.end, dropped |-> account.dropped]
  /\ pc' = "proposing"
  /\ UNCHANGED <<phase, replay, target, turnEnds, retries, openTurn,
                 openStep, exit, closing, toolVars>>

\* Mutant of EndTurn: a turn without a step accounts for nothing.
EndTurnStepped(reason) ==
  /\ openTurn' = 0 /\ openStep' = FALSE /\ turnEnds' = reason /\ pc' = "ended"
  /\ account' = [stepped |-> FALSE, claimed |-> FALSE,
                 end |-> IF account.stepped THEN openTurn ELSE account.end,
                 dropped |-> account.dropped /\ ~account.stepped]
  /\ batch' = <<>> /\ retries' = 0
  /\ UNCHANGED <<phase, inbox, replay, target, closing>>

(***************************************************************************)
(* turn/end, with the fold of consumed work: the turn accounts for its     *)
(* work when it entered a step, or claimed input and did not complete.     *)
(***************************************************************************)
EndTurn(reason) ==
  /\ openTurn' = 0 /\ openStep' = FALSE /\ turnEnds' = reason /\ pc' = "ended"
  /\ account' = IF account.stepped \/ (account.claimed /\ reason # "completed")
                THEN [stepped |-> FALSE, claimed |-> FALSE, end |-> openTurn,
                      dropped |-> FALSE]
                ELSE [stepped |-> FALSE, claimed |-> FALSE, end |-> account.end,
                      dropped |-> account.dropped]
  /\ batch' = <<>> /\ retries' = 0
  /\ UNCHANGED <<phase, inbox, replay, target, closing>>

Withdraw == Become({m \in Inputs(batch) : fate[m] = "claimed"}, "withdrawn")

(* The pre-step waterfall rejects the step: the driver leaves at once. *)
Reject ==
  /\ pc = "proposing" /\ ~Aborted
  /\ Withdraw
  /\ exit' = "blocked"
  /\ EndTurn("blocked")
  /\ UNCHANGED toolVars

(* Nothing is left to run: of a turn that already ended, or of a first step. *)
EnterNothing ==
  /\ pc = "proposing" /\ ~Aborted
  /\ turnEnds # "none" \/ phase.step = 0
  /\ Become(Inputs(batch), "rewritten")
  /\ exit' = IF turnEnds = "none" THEN "empty" ELSE "none"
  /\ EndTurn(IF turnEnds = "none" THEN "completed" ELSE turnEnds)
  /\ UNCHANGED toolVars

(***************************************************************************)
(* step/start and the messages of the decision: the batch with or without  *)
(* a context, or what a listener made of it.  A step that continues after  *)
(* tools may carry none.                                                   *)
(***************************************************************************)
EnterStep(kept) ==
  /\ pc = "proposing" /\ ~Aborted
  /\ openStep' = TRUE /\ retries' = 0 /\ batch' = <<>>
  /\ phase' = [kind |-> "running", turn |-> phase.turn, step |-> phase.step + 1,
               wake |-> phase.wake, abort |-> phase.abort]
  /\ Become(Inputs(batch), IF kept THEN "logged" ELSE "rewritten")
  /\ account' = [stepped |-> TRUE, claimed |-> account.claimed,
                 end |-> account.end, dropped |-> account.dropped]
  /\ pc' = "request"
  /\ UNCHANGED <<inbox, replay, target, turnEnds, openTurn, exit,
                 closing, toolVars>>

(* A failed request is retried by agent/request-error. *)
Retry ==
  /\ pc = "request" /\ ~Aborted /\ retries < MaxRetries
  /\ retries' = retries + 1
  /\ UNCHANGED <<phase, inbox, pc, replay, target, batch, turnEnds,
                 openTurn, openStep, account, exit, inputVars, closing, toolVars>>

(* step/end after a step that returned; the token ceiling is sticky. *)
EndStep(end) ==
  /\ openStep' = FALSE /\ retries' = 0
  /\ turnEnds' = IF turnEnds = "max-tokens" THEN turnEnds ELSE end
  /\ pc' = "stepped"
  /\ UNCHANGED <<phase, inbox, replay, target, batch, openTurn,
                 account, exit, inputVars, closing>>

(* The model answers without tool calls, or hits the ceiling before them. *)
Answer(end) ==
  /\ pc = "request" /\ ~Aborted
  /\ EndStep(end)
  /\ UNCHANGED toolVars

(* The model asks for n tool calls. *)
CallTools(n) ==
  /\ pc = "request" /\ ~Aborted /\ phase.step <= MaxSteps
  /\ Tools!Plan(n)
  /\ pc' = "tools" /\ retries' = 0
  /\ UNCHANGED <<phase, inbox, replay, target, batch, turnEnds, openTurn, openStep,
                 account, exit, inputVars, closing>>

OnlyTools ==
  UNCHANGED <<phase, inbox, pc, replay, turnVars, account, exit, inputVars, closing>>

(* A result is committed, perhaps with context for the next step. *)
CommitResult(concludes, staged) ==
  /\ Tools!Commit(concludes)
  /\ IF staged /\ Context \notin {inbox.nextStep[i] : i \in DOMAIN inbox.nextStep}
     THEN inbox' = [nextTurn |-> inbox.nextTurn,
                    nextStep |-> Append(inbox.nextStep, Context)]
     ELSE inbox' = inbox
  /\ UNCHANGED <<phase, pc, replay, turnVars, account, exit, inputVars, closing>>

(* executeToolCalls returns, though the signal may be aborted. *)
ToolsReturn ==
  /\ pc = "tools" /\ at = "returned"
  /\ EndStep(IF concluded THEN "completed" ELSE "none")
  /\ Tools!Forget

(* After a step: stop only with nothing for the next one. *)
GoOn == target' = "nextStep" /\ pc' = "claim"

AfterStep ==
  /\ pc = "stepped" /\ ~Aborted
  /\ IF turnEnds # "none" /\ inbox.nextStep = <<>>
     THEN pc' = "stopping" /\ target' = target
     ELSE GoOn
  /\ UNCHANGED <<phase, inbox, replay, batch, turnEnds, retries,
                 openTurn, openStep, account, exit, inputVars, closing, toolVars>>

(* agent/turn-stopping returned; its listeners may have steered. *)
Steered ==
  /\ pc = "stopping" /\ ~Aborted /\ inbox.nextStep # <<>>
  /\ GoOn
  /\ UNCHANGED <<phase, inbox, replay, batch, turnEnds, retries,
                 openTurn, openStep, account, exit, inputVars, closing, toolVars>>

Stop ==
  /\ pc = "stopping" /\ ~Aborted /\ inbox.nextStep = <<>>
  /\ exit' = "none"
  /\ EndTurn(turnEnds)
  /\ UNCHANGED <<inputVars, toolVars>>

(***************************************************************************)
(* The catch clause of turn(): an aborted signal ends the turn aborted,    *)
(* whatever was thrown; anything else is reported first (agent/error) and  *)
(* ends it with an error.  Tool calls are drained before they throw.       *)
(***************************************************************************)
Thrown == pc \in {"proposing", "request", "stopping"} \/ (pc = "tools" /\ at = "threw")

ForgetTools == IF pc = "tools" THEN Tools!Forget ELSE UNCHANGED toolVars

Unwind ==
  /\ Aborted
  /\ \/ pc = "claim" /\ DriverRuns
     \/ calls = <<>> /\ ~replay /\ (Thrown \/ pc = "stepped")
  /\ Withdraw
  /\ exit' = "aborted"
  /\ EndTurn("aborted")
  /\ ForgetTools

Fail ==
  /\ ~Aborted /\ Thrown
  /\ pc' = "failing"
  /\ openStep' = FALSE
  /\ ForgetTools
  /\ UNCHANGED <<phase, inbox, replay, target, batch, turnEnds, retries,
                 openTurn, account, exit, inputVars, closing>>

Failed ==
  /\ pc = "failing"
  /\ Withdraw
  /\ exit' = "failed"
  /\ EndTurn("error")
  /\ UNCHANGED toolVars

(***************************************************************************)
(* After turn/end: a turn that was rejected, empty or thrown out of leaves *)
(* at once, any other goes on with a fresh signal while input is pending.  *)
(***************************************************************************)
NextTurn ==
  /\ pc = "ended" /\ exit = "none" /\ HasPending
  /\ phase' = Busy("running", phase.turn)
  /\ pc' = "opening"
  /\ UNCHANGED <<inbox, replay, turnVars, account, exit, inputVars, closing, toolVars>>

NoMoreTurns ==
  /\ pc = "ended" /\ (exit # "none" \/ ~HasPending)
  /\ exit' = IF exit = "none" THEN "drained" ELSE exit
  /\ pc' = "leaving"
  /\ UNCHANGED <<phase, inbox, replay, turnVars, account, inputVars, closing, toolVars>>

\* Mutant of Leave: the driver ends without its idle transition.
LeaveRunning ==
  /\ pc = "leaving"
  /\ pc' = "none" /\ replay' = phase.wake
  /\ target' = "nextTurn" /\ turnEnds' = "none"
  /\ UNCHANGED <<phase, inbox, batch, retries, openTurn, openStep, account,
                 exit, inputVars, closing, toolVars>>

(* kick's finally: the idle transition, then the latch. *)
Leave ==
  /\ pc = "leaving"
  /\ phase' = Idle(phase.turn) /\ pc' = "none" /\ replay' = phase.wake
  /\ target' = "nextTurn" /\ turnEnds' = "none"
  /\ UNCHANGED <<inbox, batch, retries, openTurn, openStep, account, exit,
                 inputVars, closing, toolVars>>

Replay ==
  /\ replay /\ replay' = FALSE
  /\ IF HasPending THEN WakeDriver(FALSE) ELSE UNCHANGED <<phase, pc>>
  /\ UNCHANGED <<inbox, turnVars, account, exit, inputVars, closing, toolVars>>

(***************************************************************************)
(* The finally of kick or of a job runs to its end before any await of a   *)
(* newer activity returns, so only the first synchronous part of a newer   *)
(* driver may precede Replay.                                              *)
(***************************************************************************)
TurnStep ==
  \/ Reject \/ EnterNothing \/ \E kept \in BOOLEAN : EnterStep(kept)
  \/ Retry \/ \E end \in {"completed", "max-tokens"} : Answer(end)
  \/ \E n \in 1 .. MaxCalls : CallTools(n)
  \/ ToolsReturn \/ AfterStep \/ Steered \/ Stop
  \/ Fail \/ Failed \/ NextTurn \/ NoMoreTurns \/ Leave

ToolStep ==
  \/ Tools!SchedulerStep /\ OnlyTools
  \/ \E c, s \in BOOLEAN : CommitResult(c, s)

DriverStep ==
  \/ OpenTurn \/ Claim \/ Unwind
  \/ calls = <<>> /\ Replay
  \/ calls = <<>> /\ ~replay /\ TurnStep
  \/ calls = <<>> /\ ToolStep

BodyStep == calls = <<>> /\ ~Tools!Synchronous /\ Tools!BodyStep /\ OnlyTools

Next ==
  Others \/ Wake \/ GoOnClearing \/ Disposed \/ EndMaintenance \/ DriverStep \/ BodyStep

Spec == Init /\ [][Next]_vars

(***************************************************************************)
(* The event loop runs every continuation that is ready, awaited hooks,    *)
(* model calls, tool bodies and maintenance jobs end, and the teardown's   *)
(* whenIdle resumes.  Callers need not do anything.                        *)
(***************************************************************************)
FairSpec ==
  /\ Spec
  /\ WF_vars(Wake) /\ WF_vars(GoOnClearing)
  /\ WF_vars(DriverStep) /\ WF_vars(BodyStep)
  /\ WF_vars(EndMaintenance) /\ WF_vars(Disposed)
----------------------------------------------------------------------------
(* Properties. *)

Causes == {"live", "user", "disposed"}
Fates == {"unsent", "pending", "claimed", "logged", "withdrawn", "rewritten",
          "discarded"}
Ends == {"none", "completed", "max-tokens", "blocked", "aborted", "error"}
Exits == {"none", "drained", "empty", "blocked", "aborted", "failed", "unopened"}
Activities == {"idle", "maintenance", "live", "aborted", "disposed", "leaving", "clearing"}
Frames == [op : {"wake", "turns", "latch"}, cause : Causes, late : BOOLEAN, inner : BOOLEAN]
DriverPlaces == {"opening", "claim", "proposing", "request", "tools", "stepped",
                 "stopping", "failing", "ended", "leaving"}

LoopTypeOK ==
  /\ phase \in [kind : {"idle", "maintenance", "running"}, turn : Nat, step : Nat,
                wake : BOOLEAN, abort : Causes]
  /\ inbox \in [nextTurn : Seq(Messages), nextStep : Seq(Messages \cup {Context})]
  /\ pc \in DriverPlaces \cup {"none"} /\ replay \in BOOLEAN
  /\ pc # "none" <=> phase.kind = "running"
  /\ target \in {"nextTurn", "nextStep"} /\ batch \in Seq(Messages \cup {Context})
  /\ turnEnds \in Ends /\ retries \in 0 .. MaxRetries
  /\ openTurn \in Nat /\ openStep \in BOOLEAN
  /\ account \in [stepped : BOOLEAN, claimed : BOOLEAN, end : Nat, dropped : BOOLEAN]
  /\ exit \in Exits
  /\ fate \in [Messages -> Fates] /\ fateTurn \in [Messages -> Nat]
  /\ sent \in [Messages -> [to : Activities, woke : BOOLEAN, turn : Nat]]
  /\ teardown \in {"no", "waiting", "done"} /\ calls \in Seq(Frames)

TypeOK == LoopTypeOK /\ Tools!ToolTypeOK

(***************************************************************************)
(* Waking input that comes behind a cancelled activity or maintenance is   *)
(* not parked with the rest: once the agent is idle, a turn has begun      *)
(* since, or the driver that was to open it was cancelled before it could. *)
(* Input that a listener of a clear's own events sends ("clearing") is not *)
(* covered: the clear goes on to drop the latch, and the input is parked.  *)
(***************************************************************************)
LateWakesOpenATurn ==
  Settled =>
    \A m \in Messages :
      Pending(m) /\ sent[m].woke /\ sent[m].to \in {"aborted", "maintenance"} =>
        phase.turn > sent[m].turn \/ exit = "unopened"

(***************************************************************************)
(* foldConsumedWork accounts for all work: between turns, every message    *)
(* that entered a step, or was claimed and then withdrawn, is covered by   *)
(* the turn it reports, and a message dropped unrun is reported as dropped *)
(* or covered by a later turn.  Only what a listener rewrote away is not.  *)
(***************************************************************************)
WorkAccountedFor ==
  openTurn = 0 =>
    \A m \in Messages :
      /\ fate[m] \in {"logged", "withdrawn"} => account.end >= fateTurn[m]
      /\ fate[m] = "discarded" => account.dropped \/ account.end >= fateTurn[m]

(* Callers start no maintenance for ever. *)
MaintenanceCeases == <>[][~StartMaintenance]_vars

(***************************************************************************)
(* Once disposal waits and callers start no more jobs, it comes to an end, *)
(* whatever the driver or its tools were doing.                            *)
(***************************************************************************)
TeardownEnds == MaintenanceCeases => (teardown = "waiting" ~> teardown = "done")

(***************************************************************************)
(* Waking input does not wait for ever, unless for jobs that callers start *)
(* without end: it leaves the inbox, or the agent goes idle after a        *)
(* rejection, failure, cancellation or empty turn.  Not covered, because   *)
(* the code does park it: input that comes between the driver's last look  *)
(* at the inbox and its idle transition ("leaving"), from a listener of a  *)
(* clear ("clearing"), or after disposal.                                  *)
(***************************************************************************)
WakesAreAnswered ==
  MaintenanceCeases =>
    \A m \in Messages :
      Pending(m) /\ sent[m].woke /\ sent[m].to \notin {"leaving", "clearing", "disposed"} ~>
        ~Pending(m) \/ (Settled /\ exit \notin {"none", "drained"})
=============================================================================
