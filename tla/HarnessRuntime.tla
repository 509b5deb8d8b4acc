--------------------------- MODULE HarnessRuntime ---------------------------
(***************************************************************************)
(* The bridge between the platform and the agent runtime                   *)
(* (src/semantica-enterprise/integrations/deepseek-harness/runtime.js) on  *)
(* top of the SDK client it drives                                         *)
(* (src/deepseek-harness/packages/sdk/client/src/).                        *)
(*                                                                         *)
(* One session identifier is modelled: both tables of the bridge are keyed *)
(* by it and other keys never meet it.  A harness is an entry of the       *)
(* table, an SDK object with its current client and that client's child    *)
(* process.  Handlers interleave at their awaits.  The pipe is in order    *)
(* and drained before a run is rejected, so a notification is emitted by   *)
(* the child and handled by the bridge in one step; a suffix that is lost  *)
(* when the child dies is one it did not emit.                             *)
(***************************************************************************)
EXTENDS Naturals, Sequences, FiniteSets

CONSTANTS Turns,        \* POST /v1/sessions/{id}/turns requests
          Cancels,      \* POST /v1/sessions/{id}/cancel requests
          Models,       \* the fingerprints of model configurations
          FirstModel,
          Tools,
          Required,     \* evidenceRequirements of the prompts
          Faults,       \* what may go wrong
          MaxFaults,    \* bound: how often
          MaxChanges,   \* bound: changes of the configured model
          MaxRounds     \* bound: turns of the agent

ASSUME RuntimeConstants ==
  /\ FirstModel \in Models /\ Required \subseteq Tools
  /\ MaxFaults \in Nat /\ MaxChanges \in Nat /\ MaxRounds \in Nat

VARIABLES
  setting,   \* the configuration the platform hands out
  changes,   \* how often it changed
  faults,    \* how many faults happened
  rounds,    \* how many turns the agent began
  sessions,  \* sessions.get(id): a harness, or 0
  closing,   \* closingSessions.get(id): the harness being closed, or 0
  harness,   \* every harness constructed so far
  turn,      \* the turn requests
  cancel     \* the cancel requests

platform == <<setting, changes, faults, rounds>>
vars == <<platform, sessions, closing, harness, turn, cancel>>

Live == {"booting", "up", "stuck"}
Children == Live \cup {"none", "gone"}
Closes == {"none", "pending", "done", "failed"}
Rounds == {"queued", "open", "closed"}
Endings == {"completed", "max-tokens", "aborted", "interrupted", "error",
            "blocked"}
Terminals == {"completed", "cancelled", "failed"}

(* The awaits of runTurn, harnessFor, DeepSeekHarness and disposeSession. *)
Driving == {"handshake", "cleanup", "prompt", "listen", "rejected", "evict"}
Places == {"new", "table", "model", "answer", "stale", "ended"} \cup Driving

(* A harness as its constructor leaves it, its first turn already let in. *)
Made(fp) == [fp |-> fp, running |-> FALSE, closed |-> FALSE, init |-> FALSE,
             child |-> "none", close |-> "none", behind |-> 0,
             unstarted |-> FALSE]

NewTurn == [at |-> "new", reply |-> "none", fp |-> FirstModel, entry |-> 0,
            waits |-> 0, owner |-> FALSE, started |-> FALSE,
            round |-> "queued", satisfied |-> {},
            proven |-> {}, sent |-> "none", unproven |-> {}]

NewCancel == [at |-> "new", waits |-> 0, owner |-> FALSE]

Init ==
  /\ setting = FirstModel /\ changes = 0 /\ faults = 0 /\ rounds = 0
  /\ sessions = 0 /\ closing = 0 /\ harness = <<>>
  /\ turn = [t \in Turns |-> NewTurn]
  /\ cancel = [c \in Cancels |-> NewCancel]

Happens(kind) == kind \in Faults /\ faults < MaxFaults /\ faults' = faults + 1

-----------------------------------------------------------------------------
(* The SDK client. *)

(* HarnessClient.close: the teardown is memoized, and has nothing to wait  *)
(* for without a process.                                                  *)
ClientClosed(h) ==
  IF h.close # "none" THEN h
  ELSE [h EXCEPT !.close = IF h.child = "none" THEN "done" ELSE "pending"]

(* DeepSeekHarness.close. *)
HarnessClosed(h) == [ClientClosed(h) EXCEPT !.closed = TRUE]

Settled(e) == harness[e].close \in {"done", "failed"}

(* A client that was never closed and whose process lives takes requests.  *)
Usable(h) == h.close = "none" /\ h.child = "up"

(* run awaits start: a client already closed throws into the cleanup of    *)
(* start, a memoized handshake leads to the prompt, otherwise a process is *)
(* spawned.                                                                *)
Spawned(h) ==
  IF h.init \/ h.close # "none" THEN h
  ELSE [h EXCEPT !.child = "booting"]

FirstAwait(h) ==
  CASE h.init /\ Usable(h)           -> "prompt"
    [] h.init /\ ~Usable(h)          -> "rejected"
    [] ~h.init /\ h.close # "none"   -> "cleanup"
    [] ~h.init /\ h.close = "none"   -> "handshake"

(* After a failed handshake: a fresh client only once the old process is   *)
(* proved gone, and none for a harness closed for good.                    *)
Renewed(h) ==
  IF h.close = "done" /\ ~h.closed
  THEN [h EXCEPT !.child = "none", !.close = "none",
                 !.behind = h.behind + (IF h.child \in Live THEN 1 ELSE 0)]
  ELSE h

(* The state of its process and of its teardown. *)
Became(h, child, close) == [h EXCEPT !.child = child, !.close = close]

Set(e, h) == harness' = [harness EXCEPT ![e] = h]

(* Processes and their teardown, which settles with the exit: shutdown     *)
(* request, end of input, SIGTERM, SIGKILL; nothing if it is gone already. *)
Reap(e) ==
  /\ harness[e].close = "pending" /\ harness[e].child \in {"booting", "up"}
  /\ Set(e, Became(harness[e], "gone", "done"))
  /\ UNCHANGED <<platform, sessions, closing, turn, cancel>>

FindGone(e) ==
  /\ harness[e].close = "pending" /\ harness[e].child = "gone"
  /\ Set(e, Became(harness[e], "gone", "done"))
  /\ UNCHANGED <<platform, sessions, closing, turn, cancel>>

(* The process outlives SIGKILL by the grace: the close is rejected. *)
OutlivesKill(e) ==
  /\ Happens("stuck")
  /\ harness[e].close = "pending" /\ harness[e].child \in {"booting", "up"}
  /\ Set(e, Became(harness[e], "stuck", "failed"))
  /\ UNCHANGED <<setting, changes, rounds, sessions, closing, turn, cancel>>

DiesLate(e) ==
  /\ harness[e].child = "stuck"
  /\ Set(e, Became(harness[e], "gone", harness[e].close))
  /\ UNCHANGED <<platform, sessions, closing, turn, cancel>>

Crash(e) ==
  /\ Happens("crash") /\ harness[e].child \in {"booting", "up"}
  /\ Set(e, Became(harness[e], "gone", harness[e].close))
  /\ UNCHANGED <<setting, changes, rounds, sessions, closing, turn, cancel>>

-----------------------------------------------------------------------------
(* A turn request finds its harness. *)

With(t, r) == turn' = [turn EXCEPT ![t] = r]

At(r, place) == [r EXCEPT !.at = place]
Awaits(r, place, e) == [r EXCEPT !.at = place, !.waits = e]
Forgets(r) == [r EXCEPT !.fp = FirstModel, !.waits = 0]
Knows(r, fp) == [r EXCEPT !.at = "answer", !.fp = fp]
Refused(r, why) == [r EXCEPT !.at = "ended", !.reply = why]
Drives(r, e, place) == [r EXCEPT !.at = place, !.reply = "stream", !.entry = e]

(* The turn takes harness e, in the state h, or is refused with 409. *)
Enters(t, e, h) ==
  With(t, IF h.running THEN Refused(Forgets(turn[t]), "busy")
          ELSE Drives(Forgets(turn[t]), e, FirstAwait(h)))

\* Mutant of Entered: the turn forgets to mark the harness as running.
EnteredUnmarked(h) == IF h.running THEN h ELSE Spawned(h)

Running(h) == [h EXCEPT !.running = TRUE]
Entered(h) == IF h.running THEN h ELSE Running(Spawned(h))

(* sessions.set of a new harness, whose first turn is this one. *)
Construct(t) ==
  /\ harness' = Append(harness, Entered(Made(turn[t].fp)))
  /\ sessions' = Len(harness) + 1
  /\ Enters(t, Len(harness) + 1, Made(turn[t].fp))

Arrive(t) ==
  /\ turn[t].at = "new"
  /\ With(t, Awaits(turn[t], IF closing = 0 THEN "model" ELSE "table", closing))
  /\ UNCHANGED <<platform, sessions, closing, harness, cancel>>

TableFree(t) ==
  /\ turn[t].at = "table" /\ Settled(turn[t].waits)
  /\ With(t, At(Forgets(turn[t]), "model"))
  /\ UNCHANGED <<platform, sessions, closing, harness, cancel>>

(* The platform answers modelConfig; the response is still on its way. *)
ModelAnswers(t) ==
  /\ turn[t].at = "model"
  /\ With(t, Knows(turn[t], setting))
  /\ UNCHANGED <<platform, sessions, closing, harness, cancel>>

(* modelConfig throws before the stream is opened: the request gets 500. *)
ModelFails(t) ==
  /\ turn[t].at = "model" /\ Happens("model")
  /\ With(t, Refused(turn[t], "error"))
  /\ UNCHANGED <<setting, changes, rounds, sessions, closing, harness, cancel>>

Reuse(t) ==
  /\ turn[t].at = "answer" /\ sessions # 0
  /\ harness[sessions].fp = turn[t].fp
  /\ Enters(t, sessions, harness[sessions])
  /\ Set(sessions, Entered(harness[sessions]))
  /\ UNCHANGED <<platform, sessions, closing, cancel>>

(* The entry has another model: it is closed, running or not, and stays in *)
(* the table while this turn waits.                                        *)
CloseStale(t) ==
  /\ turn[t].at = "answer" /\ sessions # 0
  /\ harness[sessions].fp # turn[t].fp
  /\ With(t, Awaits(turn[t], "stale", sessions))
  /\ Set(sessions, HarnessClosed(harness[sessions]))
  /\ UNCHANGED <<platform, sessions, closing, cancel>>

Open(t) ==
  /\ \/ turn[t].at = "answer" /\ sessions = 0
     \/ turn[t].at = "stale" /\ Settled(turn[t].waits)
  /\ Construct(t)
  /\ UNCHANGED <<platform, closing, cancel>>

-----------------------------------------------------------------------------
(* DeepSeekHarness.start and HarnessSession.run up to the first receipt.  *)

Greeted(h) == [h EXCEPT !.child = "up", !.init = TRUE]

Handshake(t) ==
  LET e == turn[t].entry
      h == Greeted(harness[e]) IN
  /\ turn[t].at = "handshake" /\ harness[e].child = "booting"
  /\ Set(e, h) /\ With(t, At(turn[t], FirstAwait(h)))
  /\ UNCHANGED <<platform, sessions, closing, cancel>>

(* initialize is refused, times out, or its process is gone; start then    *)
(* closes the client.                                                      *)
HandshakeFails(t) ==
  LET e == turn[t].entry IN
  /\ turn[t].at = "handshake"
  /\ \/ harness[e].child \in {"gone", "stuck"} /\ UNCHANGED faults
     \/ harness[e].child \in {"booting", "up"} /\ Happens("handshake")
  /\ Set(e, ClientClosed(harness[e]))
  /\ With(t, At(turn[t], "cleanup"))
  /\ UNCHANGED <<setting, changes, rounds, sessions, closing, cancel>>

Cleaned(t) ==
  LET e == turn[t].entry IN
  /\ turn[t].at = "cleanup" /\ Settled(e)
  /\ Set(e, Renewed(harness[e]))
  /\ With(t, At(turn[t], "rejected"))
  /\ UNCHANGED <<platform, sessions, closing, cancel>>

Accepted(t) ==
  /\ turn[t].at = "prompt" /\ harness[turn[t].entry].child = "up"
  /\ With(t, At(turn[t], "listen"))
  /\ UNCHANGED <<platform, sessions, closing, harness, cancel>>

(* The prompt is refused or times out, the only outcomes when its process  *)
(* no longer answers.                                                      *)
PromptFails(t) ==
  /\ turn[t].at = "prompt"
  /\ \/ harness[turn[t].entry].child \in {"gone", "stuck"} /\ UNCHANGED faults
     \/ harness[turn[t].entry].child = "up" /\ Happens("prompt")
  /\ With(t, At(turn[t], "rejected"))
  /\ UNCHANGED <<setting, changes, rounds, sessions, closing, harness, cancel>>

\* Mutant of RunRejected: only closing the harness fails its subscriptions.
RunRejectedByClose(t) ==
  /\ turn[t].at = "listen" /\ harness[turn[t].entry].close = "done"
  /\ With(t, At(turn[t], "rejected"))
  /\ UNCHANGED <<platform, sessions, closing, harness, cancel>>

(* The exit of the process rejects the run that listens; no timeout does.  *)
RunRejected(t) ==
  /\ turn[t].at = "listen" /\ harness[turn[t].entry].child = "gone"
  /\ With(t, At(turn[t], "rejected"))
  /\ UNCHANGED <<platform, sessions, closing, harness, cancel>>

-----------------------------------------------------------------------------
(* The agent works on the prompt and the bridge translates what it hears.  *)

Listening(t) ==
  turn[t].at = "listen" /\ harness[turn[t].entry].child \in {"booting", "up"}

EvidenceSatisfied(r) == Required \subseteq r.satisfied

(* sendEvent of text or a completion, noted if the turn has not called     *)
(* every required tool with success.                                       *)
Send(r, kind) ==
  [r EXCEPT !.unproven = IF Required \subseteq r.proven THEN r.unproven
                         ELSE r.unproven \cup {kind}]

(* The last terminal event that was sent; completedSeen tells whether any  *)
(* was.                                                                    *)
Tell(r, kind) == [r EXCEPT !.sent = kind]
CompletedSeen(r) == r.sent # "none"

\* Mutant of HearStart: the evidence of the earlier turn is kept.
HearStartKept(r) == [r EXCEPT !.started = TRUE]

HearStart(r) == [r EXCEPT !.satisfied = {}, !.started = TRUE]

HearResult(r, k, ok) ==
  [r EXCEPT !.satisfied = IF ok THEN r.satisfied \cup {k} ELSE r.satisfied]

(* Text before the evidence is withheld. *)
HearText(r) == IF EvidenceSatisfied(r) THEN Send(r, "delta") ELSE r

HearEnd(r, reason) ==
  CASE reason \in {"aborted", "interrupted"} -> Tell(r, "cancelled")
    [] reason \in {"error", "blocked"}       -> Tell(r, "failed")
    [] OTHER ->
         IF EvidenceSatisfied(r) THEN Tell(Send(r, "completed"), "completed")
         ELSE Tell(r, "failed")

(* What the agent does, whether the bridge hears it or not. *)
Begins(r) == [r EXCEPT !.round = "open", !.proven = {}]
Called(r, k, ok) ==
  [r EXCEPT !.proven = IF ok THEN r.proven \cup {k} ELSE r.proven]
Finishes(r) == [r EXCEPT !.round = "closed"]

TurnStarts(t) ==
  /\ Listening(t) /\ turn[t].round # "open" /\ rounds < MaxRounds
  /\ With(t, HearStart(Begins(turn[t])))
  /\ rounds' = rounds + 1
  /\ UNCHANGED <<setting, changes, faults, sessions, closing, harness, cancel>>

(* A call and its result, which the agent always gives. *)
ToolRuns(t, k, ok) ==
  /\ Listening(t) /\ turn[t].round = "open"
  /\ With(t, HearResult(Called(turn[t], k, ok), k, ok))
  /\ UNCHANGED <<platform, sessions, closing, harness, cancel>>

Speaks(t) ==
  /\ Listening(t) /\ turn[t].round = "open"
  /\ With(t, HearText(turn[t]))
  /\ UNCHANGED <<platform, sessions, closing, harness, cancel>>

TurnEnds(t, reason) ==
  /\ Listening(t) /\ turn[t].round = "open"
  /\ With(t, HearEnd(Finishes(turn[t]), reason))
  /\ UNCHANGED <<platform, sessions, closing, harness, cancel>>

(* The finally clause; the locals of the turn are gone. *)
Done(r) == [NewTurn EXCEPT !.at = "ended", !.reply = r.reply, !.sent = r.sent,
                           !.unproven = r.unproven]
Rested(e) == [harness[e] EXCEPT !.running = FALSE]

(* The run is resolved; a completion is made up if the agent ended no turn. *)
Resolved(r) == IF CompletedSeen(r) THEN r ELSE Tell(r, "completed")

(* session.status idle resolves the run. *)
Idle(t) ==
  /\ Listening(t) /\ turn[t].round # "open"
  /\ With(t, Done(Resolved(turn[t])))
  /\ Set(turn[t].entry, Rested(turn[t].entry))
  /\ UNCHANGED <<platform, sessions, closing, cancel>>

-----------------------------------------------------------------------------
\* Mutant of Dispose: the entry stays in the table.
DisposeKept(e) ==
  /\ sessions' = sessions
  /\ closing' = IF closing = 0 THEN e ELSE closing

(* disposeSession: the entry leaves the table; a close that is already     *)
(* under way is joined, whichever harness it closes.                       *)
Dispose(e) ==
  /\ sessions' = IF sessions = e THEN 0 ELSE sessions
  /\ closing' = IF closing = 0 THEN e ELSE closing

Disposer(r, e) == [r EXCEPT !.waits = IF closing = 0 THEN e ELSE closing,
                            !.owner = (closing = 0)]

Disposed(e) == IF closing = 0 THEN HarnessClosed(harness[e]) ELSE harness[e]

Marked(h) == [h EXCEPT !.unstarted = TRUE]

Released(r) ==
  closing' = IF r.owner /\ closing = r.waits THEN 0 ELSE closing

(* The catch clause: a client whose turn never started is evicted; the     *)
(* harness keeps a mark of it.                                             *)
Caught(t) ==
  LET e == turn[t].entry
      r == Tell(turn[t], "failed") IN
  /\ turn[t].at = "rejected"
  /\ IF turn[t].started
     THEN /\ With(t, Done(r)) /\ Set(e, Rested(e))
          /\ UNCHANGED <<rounds, sessions, closing>>
     ELSE /\ With(t, Disposer(At(r, "evict"), e))
          /\ Set(e, Marked(Disposed(e))) /\ Dispose(e)
  /\ UNCHANGED <<platform, cancel>>

Evicted(t) ==
  /\ turn[t].at = "evict" /\ Settled(turn[t].waits)
  /\ With(t, Done(turn[t])) /\ Released(turn[t])
  /\ Set(turn[t].entry, Rested(turn[t].entry))
  /\ UNCHANGED <<platform, sessions, cancel>>

CancelIdle(c) ==
  /\ cancel[c].at = "new" /\ sessions = 0
  /\ cancel' = [cancel EXCEPT ![c] = At(cancel[c], "idle")]
  /\ UNCHANGED <<platform, sessions, closing, harness, turn>>

CancelSession(c) ==
  /\ cancel[c].at = "new" /\ sessions # 0
  /\ cancel' = [cancel EXCEPT ![c] = Disposer(At(cancel[c], "wait"), sessions)]
  /\ Set(sessions, Disposed(sessions)) /\ Dispose(sessions)
  /\ UNCHANGED <<platform, turn>>

Cancelled(c) ==
  /\ cancel[c].at = "wait" /\ Settled(cancel[c].waits)
  /\ cancel' = [cancel EXCEPT ![c] = At(NewCancel, "cancelled")]
  /\ Released(cancel[c])
  /\ UNCHANGED <<platform, sessions, harness, turn>>

(* An administrator changes the model of the conversation. *)
Reconfigure(m) ==
  /\ changes < MaxChanges /\ m # setting
  /\ setting' = m /\ changes' = changes + 1
  /\ UNCHANGED <<faults, rounds, sessions, closing, harness, turn, cancel>>

-----------------------------------------------------------------------------
Harnesses == 1 .. Len(harness)

Process(e) == Reap(e) \/ FindGone(e)
Accident(e) == OutlivesKill(e) \/ DiesLate(e) \/ Crash(e)

Handler(t) ==
  \/ TableFree(t) \/ ModelAnswers(t) \/ Reuse(t) \/ CloseStale(t) \/ Open(t)
  \/ HandshakeFails(t) \/ Handshake(t) \/ Cleaned(t)
  \/ Accepted(t) \/ PromptFails(t) \/ RunRejected(t) \/ Caught(t) \/ Evicted(t)

Agent(t) ==
  \/ TurnStarts(t) \/ Speaks(t)
  \/ \E k \in Tools, ok \in BOOLEAN: ToolRuns(t, k, ok)

AgentEnds(t) == Idle(t) \/ \E reason \in Endings: TurnEnds(t, reason)

Next ==
  \/ \E e \in Harnesses: Process(e) \/ Accident(e)
  \/ \E t \in Turns: Arrive(t) \/ ModelFails(t) \/ Handler(t) \/ Agent(t)
                     \/ AgentEnds(t)
  \/ \E c \in Cancels: CancelIdle(c) \/ CancelSession(c) \/ Cancelled(c)
  \/ \E m \in Models: Reconfigure(m)

Spec == Init /\ [][Next]_vars

(***************************************************************************)
(* Node runs a continuation once what it awaits is settled; the platform   *)
(* answers or its request times out; the ladder ends a process or gives    *)
(* up; and the agent, which the bridge puts no deadline on, ends its turn. *)
(***************************************************************************)
FairSpec ==
  /\ Spec
  /\ \A e \in 1 .. Cardinality(Turns):
       WF_vars(e \in Harnesses /\ Process(e))
  /\ \A t \in Turns: WF_vars(Handler(t)) /\ WF_vars(AgentEnds(t))
  /\ \A c \in Cancels: WF_vars(Cancelled(c))

-----------------------------------------------------------------------------
HarnessRecords ==
  [fp: Models, running: BOOLEAN, closed: BOOLEAN, init: BOOLEAN,
   child: Children, close: Closes, behind: Nat, unstarted: BOOLEAN]

TurnRecords(n) ==
  [at: Places, reply: {"none", "busy", "error", "stream"}, fp: Models,
   entry: 0 .. n, waits: 0 .. n, owner: BOOLEAN, started: BOOLEAN,
   round: Rounds, satisfied: SUBSET Tools, proven: SUBSET Tools,
   sent: Terminals \cup {"none"}, unproven: SUBSET {"delta", "completed"}]

CancelRecords(n) ==
  [at: {"new", "idle", "wait", "cancelled"}, waits: 0 .. n, owner: BOOLEAN]

(* Every variable has its type. *)
TypeOK ==
  /\ setting \in Models /\ changes \in 0 .. MaxChanges
  /\ faults \in 0 .. MaxFaults /\ rounds \in 0 .. MaxRounds
  /\ sessions \in 0 .. Len(harness) /\ closing \in 0 .. Len(harness)
  /\ harness \in Seq(HarnessRecords)
  /\ turn \in [Turns -> TurnRecords(Len(harness))]
  /\ cancel \in [Cancels -> CancelRecords(Len(harness))]

(***************************************************************************)
(* However requests interleave at their awaits, two turns never run on one *)
(* harness: its notifications go to one stream and its `running` means     *)
(* one turn (runtime.js:388-389).  Nor does it ever have two processes: a  *)
(* failed handshake is retried only when its process is proved gone        *)
(* (api.ts:81-91).                                                         *)
(***************************************************************************)
HarnessIsExclusive ==
  /\ \A t, u \in Turns:
       turn[t].at \in Driving /\ turn[u].at \in Driving
         /\ turn[t].entry = turn[u].entry => t = u
  /\ \A e \in Harnesses: harness[e].behind = 0

(***************************************************************************)
(* A client on which a turn failed before it started is never used again:  *)
(* the retry gets a fresh process (runtime.js:430-433).  A process that    *)
(* dies in mid-turn therefore costs one further turn, not all of them.     *)
(***************************************************************************)
FailedClientsAreEvicted ==
  \A t \in Turns:
    turn[t].at \in Driving \ {"evict"} => ~harness[turn[t].entry].unstarted

(***************************************************************************)
(* Text, and the completion of a turn the agent ended, reach the user only *)
(* after every required tool succeeded in that same turn of the agent:     *)
(* evidence of an earlier turn, or a failed call, does not count           *)
(* (runtime.js:325-331, 362).                                              *)
(***************************************************************************)
AnswersAreEvidenced ==
  \A t \in Turns: turn[t].unproven = {}

(***************************************************************************)
(* Every request is answered.  A turn is refused or its stream ends, with  *)
(* a terminal event, whatever went wrong with the client, its process or   *)
(* the agent, unless the process survives SIGKILL; a cancel request        *)
(* returns even then.  Waiting for a close, for a stale entry or for a     *)
(* dying client never hangs.                                               *)
(***************************************************************************)
RequestsEnd ==
  /\ \A t \in Turns: turn[t].at # "new" ~>
       \/ turn[t].at = "ended"
          /\ (turn[t].reply = "stream" => turn[t].sent # "none")
       \/ \E e \in Harnesses: harness[e].child = "stuck"
  /\ \A c \in Cancels: cancel[c].at = "wait" ~> cancel[c].at = "cancelled"
=============================================================================
