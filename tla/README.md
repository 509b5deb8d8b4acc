# A verification model of the Nexus One knowledge platform

This directory holds TLA+ specifications of the two programs of this repository
that run together: `semantica-enterprise/`, the organisation knowledge platform,
and `deepseek-harness/`, the agent runtime that answers its conversations, with
the TLC configurations that check them and proofs that TLAPS checks. Paths of
Python files and of `runtime.js` are relative to `semantica-enterprise/`, paths of
TypeScript files to `deepseek-harness/packages/`.

## 1. The system

Documents come in through uploads and connectors, are parsed into versions and
content elements, and are processed into chunks, entities and facts. A *space*
publishes them as numbered, immutable snapshots: a graph (FalkorDB), a search
index (OpenSearch and Qdrant) and a knowledge release that pairs the two. People
curate the knowledge, ask an assistant about it and write with it.

| Component | State | Operations | Talks to |
|---|---|---|---|
| Conversations (`apps/api/conversations.py`) | conversation row, messages, event projections, citations | send, retry, cancel, read, delete, clear, the SSE bridge `_stream_turn` | agent runtime (HTTP stream, cancel), database |
| Agent internal API (`apps/api/agent_internal.py`) | short-lived credentials | issue credential, model configuration, tools | called by the Harness tools |
| Agent runtime bridge (`integrations/deepseek-harness/runtime.js`) | Harness clients per session, closing table | run turn, cancel session, health | SDK client, agent internal API |
| SDK client (`sdk/client/src`) | memoized handshake, child process, subscriptions | start, run, close | Harness process over a pipe |
| Agent loop (`core/agent-loop/src/agent.ts`, `core/agent/src/inbox.ts`) | phase, inbox, turn and step | send, steer, inject, remove, cancel, maintenance, dispose | session log, model, tools |
| Tool scheduling (`core/agent-loop/src/tool-calls.ts`) | slots of one message's calls, pool | start, settle, commit, skip | tool registry, session log |
| Session persistence (`session/session-persistence/src`, `session-persistence-jsonl`) | per-id chain, live controllers, preparations, retirements; the file | append behind, flush, prepare, load, inspect, repair, retire, reload | live sessions, storage |
| Source intake (`apps/worker/tasks.py`, `apps/api/routes.py`, Celery) | sources, jobs and their messages, documents and versions, files, elements | schedule, request, sync, upload, parse, retry, dispatch | connectors, object store, broker |
| Worker (`apps/worker/tasks.py`) | jobs and their steps; rows of the versions it processes | process knowledge, publish curation, infer | all stores, models |
| Releases (`packages/platform/graph_release.py`, `index_release.py`) | graph, index and knowledge releases | publish graph, publish index, activate | called by the worker and by the manual publication |
| Processing targets (`packages/platform/knowledge_processing.py`) | `parse_summary` of a version | completed targets, projection predicates | read by both publications |
| Curation (`packages/platform/curation.py`, `curation_workbench.py`) | decisions, overrides, batches, conflict cases | decide, revert, publish, effective values | worker job per batch |
| Search (`packages/platform/knowledge_search.py`) | none (query runs are logged) | hybrid search on the current or a pinned release | OpenSearch, Qdrant, FalkorDB |
| Analysis (`packages/platform/analysis.py`) | rule sets, inference runs, inferred facts | run, publish, invalidate | worker |
| Application foundation (`apps/api/application_foundation.py`) | applications, credentials, products, releases, aliases | issue, rotate, release, move an alias | search pinned to releases |
| Structured data (`apps/api/structured_data.py`, `packages/platform/structured_query.py`) | sources, mapping versions, query runs | activate, roll back, plan, compile, execute | databases |
| Writing (`apps/api/writing.py`, `packages/platform/writing_flow.py`) | projects, documents, generation runs, exports | generate, cancel, finalise, edit | conversations, worker |
| Media (`apps/api/media.py`) | processing runs | process, cancel, retry | worker |
| Model routing, security, audit | policies, tokens, audit rows | resolve, encode, append | everybody |

What is hard about it:

* **Stale sessions.** ORM sessions are created with `autoflush=False` and
  `expire_on_commit=False`, and `SELECT ... FOR UPDATE` does not reload a row the
  session already holds. A handler decides on what it read first.
* **Two writers of one answer.** The SSE bridge projects the events of a turn while
  request threads cancel, clear, delete or reconcile it.
* **Long transactions in several commits.** Processing a version commits about a
  dozen times; every commit shows intermediate rows to other jobs. Failure is
  compensated by hand from copies taken at the start of the job.
* **Optional serialisation.** The advisory locks cover building a graph and building
  an index, but not every path to the switch of the knowledge release.
* **Callbacks at every await.** The Harness is single threaded, but every await and every
  event lets callers send, cancel and dispose; the driver's last look at its inbox, its idle
  transition and its look at the latch are three moments.
* **Order out of disorder.** Tool bodies settle in any order; results and events must reach the
  log in one.
* **Write-behind.** Events are durable later than they are seen, by batches that fail, are
  retried, overlap a flush or die with the process; a session of the same id may come back meanwhile.
* **Redelivery.** Celery acknowledges late, so a job of a killed worker runs again on
  the rows it left.

What makes each component correct is stated as properties below; the main hazards are
listed in `PROJECT.json` at their lines with the properties that cover them, or with the
reason why none does yet; further ones that no property covers are at the end of section 3.

## 2. Modules

| Module | What it is |
|---|---|
| `Conversation` | one conversation, its turns, credentials and request threads |
| `MCConversation` | TLC instances of it |
| `ConversationProofs` | theorems about `Conversation` |
| `KnowledgePublish` | the publication of one space by concurrent jobs |
| `SearchCatalogue` | what the publication promises to readers of its full text |
| `MCKnowledgePublish` | TLC instances of `KnowledgePublish` |
| `KnowledgePublishProofs` | theorems about `KnowledgePublish`: numbers and pointers, then completed targets and what readers find |
| `SourceIntake` | one source, from the scheduler to parsed versions |
| `SourceIntakeProofs` | theorems about `SourceIntake` |
| `HarnessRuntime` | one session in the bridge, on the SDK client and its process |
| `HarnessRuntimeProofs` | theorems about `HarnessRuntime` |
| `ToolCalls` | the scheduler of one message's tool calls |
| `ToolCallsProofs` | theorems about `ToolCalls`, and lemmas for whoever instantiates it |
| `AgentLoop` | the driver of one agent; it instantiates `ToolCalls` with its own signal |
| `AgentLoopProofs` | theorems about `AgentLoop`; it instantiates `ToolCallsProofs` likewise |
| `WriteBehind` | the batching controller of a live session, as functions on its fields |
| `SessionLog` | one session id in the persistence coordinator; it extends `WriteBehind` |
| `DurableLog` | what session persistence promises of one session id |
| `SessionLogProofs` | theorems about `SessionLog`: its numbers, lengths and queues |
| `SessionContentProofs` | theorems about what the events of `SessionLog` are, on top of `SessionLogProofs`; the refinement of `DurableLog` |
| `MCSourceIntake`, `MCHarnessRuntime`, `MCToolCalls`, `MCAgentLoop`, `MCSessionLog` | TLC instances of them |

The modules meet where the programs do. `SourceIntake` ends where the job `knowledge:<version>` is sent,
which starts a run of `KnowledgePublish`. `Conversation` abstracts a turn of the Harness to a
stream that ends with or without a terminal event; `HarnessRuntime` is what produces such a stream
(`RequestsEnd` is the promise `Conversation` uses for a stream that is not lost). `HarnessRuntime` in
turn leaves open what the agent does between `turn/start` and `turn/end`, which is `AgentLoop`;
and the events `AgentLoop` appends are those whose durability `SessionLog` is about.

### 2.1 Conversation

One row of `conversations` (`conv`, `session`, `deleted`), its assistant messages
(`status`, `quiet` for "updated longer ago than the stale limit"), the terminal events
logged for each (`logged`), the usable credential of a turn's tools (`cred`: `held` if it was committed before
the answer was settled, `late` if after) and a request for one that is checked and not committed (`issuing`), the phase of the SSE bridge (`bridge`, `seen`), the Harness turn (`sess`,
`running`) and the request threads (`thread`: the step reached and the columns read).

A handler is cut where another transaction can commit: `send_message` is `SendLoad`
and `SendCommit`; `cancel_generation` is `CancelLoad`, `CancelSelect` (or
`CancelNothing`), `CancelCommit` and `CancelClose`; reading a conversation is `ReadLoad`
and one of `ReadRepair`, `ReadFresh`, `ReadStale` + `ReadCommit`. Everything
`_project_event` does from its row lock to the commit is the operator `Project`, with the
answer and the conversation as *this session had loaded them* as parameters. `Written`
is the UPDATE of the ORM: a column is sent only if it differs from the value loaded.
Constraint violations are actions of their own (`CreateConflict`, `ProjectConflict`,
`ClearConflict`, `BridgeOrphan`), because a 500 leaves the row as it was.

A credential request is cut between its check (`IssueCheck`) and its commit (`IssueCommit`), which takes no lock and
may come after the answer is settled. A Harness may run on after a terminal event (`running` ends with `HarnessStops`
or a close), so several terminal events may follow each other on one stream.

The bridge opens (`BridgeOpen`), receives events (`BridgeDelta`, `BridgeTerminal`), ends
(`BridgeEnd`), raises (`BridgeRaise`, then `BridgeCatch` and `BridgeFail`), notices that the
client left (`BridgeLeave`, `BridgeLeft`) or is cancelled by the server (`BridgeLost`).
`ApiCrash` loses all threads and bridges at once.

A retry is modelled as the code is: `retry_message` calls `_stream_turn` without its last
argument, so the answer it committed never gets a bridge.

Abstracted: contents, citations, titles, tenants and users (`_get_conversation` admits
only the owner), event types that are not terminal. Message ids and sequence numbers
coincide, since every answer takes the next number.

### 2.2 KnowledgePublish and SearchCatalogue

A *run* is one execution of `process_version_task`, `publish_curation_task`,
`run_inference_task` or of the manual publication `publish_current_knowledge_release`.
Retries, forced rebuilds and redeliveries of a job are further runs of the same version.
A run creates at most one release of each kind, so releases are named by their run.

| Action | Code |
|---|---|
| `SkipDone`, `Refuse`, `Start` | entry of the task up to "running" and the copy of the space's entities |
| `Split` | chunks and facts copied and superseded, first commit |
| `Stage` | new chunks committed as staged, profile written into `parse_summary` |
| `Govern` | entities created or revived as staged, facts published, pending entities listed |
| `BuildGraph`, `CommitGraph`, `PickGraph` | `publish_graph_snapshot` under its lock, the commit of the step, or the latest graph |
| `BuildIndex`, `PickIndex`, `PickPair` | `publish_index_snapshot` under its lock, with the OpenSearch index of the release before if the run does not build full text (`TakenOver`), or the latest index, or both latest |
| `ReadCurrent`, `ReadNumber`, `Finish`, `FinishWithoutIndex` | `activate_knowledge_release` and the commit that publishes the rows |
| `End` | duplicate scan and automatic inference after that commit |
| `Fail`, `Conflict`, `NoModel` | the except clauses: rollback, graph withdrawn, rows restored |
| `Die` | the worker is killed: only the open transaction is undone |

Data is abstracted to what the publication tells apart: chunks of a version have one
status, the facts of a version are published or not and hang on the entities found in
it, targets are the four of the code: *fulltext* and *vector*, the two channels of an index, *graph* and
*writing_graph*, which publishes nothing here but takes the run through the same steps.
A graph records the versions and entities it contains, an index the channels its run built and the versions
readers find in each.

`SearchCatalogue` is what readers are promised of the text: versions that completed full
text are *live*, a switch of the release shows all of them, and a failure after a
switch takes nothing from readers. `KnowledgePublish` is checked to implement it with
`live` the versions whose `parse_summary` lists full text and `shown` the versions in the
OpenSearch index of the current knowledge release. Of vectors less holds: a release that built them holds all of them
(`VectorsWhole`), but a run of full text alone releases an index without any (section 3).

### 2.3 HarnessRuntime

Both tables of the bridge are keyed by the session, so one session is modelled: `sessions` and
`closing` are its entries. `harness` lists every `DeepSeekHarness` constructed, with the state
of its current client (`close`), the child process, the memoized handshake (`init`) and `behind`,
how many processes it started anew beside one that still lived. A turn request walks through the
awaits of `runTurn`: the closing table (`Arrive`, `TableFree`), the model configuration
(`ModelAnswers`, `ModelFails`), the entry (`Reuse`, `CloseStale`, `Open`), `start` and its
cleanup (`Handshake`, `HandshakeFails`, `Cleaned`), `run` (`Accepted`, `PromptFails`, `RunRejected`,
`Idle`) and the catch and finally clauses (`Caught`, `Evicted`). What it hears of the agent goes
through `normalizeEvent` (`HearStart`, `HearResult`, `HearText`, `HearEnd`). `proven` is a history of
the tools that really succeeded in the agent's current turn; `AnswersAreEvidenced` compares the bridge's own
account with it.

The pipe is in order and drained before a run is rejected, so an event is emitted and handled
in one step. The close ladder ends with the process (`Reap`) or, once, with a process that outlives
SIGKILL (`OutlivesKill`).

### 2.4 AgentLoop and ToolCalls

`phase`, `inbox` and `pc` are the fields of the agent and the place its driver waits at. An
action is what runs between two awaits, or up to an event whose listeners may call back. A waking send
before its `wakeDriver`, and a clear before its second splice and before it drops the latch and aborts, leave a frame on
the stack `calls`; what listeners do in between is over, last in first out, before `Wake` or `GoOnClearing` goes on,
and the driver takes no step meanwhile but the first, synchronous part of one that a listener started. The idle
transition and the look at the latch behind it are two steps as well (`replay`). Not cut are the events of a claim,
of `step/start` with its messages, and a splice between its log event and its mutation. `openTurn`, `openStep` and `account` stand for
the log: the account is what `foldConsumedWork` computes from it, folded as the events are appended.
`fate` and `sent` remember, for the properties, what became of each input and what the agent was
doing when it came.

`ToolCalls` models `executeToolCalls` and `runGroup` for one message: `slot` is what became of each
call, `at` where the scheduler waits, `stop` the flag it samples from the signal. The
classification of a call is chosen anew whenever the code reads it (`OpenGroup`, `StopFilling`).
Its signal is the variable `aborted`, which `AgentLoop` substitutes by `phase.abort # "live"`;
alone, it may be aborted in every await.

### 2.5 SessionLog, WriteBehind and DurableLog

One session id. A *life* is a Session object of that id; lives follow one another by creation or by
resume, and a late one may collide with an earlier one that still drains. `chain` is the
coordinator's queue of serialized operations, whose head works on the file in steps a crash or a
storage fault can hit (`CutTail`, `WriteBatch`, `Fault`, `Crash`). `disk.log` are whole events,
`disk.tail` what can be decoded of a torn compressed frame. `WriteBehind` holds the controller's
methods as functions from its fields to its fields. Readers run `prepare`, `load` and `inspect`
through `preparations` (`Join`, `Read`, `Reserve`, `Commit`, `Publish`, `Release`, `Check`). An event is
its kind and the life that appended it, because crash repair, which is an operator here
(`InterruptedTurnClosers`), looks at kinds, and its own closers must be told from a session's events.

`DurableLog` is what is left of it for somebody who relies on persistence: a log, whether a session owns the id, and
the log that was last reported durable. Events become durable in the owner's order (`Store`); without an owner only crash
repair adds to the log, and leaves it balanced (`Repair`); who claims the id continues the log (`Claim`); a crash may leave a
part of what was being written (`Crash`). The chain, the controllers, the preparations, failures and retries are gone. `SessionLog`
implements it (`ImplementsDurableLog`): its log is `disk.log`, its owner `states.owner`, its `bound` the flag `states.made`.

### 2.6 SourceIntake

One source that keeps its title and file name. `status` is the column of a job's row, `broker` holds the
jobs whose message waits for a worker and `at` is how far a task has got: a task stops where it commits,
calls the object store or sends a message, since another task, a request or a death can come there.
`digest`, `document`, `number` and `child` are the local variables of a sync, `subject` the version of
a parse job and `sawRows` whether its query found elements. A version is its document and its digest, which
`uq_document_content` makes a key; `numberOf` is its number, 0 until the transaction that inserts it commits.

| Action | Code |
|---|---|
| `BeatLook`, `BeatInsert`, `BeatSend`, `BeatSendFails`, `BeatDies` | `schedule_due_sources` |
| `RequestSync`, `RetrySync`, `RetryParse`, `ApiSend`, `ApiSendFails`, `ApiDies` | `sync_source`, `retry_job` and `_dispatch_job` |
| `Upload`, `UploadRefused`, `UploadCommit` | `upload_document` with a `document_id` |
| `SyncStart`, `SyncLook`, `SyncReparse`, `SyncInsert`, `SyncPut`, `SyncCommit`, `SyncSend`, `SyncFinish` | `sync_source_task`; unchanged content goes from `look` to the end |
| `SyncRefused`, `SyncFails`, `SyncCommitFails`, `SyncUndo`, `SyncDispatchFails`, `SyncResendFails` | its except clauses: the rollback, then the deletion of the stored file |
| `ParseStart`, `ParseRead`, `ParsePersist`, `ParseDone`, `ParseRequest`, `ParseSend` | `parse_version_task` up to the request for knowledge processing |
| `ParseRefused`, `ParseFails`, `ParseSendFails` | its except clauses, which fail the version even when it is parsed |
| `WorkerDies`, `Acked` | `task_acks_late`: the message comes back, also after the task's last commit |

An insert waits for open transactions that hold one of its keys (`Blocked`) and fails on committed ones
(`Taken`). Rows of jobs that are over are used again (`NewSync`, `NewParse`); the row of a failed job that
is used again can no longer be retried. A `delay` that raises has not sent its message.

## 3. Checks

Runs that pass:

| Run | Instance | Properties | What it shows |
|---|---|---|---|
| `conversation_streams` | 2 threads, of which one sends and clears, the other retries, cancels, reads and deletes; 1 answer and 1 retry of it, 1 clear, 1 loss | `StatusJustified`, `SettledKeepsNoCredential`, `StreamKeepsSettled`, `ClearedStaysCleared`, `StreamedTurnSettles`, `ConversationFreed` | no interleaving of two requests and the stream contradicts the event log, leaves a settled answer a credential committed before, or brings a cleared answer back; no event read from the stream and no client that leaves rewrites a settled answer (the `turn_failed` of the except clause is left out, see below); a turn whose stream is not lost settles its answer, and reading frees a busy conversation otherwise |
| `publish_documents` | a document for every target and one for vectors and graph, which may fail, one may be killed, and a curation | `KnowledgeKeepsItsGraph`, `OnePublishedKnowledge`, `UnfinishedStaysOut`, `VectorsWhole`, `ImplementsCatalogue`, `RunsEnd` | concurrent publications neither lose the text of a document nor show text or facts of an unfinished one or a part of the vectors, switch one release for the other, and never wait for ever for a lock |
| `publish_mixed` | of one version a forced run for the writing graph that may be killed, a run for every target, one for vectors alone, and the manual publication | `ReleaseNumbersUnique`, `CompletionFollowsProjection` | the paths without the index lock keep numbers unique, and retries never complete a target that was not published |
| `agent_loop` | 2 inputs, 1 further context, 1 tool call, 1 retried request | `TypeOK`, `LateWakesOpenATurn`, `WorkAccountedFor`, `TeardownEnds`, `WakesAreAnswered` | whatever the moment an input, a cancellation, a maintenance job or a disposal comes, from listeners too, no work is lost, teardown ends, and no wake is lost but those listed below as parked |
| `tool_calls` | up to 4 calls, pool of 2, abort in any await | `ResultsInModelOrder`, `NothingRunsOn`, `BarriersRunAlone`, `StartedIsCommitted`, `AbortStartsNothing`, `BatchEnds` | one result per call in the model's order, also after an abort; barriers alone; nothing runs on behind a failed step |
| `session_log` | 2 lives of 2 events, 1 reader, 1 crash, reload, eviction or storage fault; line and frame files | `AckedSurvives`, `QueueContinuesLog`, `ImplementsDurableLog`, `FlushIsDurable`, `ResumeContinues`, `RepairsOnlyCold` | what was reported durable stays, in order, through crash, repair, resume and reload; the coordinator is a durable log |
| `session_settles` | 2 lives of 1 event, 2 readers, 1 storage fault | `LoadsAreDurable`, `EverythingSettles` | loads are balanced and durable; nobody waits for ever on chain, barrier, retirement or reservation |
| `source_intake` | 3 contents of which the source serves 2, 2 documents, 2 syncs, 2 parses, 2 workers, 1 upload, 1 edit, request, failure or death | `BusyIsBacked`, `NumbersWithoutGap`, `ContentSettles` | versions are numbered without a gap, no version or job stays busy for nobody, and what the source serves gets parsed, save for the two accidents below |
| `harness_runtime` | 2 turns, 1 cancellation, 1 change of the model, 1 fault | `HarnessIsExclusive`, `FailedClientsAreEvicted`, `AnswersAreEvidenced`, `RequestsEnd` | requests that race through the awaits of the bridge never share a Harness, never meet a dead client again, and all are answered |

Runs that end in a counterexample state what a comment or a document of the repository
says and the code does not do; each is a finding in `PROJECT.json`:

| Run | Property | In short |
|---|---|---|
| `conversation_generating` | `GenerationEnds` | a retried answer generates for ever |
| `publish_tramples` | `FailureSparesOthers` | a failed run deletes entities others published |
| `session_flush` | `FlushRetries` | the retirement of a colliding session hides the one that still drains; a reader's reservation then refuses its last write |

**Known not to hold.** The same models show these further behaviours, which no run checks:

* a failure projected from a stale read overwrites a cancellation
  (`apps/api/conversations.py:1004`; the comment at 666 promises the opposite);
* `cancel_generation` selects the answer before the lock, so a completion committed in between
  is rewritten to cancelled (`apps/api/conversations.py:1067`);
* a terminal event that arrives late sets a deleted conversation active, whose tools can then obtain a
  credential again (`apps/api/conversations.py:696`);
* a credential request that was checked before the terminal event, or that a Harness sends which runs on after it, is
  committed after the revocation and stays usable until it expires (`apps/api/agent_internal.py:329`, without a lock and
  without a look at the answer; the comment at 345 promises that the terminal event revokes every active credential);
* a terminal event revokes the credentials of the whole conversation, also those of a later turn
  that still generates (`apps/api/conversations.py:698`);
* a run that builds no graph adopts the provisional graph of another run, which then fails
  (`apps/worker/tasks.py:2649`; the comment at 2884 says what should not happen);
* a curation publication that fails at its index leaves its graph the latest (`apps/worker/tasks.py:3055`);
* a run lists as pending every entity that appeared in the space since it started, so the staged
  entities of another run enter its graph (`apps/worker/tasks.py:2616`), although
  `docs/KNOWLEDGE_PROCESSING_PERFORMANCE.md:91` keeps unfinished versions out of index and graph: of graphs,
  `UnfinishedStaysOut` only speaks of the facts;
* a run of full text alone releases an index without a Qdrant collection (`packages/platform/index_release.py:38`), and readers
  lose the vectors of every version that had completed them, although `docs/KNOWLEDGE_PROCESSING_PERFORMANCE.md:34` says
  that completed targets are not deleted when another mode is chosen. `VectorsWhole` therefore speaks of
  releases that built vectors, and `ImplementsCatalogue` of full text, which every release builds or takes over;
* a run of a version that is completed already supersedes its chunks until its last commit (`apps/worker/tasks.py:1916`), so another
  run's index misses the version meanwhile;
* a run that fails after it began and before it copied the version's chunks supersedes them all,
  although an earlier run completed the version (`apps/worker/tasks.py:2907`);
* a failure after the final commit undoes the version's rows though its release stays active
  (`apps/worker/tasks.py:2843`);
* the manual publication and graph-only runs switch the knowledge release without the lock, so two
  releases can stay published (`apps/api/routes.py:4694`); readers take the one with the highest number.
  `OnePublishedKnowledge` therefore needs runs that build an index;
* a crash between the commit of a sync job and its `delay` leaves it queued, and every later sync of the
  source is refused or skipped because of it (`apps/api/routes.py:1578`, `apps/worker/tasks.py:3150`); `ContentSettles`
  excepts it as `Stranded`. A job left running by the death of a single pool process, which
  Celery acknowledges unless `task_reject_on_worker_lost` is set, does the same; only the death of the
  whole worker is modelled;
* a sync that fails to commit deletes the file under a key that another sync of the same content may have
  committed meanwhile (`apps/worker/tasks.py:1370`); excepted as `FileLost`;
* two parses of one version clash on its elements or on the key of its knowledge job, and the loser marks the version
  failed although it is parsed (`apps/worker/tasks.py:971`; the comment at 929 says that parsing is already
  valid then); the next sync parses it again;
* a second parse sets the version back to processing, and a knowledge job that starts then fails for good
  (`apps/worker/tasks.py:1749`), because its key exists and is not asked for again;
* parsing sets `current_version_id` unconditionally, and a source that returns to an earlier content
  is unchanged to the sync, so the current version may be an older one (`apps/worker/tasks.py:855`);
* the scheduler and a request, which lock nothing in common, can start two syncs of one source, which insert
  its first document twice;
* two turns that wait for the Harness of an old model to close both create a new one; the first of them is
  overwritten in the table, never closed, and invisible to the 409 check and to a cancellation, and a
  change of the model closes a Harness whose turn still runs (`runtime.js:98`);
* `disposeSession` joins a close that is under way for the session whichever Harness it closes, and
  never closes its own entry (`runtime.js:135`);
* a run that ends without a turn of the agent is told completed without a look at its evidence
  (`runtime.js:418`), which is why `AnswersAreEvidenced` speaks of turns the agent ended;
* after a cancellation that keeps the inbox, a disposal cannot replace the first cause, so a later input
  starts a driver the disposal waits for (`core/agent-loop/src/agent.ts:181`);
* a turn without messages leaves its driver at once, though input was parked meanwhile; it waits for
  the next wake (`core/agent-loop/src/agent.ts:281`);
* waking input that comes between the driver's last look at the inbox (`core/agent-loop/src/agent.ts:331`) and its
  idle transition (226) finds a live driver, which the comment at 183 says claims it, but which never looks again: it
  waits for the next wake. `WakesAreAnswered` excepts it as "leaving";
* `cancel` emits the discards of its clear before it drops the latch and aborts (`core/agent-loop/src/agent.ts:142`):
  waking input that a listener of them sends loses the wake it latched, or is aimed at an activity that is aborted
  right after, and is parked. Both properties of wakes except it as "clearing"; what a listener of a `send` does is not
  excepted, the classification captured before the insertion (comment at 122) holds against it;
* a failed sync of the directory after a new log was linked makes every retry refuse the log as
  foreign (`session/session-persistence-jsonl/src/index.ts:545`), and a failed initial append is never
  retried (`session/session-persistence/src/coordinator.ts:1241`): the session stays unwritable until
  a restart;
* a session that a reloaded plugin adopts before it has a file, and whose initial append then fails, counts as
  abandoned once its controller is idle (`session/session-persistence/src/coordinator.ts:1343`): another session
  may take the id and be resumed later, and what the first one had accepted is in no log. The comment at 1306 calls
  the id truly abandoned, so `ResumeContinues` excepts such a session; three lives show it, two do not.

**Bounds.** `MaxMessages`, `MaxSessions` and `MaxLosses` cap the answers, the clears and the
lost streams of a conversation; they appear in the guards of `SendLoad`, `SendCommit`, `RetryLoad`,
`RetryCommit`, `ClearLoad`, `ClearCommit`, `BridgeLost` and `ApiCrash`; one answer may be retried
beyond `MaxMessages`. An answer and its retry are enough for a late turn to meet its successor, two
threads for a request to be overtaken by another; a third of either only repeats these meetings,
since all requests of one kind behave alike. Each operation of one thread meets each of the other; that two of the same
thread overtake each other, two sends for instance, of which the constraint rejects one, is left to the theorems. What a second stream does beside the first is left to
the theorems, which hold for every number of answers. In
`KnowledgePublish` the set of runs is finite and each runs once, which bounds everything.
Two documents that share an entity are the smallest space in which one run sees another's
rows; curation and the manual publication each add one run with another path to
the switch. One document without full text makes an index take over the other's, in both orders, and a text-less release precede
the first text. Three runs of one version let one be skipped because another completed it, one pick another's graph,
and a forced one, which locks no index unless it adds a channel completed meanwhile, switch beside the others. `publish_mixed` leaves out of TLC's comparison of states what a run that is over
had remembered (`Remembered`), which nobody reads any more. No instance has an inference run, which only publishes a graph
as the others do; the theorems of section 4 cover it, as they hold for every kind of run.

In `AgentLoop`, `MaxNested` bounds how many sends and clears wait for each other's listeners: two let a clear
meet a send of its own listener, and the other way round. `MaxSteps` bounds the steps of a turn that call tools and `MaxRetries` the failed
requests of a step; turns are bounded by the inputs. Two inputs let one be claimed while the other
arrives at any later moment. `MaxCalls` and `MaxParallel` bound the batch: four calls in a pool of two
are the smallest with a full pool, a barrier behind it and calls that are never started.
In `SessionLog`, `Lives`, `MaxEvents`, `MaxReads` and `MaxIncidents` bound the Session objects, the
events each appends, the calls of readers and the faults. Two lives are needed for a resume or a
collision; one incident at a time can hit every step of every operation. Two events let a batch be split by
a crash and followed by another. In `HarnessRuntime`, `MaxFaults`, `MaxChanges` and `MaxRounds` bound the
failures, the changes of the model and the turns the agent begins; the second of two turns meets whatever the first
left in the tables, and one of the requests may be a cancellation.

In `SourceIntake`, `MaxIncidents` bounds the uploads and, apart from them, the sum of edits, requested syncs, failures and deaths;
`Room` keeps a row for every parse job a sync may still make. Two syncs are enough to race each other, since a
third meets the same keys; a third content, which is only uploaded, is needed for two different new versions of one document.
One failure can hit any step of any task; the sets of retries it allows are free.

`TypeOK` of `Conversation`, `KnowledgePublish`, `SourceIntake` and `HarnessRuntime` is not among the properties of the runs, because section 4
proves it for all instances.

**Deadlock** checking is off where a run of the model really ends: when the bounds are
used up nobody needs to act on a conversation, and when all runs are final nothing is left. A sync job that was never sent really stops the intake of its source.

**Fairness.** `StreamSpec` assumes that a stream that is not lost goes on: the HTTP timeout
`agent_request_timeout_seconds` (`apps/api/conversations.py:926`) ends a read that stays silent. Nothing bounds a turn
that keeps sending, neither the API nor the bridge has a deadline for it, so that a turn's events come to an end is an
assumption about the agent. `FairSpec` of `Conversation`
adds that a request being served ends, that time passes, and that somebody keeps opening
the conversation, the only thing that triggers reconciliation. In `KnowledgePublish` a worker that is
not killed goes on (weak fairness of `Advance`); a lock is requested at most once by each run, so
no stronger assumption about the order in which the database grants locks is needed.

`ToolCalls`, `AgentLoop` and `SessionLog` assume that the event loop runs every continuation whose
promise is settled, that timers fire, that hooks, model requests, tool bodies and storage answer in
one way or another, that listeners return, and that who holds a preparation publishes or disposes it. Nothing is assumed of
callers: nobody has to send, cancel, dispose, read or reload; `TeardownEnds` and `WakesAreAnswered` only speak of
callers that do not start maintenance for ever (`MaintenanceCeases`): a listener of `agent/status` that starts a job at
each idle transition keeps the latch waiting, and `whenIdle` too. In `HarnessRuntime` the close
ladder ends a process or gives up, and the agent ends its turn; the bridge puts no deadline on a turn,
so this last assumption is the agent's promise (`AgentLoop`), not the bridge's.

`FairSpec` of `SourceIntake` assumes that beat fires when a period is over, that a worker takes every message in the end
(strong fairness: a process may be free only now and then), and that a task and a request go on unless
they fail. Nobody has to request, retry or upload anything.

## 4. Proofs

TLC checks small instances; the theorems hold for every value of the constants that satisfies the
assumptions named in the modules (finite sets where the code has them, bounds that are natural numbers) and,
where it is said, for a further hypothesis. Most safety properties are not inductive as they stand. Each
proof module therefore defines the invariant that is, as a conjunction of named parts, proves that the
initial states have it and that every action keeps it, one lemma per action or family of actions, and reads the properties off.

### 4.1 Conversations

`ConversationProofs`, for every number of answers, sessions and losses, every set of threads and of operations:

* `TypeCorrect`: `TypeOK`;
* `StatusAlwaysJustified`: `StatusJustified`. It is inductive, because each writer of a
  final status adds the event that gives it (lemma `ProjectEffect`);
* `SettledNeverKeepsCredential`: `SettledKeepsNoCredential`. Inductive too: whoever gives an answer a final status
  revokes the credentials in the same transaction. It says nothing of a credential committed afterwards (`late`);
* `StreamAlwaysKeepsSettled` and `ClearedAlwaysStaysCleared`: the action properties `StreamKeepsSettled` and
  `ClearedStaysCleared`. The second needs that an answer whose row is gone has no event either
  (`AbsentUnlogged`), since it also says that no late event is logged for one.

### 4.2 Publication

`KnowledgePublishProofs`, for every finite set of runs, whatever their kinds, targets and
failures, and all versions and entities:

* `TypeCorrect`: `TypeOK`;
* `NumbersAlwaysUnique`: `ReleaseNumbersUnique`. A number is chosen in one step and
  committed in a later one, so the invariant `Numbered` says what holds in between: a graph or index
  under construction belongs to the holder of the lock and its number lies above the committed ones; a
  knowledge release is committed by the last commit of its run only, and a run supersedes nothing
  that is not committed. For knowledge releases the unique constraint (`NumberTaken`) does the rest;

and under the hypothesis `EachSearches` (every document run builds a channel of the index and
nobody pairs snapshots by hand, as in the run `publish_documents`):

* `OneKnowledgeAlwaysPublished`: `OnePublishedKnowledge`, because the index lock is held
  from the index to the switch, and what a run read as published is still all that is (`Switching`);
* `KnowledgeAlwaysKeepsItsGraph`: `KnowledgeKeepsItsGraph`, if every document run builds a graph too (`EachBuildsAll`),
  because each release then points at its own run's graph, which the run withdraws only if it did not reach the
  switch (`GraphKeeping`).

Its second half continues with what the snapshots contain:

* `CompletionAlwaysFollows`: `CompletionFollowsProjection`, for all runs. Since a run writes back a summary it copied
  when it began, what holds of the row must hold of the copies too (`Remembered`), and `Owning` follows what a run has
  built from there to its last commit;
* `UnfinishedAlwaysStaysOut`: `UnfinishedStaysOut`, under `DocumentsAreSearchable` (every document run builds a channel
  of the index). A run that only publishes a graph makes its rows visible and may still fail afterwards. What an index
  takes over is followed through every release it may come from (`StayingOut`);
* `FullTextImplementsCatalogue`: every behaviour implements `SearchCatalogue`, initial state and step by step, under
  `EachSearches` and `OneRunPerVersion`, whichever channels each run builds, and therefore `NoTextLostToReaders`. The
  simulation needs that the latest index holds what is live and that the release readers see points at it, that an index
  under construction holds what was live when it was built or takes it over, and that under the index lock
  nothing becomes live behind its back (`Catalogued`);
* `VectorsAlwaysWhole`: `VectorsWhole`, under the same hypotheses.

The hypotheses cannot be dropped. The behaviours known not to hold of section 3
show what runs without an index do; and of two runs of one version, which is how a version gets its channels one after the
other, the second supersedes the chunks that the first has completed, and an index that a third run builds meanwhile lacks
the version, without any failure. So what is proved of several runs is that each document's only run, whatever channels it
asks for, is safe beside those of other documents; that a later run of the same document is, is not claimed.

### 4.3 Intake

`SourceIntakeProofs`, for every number of contents, documents, jobs and incidents:

* `TypeCorrect`: `TypeOK`. It needs what a sync has fetched and made at each of its steps (`SyncKnows`), what
  scheduler and request still have to send (`MakersHold`), that a parse which is waited for, worked on or
  retried has a subject (`SubjectKnown`), and that one party at most is about to send a job, which
  nobody works on yet (`OneSender`, `UnsentIdle`);
* `BusyIsBackedCorrect`: `BusyIsBacked`. What keeps a version processing is a parse in front of its commit
  (`ProcessingIsParsed`);
* `NumbersCorrect`: `NumbersWithoutGap`. A transaction computes a number and commits it later; until then the
  number's predecessor is committed (`NumberFollows`), and its keys are neither taken nor held by another transaction (`KeysHeld`).

### 4.4 The bridge

`HarnessRuntimeProofs`, for every number of requests, models, tools, faults and turns of the agent: `TypeCorrect`,
`ExclusiveCorrect` (`HarnessIsExclusive`), `EvictedCorrect` (`FailedClientsAreEvicted`) and `EvidenceCorrect`
(`AnswersAreEvidenced`). The invariant adds that a turn which drives a Harness has marked it running (`DrivingRuns`), that a close
which succeeded left no process (`ClosedIsGone`), that the table holds no client that failed to start (`TableIsFresh`), and that
what the bridge believes to have heard of a tool happened in this turn (`HeardIsProven`).

### 4.5 Tool calls and the driver

`ToolCallsProofs`, for every size of a batch and of the pool, and every classification of the calls:

* `AlwaysInModelOrder`, `NeverRunsOn`, `BarriersAlwaysAlone`, `StartedAlwaysCommitted`: the invariants
  `ResultsInModelOrder`, `NothingRunsOn`, `BarriersRunAlone` and `StartedIsCommitted`;
* `AbortNeverStarts`: the action property `AbortStartsNothing`.

None of them is inductive alone. `Inv` adds where the group lies in the batch (`GroupInv`), that the log
holds the results of exactly the calls that are done (`LogInv`), what the calls before, in and behind
the started part may be doing (`SlotInv`), that the pool holds what is at work and that a failure is seen
before the pool is left (`PoolInv`), and that an abort is seen before the next call is started
(`SignalInv`). The heart of it is one conjunct of `PoolInv`: while the pool is filled, a call that
has landed is still in the pool unless an earlier one lacks its result. An empty pool therefore means that all
results are in the log (lemma `EmptyPoolIsCommitted`), which is why `runGroup` may return. `SignalKeeps`,
`NoCallsInv` and `ForgetKeeps` say what a change of the signal and the end of a step leave of `Inv`.

`AgentLoopProofs`, for every set of messages and every bound on steps, retries, nested calls, tool calls and the pool, proves `TypeCorrect`,
`LateWakesCorrect` (`LateWakesOpenATurn`), `WorkCorrect` (`WorkAccountedFor`) and `ToolsStayInTheirStep`: the properties
of the scheduler hold inside the driver, whose cancellations abort the signal at any await, and no body runs outside a step.
Its invariant is `LoopInv` together with `P!Inv`, the scheduler's own invariant, which `ToolCallsProofs` provides for the
driver's signal. `LateWakesOpenATurn` speaks of a settled agent only; `OwedInv` follows the wake a late message is owed from the send that waits for its listeners
to the latch, its replay and the driver it starts, and `ClearInv` says that a clear which waits for listeners has yet to discard
the message, so that no late message is left when the latch is dropped. `WorkAccountedFor` speaks of the time between turns only; `AccountInv` says what covers a
message inside one.

### 4.6 Session persistence

`SessionLogProofs`, for every number of lives, readers, events, reads and incidents, and both codecs:

* `TypeCorrect`: `TypeOK`, with the cursor inside the log;
* `AckedAlwaysSurvives`: `AckedSurvives`;
* `QueueAlwaysContinues`: `QueueContinuesLog`.

One invariant, `Inv`, carries all three. `ChainInv` says that each operation in the chain stands for work in the state it was
queued in, and that no life and no reader has two of them, which is why the head can be looked up again when its storage work is
over. `LivesInv` says that what a controller holds are the last events of its session, and that nothing is missing between its
seed or the file and them; `JobInv` that an append in progress takes the cursor past everything not queued behind its batch;
`DiskInv` that what was reported durable begins the file's whole events and that only a torn file has a tail; `PluginInv` that a
plugin being disposed has no callers. That a failed batch goes back in front of what came since, and one that landed leaves, are
lemmas about the controllers (`FailedHolds`, `LandedHolds`, `EnqueueHolds`).

`Inv` compares lengths and numbers. `SessionContentProofs` proves, for the same constants, what the events are:

* `LoadsAlwaysDurable`, `FlushAlwaysDurable`, `ResumeAlwaysContinues` and `RepairsAlwaysCold`: `LoadsAreDurable` and the
  action properties `FlushIsDurable`, `ResumeContinues` and `RepairsOnlyCold`;
* `LogOnlyGrows`: whatever happens, a whole event of the file stays where it is; `StoredIsOwners`: the file is the beginning of
  its owner's log;
* `SessionImplementsDurableLog`: `ImplementsDurableLog`. The initial states map to the initial one, and each step to a step of
  `DurableLog` or to a stutter: `OnCreated` and `Publish` claim (`LifeClaims`), `WriteBatch` stores or repairs (`WriteDurable`),
  `Appended` and `CommitRepaired` report, `Retire`, `Unloaded` and a refused adoption forget, and all that moves only chain,
  controllers, readers and entries stutters (`QuietDurable`). A repair works in two steps, and between them the file is neither
  what it was nor balanced: `RepairsLeaveBalanced` carries the rest of the source over the truncation (`Closing`);
* `RepairConverges`, of the operator `InterruptedTurnClosers` and every log: the closers end what was open, and
  the closed log needs none.

Its invariant is `Content`, on top of `Inv`. The parts, and what each is needed for:

* `FileInv`, `OwnerInv`: the file begins its owner's log, the cursor is its length, and a torn file is nobody's. A
  file that belonged to somebody else could not be told from the own one by its length;
* `BatchInv`: the batch in progress is the owner's log behind the cursor, or a repair of an id that is not tracked.
  A crash may leave any part of it, and the part must continue the file (`RemainsLeft`, `AppendContinues`);
* `ContentInv`: an event a session answers for is in the file at its place, in its queue, or of the seed that is still to be
  written (`Safe`); a session with work owns the id (`Owns`). Hence an idle controller means a durable log (`AllStored`, `Flushed`);
* `BornInv`, `OrderInv`: lives are initialized in the order they were born, a retirement is queued behind its flush, and one
  read at most is under way for the current entry. Without this order, a later session could adopt a file that an earlier one still writes;
* `ColdInv`: while an id has an entry in `preparations`, it is not open, not about to be initialized and not retiring. This is what
  makes a repair cold;
* `EntryInv`, `CallInv`: a source is what the file was when it was read, and its closers. One caller at most holds the
  entry, a caller that lost it knows less than the file holds, so that its commit is refused as stale, and a load of a live session
  waits for the flush that covers it.

That a session which left without work leaves nothing behind holds of initialized ones only, hence the exception of
`ResumeContinues` named in section 3.

### 4.7 What only TLC checks

The liveness properties of all modules and the absence of deadlocks: both are outside what the prover handles. Every invariant, every
action property and every refinement the passing runs check is proved. Where no run checks `TypeOK` it is
proved all the same (`TypeCorrect` of each proof module that has one).

## 5. Plan

In order of importance; each item has its module, its instances and, where it says so, its proofs.

1. `Conversation` with proofs (done).
2. `KnowledgePublish` with `SearchCatalogue` and proofs (done).
3. `HarnessRuntime`, `ToolCalls`, `AgentLoop`, `SessionLog` with proofs (done). Left to compose: `AgentLoop`
   with `SessionLog`, whose flush is the checkpoint before the next turn.
4. `SourceIntake` with proofs (done). Left: media children of a sync, deletion, disabled sources, reprocessing, and the
   current version, once it is agreed which one that should be.
5. `Curation` and `Inference`: decisions, overrides, batches, invalidation, automatic inference and its
   locks over several spaces.
6. `ApplicationFoundation`: credentials and their rotation, product releases, alias moves.
7. `StructuredMapping` and pure operators: processing targets with their legacy protocols, model routing,
   rank fusion, checked against reference definitions over bounded inputs.
8. `Writing`: generation runs, cancellation, finalisation and input changes.

Theorems planned: types and the main safety invariant of every module above, and for modules
with an abstract specification the step simulation.

## 6. Not modelled

Text processing (parsing, splitting, extraction, prompts), the user interfaces, the command line and the
MCP server (clients without state), cryptography and audit rows; the upstream library `src/semantica`, whose
algorithms are sequential and called by the worker; and of `src/deepseek-harness` everything but the four
parts above: model providers, single tools, jobs and subagents, queries over the log, hosts and interfaces.
The physical stores are modelled by what a release contains; their own failures are the failures of the
run that calls them. Legacy summaries of versions processed before targets existed are not among the initial states.

Left out of the modules on the Harness: in `SessionLog` the public `append`, `borrowSession`, `readFrom` and
`ensureMaterialized`, abort signals of callers, checks of the working directory and version, a rollback
that fails itself and the adoption of a torn file (only a crash tears one, and no Session outlives it), a reload while a reader is active, the SQLite backend and the Windows path; in
`HarnessRuntime` the shutdown of the server, the health endpoint and the events derived from tool
results for display; in `AgentLoop` the assembly of a request and the streaming of an answer.
