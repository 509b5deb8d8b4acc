---------------------------- MODULE Conversation ----------------------------
(***************************************************************************)
(* One conversation of the knowledge assistant: its row, its answers       *)
(* (assistant messages), the terminal events logged for each answer, the   *)
(* short-lived credentials its tools hold, the SSE bridges that carry the  *)
(* Harness turns into the database and the request handlers of the API     *)
(* (apps/api/conversations.py, apps/api/agent_internal.py).                *)
(*                                                                         *)
(* A handler is split where another transaction can commit in between: the *)
(* ORM session keeps the column values it loaded (expire_on_commit=False,  *)
(* autoflush=False, no refresh on SELECT ... FOR UPDATE), so a handler     *)
(* decides on what it SAW and writes a column only if the new value        *)
(* differs from what it saw.  Everything from the row lock to the commit   *)
(* is one action.                                                          *)
(***************************************************************************)
EXTENDS Naturals, FiniteSets

CONSTANTS
  MaxMessages,  \* answers after which no more are sent (bound), only one retried
  MaxSessions,  \* Harness sessions the conversation may go through (bound)
  MaxLosses,    \* restarts of the API and lost streams (bound)
  Threads,      \* request threads of the API
  UserOps       \* operations each request thread of this instance performs

ASSUME BoundsAssumption ==
  MaxMessages \in Nat /\ MaxSessions \in Nat /\ MaxLosses \in Nat

AllOps == {"send", "retry", "cancel", "read", "delete", "clear"}

ASSUME OpsAssumption == UserOps \in [Threads -> SUBSET AllOps]

Messages == 1..(MaxMessages + 1)
Sessions == 0..MaxSessions
ConvStates == {"active", "generating", "deleted"}
Terminal == {"completed", "failed", "cancelled"}
MessageStates == {"absent", "generating"} \cup Terminal

\* Phases of _stream_turn for one answer.
BridgePhases == {"none", "opening", "streaming", "ending", "leaving",
                 "raised", "failing", "closed"}
Reading == {"streaming", "ending"}

\* Where a request thread stands: the operation and how far it has got.
ThreadSteps == {"idle", "send", "retry", "cancel", "cancelling", "closing",
                "read", "reading", "delete", "clear"}

\* A credential is "held" if it was committed before the answer was settled,
\* "late" if after.
Credentials == {"none", "held", "late"}

\* The step, and the columns and the answer the handler has read.
ThreadStates == [step : ThreadSteps, conv : ConvStates,
                 sess : Sessions, msg : 0..(MaxMessages + 1)]

VARIABLES
  conv,      \* conversations.status
  session,   \* conversations.harness_session_id, numbered
  deleted,   \* conversations.deleted_at is set
  created,   \* answers created so far: ids and sequence order coincide
  status,    \* conversation_messages.status of each answer ("absent": no row)
  quiet,     \* updated_at is older than the stale limit
  logged,    \* terminal events in agent_event_projections, per answer
  cred,      \* credential of the turn's tools that is neither revoked nor expired
  issuing,   \* a credential request of the turn is checked and not committed
  bridge,    \* phase of the answer's SSE bridge
  seen,      \* status the bridge has read and will project its own failure on
  sess,      \* Harness session the answer's turn was posted to
  running,   \* the Harness executes the turn
  thread,    \* request threads
  losses     \* restarts so far

vars == <<conv, session, deleted, created, status, quiet, logged, cred, issuing,
          bridge, seen, sess, running, thread, losses>>

row == <<conv, session, deleted>>
msgs == <<created, status, quiet>>
creds == <<cred, issuing>>
turn == <<bridge, seen, sess, running>>

Idle == [step |-> "idle", conv |-> "active", sess |-> 0, msg |-> 0]

TypeOK ==
  /\ conv \in ConvStates
  /\ session \in Sessions
  /\ deleted \in BOOLEAN
  /\ created \in 0..(MaxMessages + 1)
  /\ status \in [Messages -> MessageStates]
  /\ quiet \in [Messages -> BOOLEAN]
  /\ logged \in [Messages -> SUBSET Terminal]
  /\ cred \in [Messages -> Credentials]
  /\ issuing \in [Messages -> BOOLEAN]
  /\ bridge \in [Messages -> BridgePhases]
  /\ seen \in [Messages -> MessageStates]
  /\ sess \in [Messages -> Sessions]
  /\ running \in [Messages -> BOOLEAN]
  /\ thread \in [Threads -> ThreadStates]
  /\ losses \in 0..MaxLosses

Init ==
  /\ conv = "active" /\ session = 0 /\ deleted = FALSE
  /\ created = 0
  /\ status = [m \in Messages |-> "absent"]
  /\ quiet = [m \in Messages |-> FALSE]
  /\ logged = [m \in Messages |-> {}]
  /\ cred = [m \in Messages |-> "none"]
  /\ issuing = [m \in Messages |-> FALSE]
  /\ bridge = [m \in Messages |-> "none"]
  /\ seen = [m \in Messages |-> "absent"]
  /\ sess = [m \in Messages |-> 0]
  /\ running = [m \in Messages |-> FALSE]
  /\ thread = [t \in Threads |-> Idle]
  /\ losses = 0

-----------------------------------------------------------------------------
(* Shared helpers of the handlers.                                          *)

\* The ORM's UPDATE: a column is written only when the new value differs from
\* the value loaded; otherwise the row keeps what another writer put there.
Written(loaded, new, current) == IF new = loaded THEN current ELSE new

\* Newest answer still generating, as the SELECTs of cancel and reconcile see it.
LatestGenerating(m) ==
  /\ m \in Messages
  /\ status[m] = "generating"
  /\ \A n \in Messages : status[n] = "generating" => n <= m

\* Mutant of Settled: the last event always wins.
SettledByLast(event, loaded) == event

\* Status an answer takes from a terminal event, given the status loaded:
\* a cancellation overrides everything but a completed answer, the others
\* only settle an answer that is not settled yet.
Settled(event, loaded) ==
  IF event = "cancelled"
  THEN IF loaded = "completed" THEN "completed" ELSE "cancelled"
  ELSE IF loaded \in Terminal THEN loaded ELSE event

\* A failure that follows a cancellation is not recorded at all.
Dropped(event, loaded) == event = "failed" /\ loaded = "cancelled"

\* Mutants of Project: an event is recorded only for an unsettled answer; the
\* credentials are left to expire.
ProjectUnlogged(m, event, loaded, convLoaded) ==
  /\ status' = [status EXCEPT ![m] = Written(loaded, Settled(event, loaded), @)]
  /\ logged' = [logged EXCEPT ![m] = IF loaded \in Terminal THEN @ ELSE @ \cup {event}]
  /\ conv' = Written(convLoaded, "active", conv)
  /\ cred' = [n \in Messages |-> "none"]
  /\ quiet' = [quiet EXCEPT ![m] = FALSE]
ProjectUnrevoked(m, event, loaded, convLoaded) ==
  /\ status' = [status EXCEPT ![m] = Written(loaded, Settled(event, loaded), @)]
  /\ logged' = [logged EXCEPT ![m] = @ \cup {event}]
  /\ conv' = Written(convLoaded, "active", conv)
  /\ quiet' = [quiet EXCEPT ![m] = FALSE]
  /\ UNCHANGED cred

\* _project_event with a terminal event, from the row lock to the commit.
\* loaded, convLoaded: what this ORM session had read of the answer and of the
\* conversation.  Every credential of the conversation is revoked; writing the
\* answer stamps its updated_at.
Project(m, event, loaded, convLoaded) ==
  /\ status' = [status EXCEPT ![m] = Written(loaded, Settled(event, loaded), @)]
  /\ logged' = [logged EXCEPT ![m] = @ \cup {event}]
  /\ conv' = Written(convLoaded, "active", conv)
  /\ cred' = [n \in Messages |-> "none"]
  /\ quiet' = [quiet EXCEPT ![m] = FALSE]

Select(t, step, m) ==
  thread' = [thread EXCEPT ![t] =
    [step |-> step, conv |-> @.conv, sess |-> @.sess, msg |-> m]]
Closing(t) ==  \* only the session loaded is still needed
  thread' = [thread EXCEPT ![t] = [Idle EXCEPT !.step = "closing", !.sess = thread[t].sess]]
Release(t) == thread' = [thread EXCEPT ![t] = Idle]

\* get_conversation in a fresh ORM session: 404 on a deleted conversation,
\* otherwise the thread remembers the columns it loaded.
Load(t, op, m) ==
  /\ op \in UserOps[t]
  /\ thread[t].step = "idle"
  /\ conv # "deleted"
  /\ thread' = [thread EXCEPT ![t] =
       [step |-> op, conv |-> conv, sess |-> session, msg |-> m]]

\* POST .../cancel to the runtime: the Harness of the session is closed and its
\* turns end.
Stopped(s) == [m \in Messages |-> running[m] /\ sess[m] # s]

\* _cancel_runtime swallows an HTTP error: then nothing happens.
CancelRuntime(s) == running' = Stopped(s) \/ UNCHANGED running

-----------------------------------------------------------------------------
(* Send and retry: an answer is created, the conversation becomes busy.     *)

\* send_message: 409 unless the conversation it loaded was not generating.
SendLoad(t) ==
  /\ created < MaxMessages
  /\ conv # "generating"
  /\ Load(t, "send", created)
  /\ UNCHANGED <<row, msgs, logged, creds, turn, losses>>

\* _create_turn_messages up to its commit; the SSE response then opens a bridge
\* towards the session that was loaded.
SendCommit(t) ==
  /\ thread[t].step = "send"
  /\ created < MaxMessages
  /\ created' = created + 1
  /\ status' = [status EXCEPT ![created + 1] = "generating"]
  /\ bridge' = [bridge EXCEPT ![created + 1] = "opening"]
  /\ sess' = [sess EXCEPT ![created + 1] = thread[t].sess]
  /\ conv' = Written(thread[t].conv, "generating", conv)
  /\ Release(t)
  /\ UNCHANGED <<session, deleted, quiet, logged, creds, seen, running, losses>>

\* Another request inserted the same (conversation, sequence) first, or the
\* question of a retry was cleared: a constraint rejects the insert
\* (IntegrityError, 500) and nothing is stored.
CreateConflict(t) ==
  /\ \/ thread[t].step \in {"send", "retry"} /\ created # thread[t].msg
     \/ thread[t].step = "retry" /\ session # thread[t].sess
  /\ Release(t)
  /\ UNCHANGED <<row, msgs, logged, creds, turn, losses>>

\* retry_message: only of a failed or cancelled answer; the conversation's own
\* status is not looked at.
RetryLoad(t) ==
  /\ created <= MaxMessages
  /\ \E m \in Messages : status[m] \in {"failed", "cancelled"}
  /\ Load(t, "retry", created)
  /\ UNCHANGED <<row, msgs, logged, creds, turn, losses>>

\* _create_retry_assistant commits, then the handler fails before it returns a
\* response: _stream_turn is called without its retrieval_settings argument, so
\* the new answer has no bridge.
RetryCommit(t) ==
  /\ thread[t].step = "retry"
  /\ session = thread[t].sess
  /\ created <= MaxMessages
  /\ created' = created + 1
  /\ status' = [status EXCEPT ![created + 1] = "generating"]
  /\ conv' = Written(thread[t].conv, "generating", conv)
  /\ Release(t)
  /\ UNCHANGED <<session, deleted, quiet, logged, creds, turn, losses>>

-----------------------------------------------------------------------------
(* Cancel, read (with reconciliation), delete, clear.                       *)

CancelLoad(t) ==
  /\ Load(t, "cancel", 0)
  /\ UNCHANGED <<row, msgs, logged, creds, turn, losses>>

\* The answer to cancel is selected before any lock is taken.
CancelSelect(t) ==
  /\ thread[t].step = "cancel"
  /\ \E m \in Messages : LatestGenerating(m) /\
       Select(t, "cancelling", m)
  /\ UNCHANGED <<row, msgs, logged, creds, turn, losses>>

\* Nothing is generating: only the conversation is set active.
CancelNothing(t) ==
  /\ thread[t].step = "cancel"
  /\ \A m \in Messages : ~LatestGenerating(m)
  /\ conv' = Written(thread[t].conv, "active", conv)
  /\ Closing(t)
  /\ UNCHANGED <<session, deleted, msgs, logged, creds, turn, losses>>

\* Mutant of CancelCommit: the answer need not exist any more.
CancelUnchecked(t) ==
  /\ thread[t].step = "cancelling"
  /\ \E m \in Messages : m = thread[t].msg /\
       Project(m, "cancelled", "generating", thread[t].conv)
  /\ Closing(t)
  /\ UNCHANGED <<session, deleted, created, issuing, turn, losses>>

\* The cancellation is projected on the answer as it was selected ("generating").
CancelCommit(t) ==
  /\ thread[t].step = "cancelling"
  /\ \E m \in Messages : m = thread[t].msg /\ status[m] # "absent" /\
       Project(m, "cancelled", "generating", thread[t].conv)
  /\ Closing(t)
  /\ UNCHANGED <<session, deleted, created, issuing, turn, losses>>

\* After the commit the runtime is told; its answer does not matter.
CancelClose(t) ==
  /\ thread[t].step = "closing"
  /\ CancelRuntime(thread[t].sess)
  /\ Release(t)
  /\ UNCHANGED <<row, msgs, logged, creds, bridge, seen, sess, losses>>

\* _conversation_payload calls _reconcile_stale_turn first.
ReadLoad(t) ==
  /\ conv = "generating"
  /\ Load(t, "read", 0)
  /\ UNCHANGED <<row, msgs, logged, creds, turn, losses>>

\* Mutant of ReadRepair: without a generating answer there is nothing to do.
ReadRepairNothing(t) ==
  /\ thread[t].step = "read"
  /\ \A m \in Messages : ~LatestGenerating(m)
  /\ Release(t)
  /\ UNCHANGED <<row, msgs, logged, creds, turn, losses>>

\* A generating conversation without a generating answer is set active at once.
ReadRepair(t) ==
  /\ thread[t].step = "read"
  /\ \A m \in Messages : ~LatestGenerating(m)
  /\ conv' = Written(thread[t].conv, "active", conv)
  /\ Release(t)
  /\ UNCHANGED <<session, deleted, msgs, logged, creds, turn, losses>>

\* A recently updated answer is left alone ...
ReadFresh(t) ==
  /\ thread[t].step = "read"
  /\ \E m \in Messages : LatestGenerating(m) /\ ~quiet[m]
  /\ Release(t)
  /\ UNCHANGED <<row, msgs, logged, creds, turn, losses>>

\* ... a stale one is selected ...
ReadStale(t) ==
  /\ thread[t].step = "read"
  /\ \E m \in Messages : LatestGenerating(m) /\ quiet[m] /\
       Select(t, "reading", m)
  /\ UNCHANGED <<row, msgs, logged, creds, turn, losses>>

\* ... and failed as AGENT_TURN_INTERRUPTED.
ReadCommit(t) ==
  /\ thread[t].step = "reading"
  /\ \E m \in Messages : m = thread[t].msg /\ status[m] # "absent" /\
       Project(m, "failed", "generating", thread[t].conv)
  /\ Release(t)
  /\ UNCHANGED <<session, deleted, created, issuing, turn, losses>>

\* The selected answer was cleared meanwhile: the event's foreign key rejects
\* the transaction.
ProjectConflict(t) ==
  /\ thread[t].step \in {"cancelling", "reading"}
  /\ \E m \in Messages : m = thread[t].msg /\ status[m] = "absent"
  /\ Release(t)
  /\ UNCHANGED <<row, msgs, logged, creds, turn, losses>>

\* delete_conversation closes the runtime session, then commits.
DeleteLoad(t) ==
  /\ Load(t, "delete", 0)
  /\ CancelRuntime(session)
  /\ UNCHANGED <<row, msgs, logged, creds, bridge, seen, sess, losses>>

DeleteCommit(t) ==
  /\ thread[t].step = "delete"
  /\ conv' = Written(thread[t].conv, "deleted", conv)
  /\ deleted' = TRUE
  /\ cred' = [m \in Messages |-> "none"]
  /\ Release(t)
  /\ UNCHANGED <<session, msgs, logged, issuing, turn, losses>>

\* clear_conversation_messages closes the runtime session, then removes every
\* answer, event and credential and gives the conversation a new session.
ClearLoad(t) ==
  /\ session + Cardinality({u \in Threads : thread[u].step = "clear"}) < MaxSessions
  /\ Load(t, "clear", 0)
  /\ CancelRuntime(session)
  /\ UNCHANGED <<row, msgs, logged, creds, bridge, seen, sess, losses>>

ClearCommit(t) ==
  /\ thread[t].step = "clear"
  /\ session < MaxSessions  \* the bound
  /\ session' = session + 1
  /\ conv' = Written(thread[t].conv, "active", conv)
  /\ status' = [m \in Messages |-> "absent"]
  /\ quiet' = [m \in Messages |-> FALSE]
  /\ logged' = [m \in Messages |-> {}]
  /\ cred' = [m \in Messages |-> "none"]
  /\ Release(t)
  /\ UNCHANGED <<deleted, created, issuing, turn, losses>>

\* An event committed between the clear's DELETE statements: the foreign key
\* from events to messages rejects the clear.
ClearConflict(t) ==
  /\ thread[t].step = "clear"
  /\ \E m \in Messages : bridge[m] \notin {"none", "closed"}
  /\ Release(t)
  /\ UNCHANGED <<row, msgs, logged, creds, turn, losses>>

-----------------------------------------------------------------------------
(* The SSE bridge (_stream_turn).  Each event of the stream is projected in  *)
(* an ORM session of its own, which reads the answer after the row lock.     *)

\* The session is still the one of a conversation that is not deleted, as the
\* internal endpoints for the runtime require.
Mapped(m) == sess[m] = session /\ conv # "deleted"

\* POST /turns is accepted and the Harness runs the turn: the runtime has got
\* the session's model from the API and runs no other turn of the session.
BridgeOpen(m) ==
  /\ bridge[m] = "opening"
  /\ Mapped(m)
  /\ \A n \in Messages : running[n] => sess[n] # sess[m]
  /\ bridge' = [bridge EXCEPT ![m] = "streaming"]
  /\ running' = [running EXCEPT ![m] = TRUE]
  /\ UNCHANGED <<row, msgs, logged, creds, seen, sess, thread, losses>>

\* Mutant of BridgeRaise: an error ends the generator without a projection.
BridgeSilent(m) ==
  /\ bridge[m] \in {"opening"} \cup Reading
  /\ bridge' = [bridge EXCEPT ![m] = "closed"]
  /\ UNCHANGED <<row, msgs, logged, creds, seen, sess, running, thread, losses>>

\* The runtime refuses the turn (409, 500), the connection breaks, or the
\* stream ends without a terminal event: the generator's except clause runs.
BridgeRaise(m) ==
  /\ bridge[m] \in {"opening"} \cup Reading
  /\ bridge' = [bridge EXCEPT ![m] = "raised"]
  /\ UNCHANGED <<row, msgs, logged, creds, seen, sess, running, thread, losses>>

\* A stream event other than a terminal one; answer_delta updates the row.
BridgeDelta(m) ==
  /\ bridge[m] = "streaming"
  /\ status[m] # "absent"
  /\ quiet' = [quiet EXCEPT ![m] = FALSE]
  /\ UNCHANGED <<row, created, status, logged, creds, turn, thread, losses>>

\* A terminal event of the stream, or a line of it that cannot be decoded and
\* counts as turn_failed.  The Harness may run on: it goes on to further turns
\* until it is idle, so any number of terminal events may follow.
BridgeTerminal(m, event) ==
  /\ bridge[m] \in Reading
  /\ status[m] # "absent"
  /\ IF Dropped(event, status[m])
     THEN UNCHANGED <<conv, status, quiet, logged, cred>>
     ELSE Project(m, event, status[m], conv)
  /\ bridge' = [bridge EXCEPT ![m] = "ending"]
  /\ UNCHANGED <<session, deleted, created, issuing, seen, sess, running, thread,
                 losses>>

\* End of a stream that delivered a terminal event: the runtime ends it when the
\* Harness is idle.  The citation repair only rewrites content and adds
\* answer_replaced / warning events.
BridgeEnd(m) ==
  /\ bridge[m] = "ending" /\ ~running[m]
  /\ bridge' = [bridge EXCEPT ![m] = "closed"]
  /\ UNCHANGED <<row, msgs, logged, creds, seen, sess, running, thread, losses>>

\* The client went away: the runtime session is closed first (an error of that
\* call is BridgeRaise) ...
BridgeLeave(m) ==
  /\ bridge[m] \in Reading
  /\ bridge' = [bridge EXCEPT ![m] = "leaving"]
  /\ running' = Stopped(sess[m])
  /\ UNCHANGED <<row, msgs, logged, creds, seen, sess, thread, losses>>

\* ... then the answer is cancelled.
BridgeLeft(m) ==
  /\ bridge[m] = "leaving"
  /\ status[m] # "absent"
  /\ Project(m, "cancelled", status[m], conv)
  /\ bridge' = [bridge EXCEPT ![m] = "closed"]
  /\ UNCHANGED <<session, deleted, created, issuing, seen, sess, running, thread,
                 losses>>

\* The except clause reads the answer without a lock; a cancelled one is left.
BridgeCatch(m) ==
  /\ bridge[m] = "raised"
  /\ IF status[m] = "cancelled"
     THEN bridge' = [bridge EXCEPT ![m] = "closed"] /\ UNCHANGED seen
     ELSE /\ seen' = [seen EXCEPT ![m] = status[m]]
          /\ bridge' = [bridge EXCEPT ![m] = "failing"]
  /\ UNCHANGED <<row, msgs, logged, creds, sess, running, thread, losses>>

\* Otherwise turn_failed is projected by the SAME ORM session: the answer is
\* the one read before the lock.
BridgeFail(m) ==
  /\ bridge[m] = "failing"
  /\ status[m] # "absent"
  /\ Project(m, "failed", seen[m], conv)
  /\ bridge' = [bridge EXCEPT ![m] = "closed"]
  /\ seen' = [seen EXCEPT ![m] = "absent"]
  /\ UNCHANGED <<session, deleted, created, issuing, sess, running, thread,
                 losses>>

\* The answer was cleared: every projection violates the foreign key, the
\* failure's too, and the generator ends with that error.
BridgeOrphan(m) ==
  /\ bridge[m] \in Reading \cup {"leaving", "failing"}
  /\ status[m] = "absent"
  /\ bridge' = [bridge EXCEPT ![m] = "closed"]
  /\ seen' = [seen EXCEPT ![m] = "absent"]
  /\ UNCHANGED <<row, msgs, logged, creds, sess, running, thread, losses>>

\* The server cancels the response task: no clause of the generator runs.
BridgeLost(m) ==
  /\ losses < MaxLosses
  /\ bridge[m] \notin {"none", "closed"}
  /\ bridge' = [bridge EXCEPT ![m] = "closed"]
  /\ losses' = losses + 1
  /\ seen' = [seen EXCEPT ![m] = "absent"]
  /\ UNCHANGED <<row, msgs, logged, creds, sess, running, thread>>

-----------------------------------------------------------------------------
(* The turn's tools, the clock, the process.                                *)

\* POST /internal/agent/credentials by a tool of a turn that was posted.  The
\* session must be mapped to a conversation that is not deleted, and nothing
\* else is looked at: the answer may be settled and the Harness gone ...
IssueCheck(m) ==
  /\ bridge[m] \notin {"none", "opening"} /\ Mapped(m)
  /\ \A n \in Messages : ~issuing[n] /\ cred[n] = "none"  \* the bound: one at a time
  /\ issuing' = [issuing EXCEPT ![m] = TRUE]
  /\ UNCHANGED <<row, msgs, logged, cred, turn, thread, losses>>

\* ... and the credential is inserted and committed whatever has happened to the
\* turn, its answer or the conversation meanwhile.
IssueCommit(m) ==
  /\ issuing[m]
  /\ issuing' = [issuing EXCEPT ![m] = FALSE]
  /\ cred' = [cred EXCEPT ![m] = IF status[m] \in Terminal THEN "late" ELSE "held"]
  /\ UNCHANGED <<row, msgs, logged, turn, thread, losses>>

CredentialExpires(m) ==
  /\ cred[m] # "none"
  /\ cred' = [cred EXCEPT ![m] = "none"]
  /\ UNCHANGED <<row, msgs, logged, issuing, turn, thread, losses>>

\* The Harness is idle or fails: nothing runs any more for the answer, whether or
\* not its stream is still read.
HarnessStops(m) ==
  /\ running[m]
  /\ running' = [running EXCEPT ![m] = FALSE]
  /\ UNCHANGED <<row, msgs, logged, creds, bridge, seen, sess, thread, losses>>

\* The stale limit passes without an update of the generating answer.
GoesQuiet(m) ==
  /\ status[m] = "generating" /\ ~quiet[m]
  /\ quiet' = [quiet EXCEPT ![m] = TRUE]
  /\ UNCHANGED <<row, created, status, logged, creds, turn, thread, losses>>

\* The API process restarts: its threads and bridges are gone, open
\* transactions roll back.
ApiCrash ==
  /\ losses < MaxLosses
  /\ losses' = losses + 1
  /\ thread' = [t \in Threads |-> Idle]
  /\ bridge' = [m \in Messages |->
                  IF bridge[m] = "none" THEN "none" ELSE "closed"]
  /\ seen' = [m \in Messages |-> "absent"]
  /\ issuing' = [m \in Messages |-> FALSE]
  /\ UNCHANGED <<row, msgs, logged, cred, sess, running>>

-----------------------------------------------------------------------------
Request(t) ==
  \/ SendLoad(t) \/ RetryLoad(t) \/ CancelLoad(t)
  \/ ReadLoad(t) \/ DeleteLoad(t) \/ ClearLoad(t)

Serve(t) ==
  \/ SendCommit(t) \/ RetryCommit(t) \/ CreateConflict(t)
  \/ CancelSelect(t) \/ CancelNothing(t) \/ CancelCommit(t) \/ CancelClose(t)
  \/ ReadRepair(t) \/ ReadFresh(t) \/ ReadStale(t) \/ ReadCommit(t)
  \/ ProjectConflict(t) \/ DeleteCommit(t) \/ ClearCommit(t) \/ ClearConflict(t)

\* What the stream does by itself, up to the end of the turn.
Stream(m) ==
  \/ BridgeOpen(m) \/ BridgeRaise(m) \/ BridgeEnd(m) \/ BridgeLeave(m)
  \/ BridgeLeft(m) \/ BridgeCatch(m) \/ BridgeFail(m) \/ BridgeOrphan(m)
  \/ \E event \in Terminal : BridgeTerminal(m, event)

Tool(m) ==
  IssueCheck(m) \/ IssueCommit(m) \/ CredentialExpires(m) \/ HarnessStops(m)

Next ==
  \/ \E t \in Threads : Request(t) \/ Serve(t)
  \/ \E m \in Messages : Stream(m) \/ BridgeDelta(m) \/ BridgeLost(m)
                         \/ Tool(m) \/ GoesQuiet(m)
  \/ ApiCrash

Spec == Init /\ [][Next]_vars

\* A stream that is not lost goes on: a silent read is ended by the HTTP timeout
\* (agent_request_timeout_seconds).  The bridge has no deadline for a turn as a
\* whole, so that the events of a turn come to an end is assumed.
StreamSpec == Spec /\ \A m \in Messages : WF_vars(Stream(m))

\* Besides, a request that is being served ends, time passes, and somebody
\* keeps opening the conversation.
Reopened ==
  /\ \A t \in Threads : WF_vars(Serve(t)) /\ SF_vars(ReadLoad(t))
  /\ \A m \in Messages : WF_vars(GoesQuiet(m))
FairSpec == StreamSpec /\ Reopened

-----------------------------------------------------------------------------
(* Safety.                                                                  *)

\* An answer shows a final status only if the event log holds the event that
\* gives it: the log and the projection are written together by every writer,
\* whatever it had read before.
StatusJustified ==
  \A m \in Messages : status[m] \in Terminal => status[m] \in logged[m]

\* "That boundary revokes every active credential for the conversation"
\* (agent_internal.py, of the terminal event): whoever settles an answer, the
\* stream, a cancellation, a reconciliation or a stale failure, its tools keep no
\* credential committed before.  They may get one afterwards, from a request that
\* was being served or while the Harness runs on.
SettledKeepsNoCredential ==
  \A m \in Messages : status[m] \in Terminal => cred[m] # "held"

\* An event read from the stream is projected on the answer as it is under the
\* lock: it never rewrites a settled answer, except that a cancellation wins
\* over a failure, and it never records a failure after a cancellation.
EventKeepsSettled(m) ==
  /\ status[m] \in Terminal =>
       \/ status'[m] = status[m]
       \/ status[m] = "failed" /\ status'[m] = "cancelled"
  /\ status[m] = "cancelled" /\ "failed" \in logged'[m] => "failed" \in logged[m]

\* Neither an event read from a stream nor the cancellation of a client that left
\* rewrites a settled answer.  The turn_failed that a stream makes up in its except
\* clause (BridgeFail) is not covered: it is decided on the answer as it was read
\* before the lock, and replaces a cancellation committed in between.
StreamKeepsSettled ==
  [][\A m \in Messages :
       (BridgeLeft(m) \/ \E event \in Terminal : BridgeTerminal(m, event))
         => EventKeepsSettled(m)]_vars

\* A cleared answer never comes back: no late event, cancellation or
\* reconciliation gives it a row or an event again.
ClearedStaysCleared ==
  [][\A m \in 1..created : status[m] = "absent" =>
       status'[m] = "absent" /\ logged'[m] = {}]_vars

-----------------------------------------------------------------------------
(* Liveness.                                                                *)

\* A turn whose stream is not lost settles its answer, without anybody
\* opening the conversation again.
StreamedTurnSettles ==
  \A m \in Messages :
    bridge[m] = "opening" ~> status[m] # "generating" \/ losses > 0

\* A conversation does not stay busy for ever: if its streams are lost, whoever
\* opens it later frees it, even when no answer is generating any more.
ConversationFreed == Reopened => (conv = "generating" ~> conv # "generating")

-----------------------------------------------------------------------------
(* What the repository says of the program and the code does not do.        *)

\* "Without reconciliation, an interrupted browser or API restart can leave a
\* message in generating forever": with it, no answer generates for ever.
GenerationEnds ==
  \A m \in Messages : status[m] = "generating" ~> status[m] # "generating"

=============================================================================
