----------------------------- MODULE SessionLog -----------------------------
(***************************************************************************)
(* How one session's events become durable and come back: the coordinator  *)
(* of src/deepseek-harness/packages/session/session-persistence/src, its   *)
(* preparations, the write-behind controllers, the JSONL backend's file    *)
(* and the crash repair of core/session/src/repair.ts.                     *)
(*                                                                         *)
(* One session id.  A "life" is one live Session object of that id; lives  *)
(* follow one another by creation and by resume.  An event is its kind and *)
(* the life that appended it; life 0 wrote the closers of crash repair.    *)
(* Operations of an id run one after another in `chain`; its head is the   *)
(* operation in progress and `job` its storage work, which a crash or a    *)
(* storage fault can hit.                                                  *)
(***************************************************************************)
EXTENDS Naturals, Sequences, FiniteSets, SequencesExt, WriteBehind

CONSTANTS Lives,        \* 1 .. n: bound on the Session objects of the id
          Readers,      \* callers of prepare, load and inspect
          Calls,        \* the calls they make, of {"prepare", "load", "inspect"}
          Codecs,       \* of {"lines", "zstd"}: what a crash may leave of a batch;
                        \* a log has one, an instance with both checks more
          Incidents,    \* what may happen: "crash", "reload", "evict", storage
                        \* faults of an operation, and "publish" (see Fault)
          MaxEvents,    \* bound: events one life appends
          MaxReads,     \* bound: calls of all readers
          MaxIncidents  \* bound: incidents

ASSUME SessionConstants ==
  /\ IsFiniteSet(Lives) /\ Lives = 1 .. Cardinality(Lives) /\ Lives # {}
  /\ Codecs \subseteq {"lines", "zstd"}
  /\ MaxEvents \in Nat /\ MaxReads \in Nat /\ MaxIncidents \in Nat

VARIABLES
  disk,        \* the artifact: [made, log, tail, torn]
  sessions,    \* what each life is: [at, log, born]
  live,        \* the coordinator's `live` entries
  states,      \* the coordinator's `states` entry: [owner, cursor, made]
  retirement,  \* the life in `retirements`, or 0
  chain,       \* the serialized operations, head first
  job,         \* the head's storage work
  entry,       \* the id's entry in `preparations`
  readers,     \* the calls in progress
  plugin,      \* "on", "closing" or "off"
  spent,       \* what is used of the bounds
  acked        \* history: the log when an append last resolved

vars == <<disk, sessions, live, states, retirement, chain, job, entry, readers,
          plugin, spent, acked>>

None == 0
Kinds == {"turn", "step", "ask", "call", "result", "stepEnd", "turnEnd", "note"}
Events == [kind : Kinds, by : Lives \cup {None}]

(***************************************************************************)
(* Logs: repair.ts walks the log once; what it remembers is the last event *)
(* of some kinds.  A call is asked for by an assistant message.            *)
(***************************************************************************)
After(log, i, kinds) == \E j \in (i + 1) .. Len(log) : log[j].kind \in kinds
OpenedBy(log, kind, closing) ==
  \E i \in DOMAIN log : log[i].kind = kind /\ ~After(log, i, closing)

OpenTurn(log) == OpenedBy(log, "turn", {"turn", "turnEnd"})
OpenStep(log) == OpenedBy(log, "step", {"step", "stepEnd", "turn", "turnEnd"})
PendingCall(log) == OpenedBy(log, "ask", {"result", "stepEnd", "turn", "turnEnd"})
Balanced(log) == ~OpenTurn(log)

Closer(kind) == <<[kind |-> kind, by |-> None]>>
InterruptedTurnClosers(log) ==
  IF Balanced(log) THEN <<>>
  ELSE (IF PendingCall(log) THEN Closer("result") ELSE <<>>)
       \o (IF OpenStep(log) THEN Closer("stepEnd") ELSE <<>>)
       \o Closer("turnEnd")

(* What the agent loop may append next: turns of steps of at most one call. *)
NextKinds(log) ==
  IF ~OpenTurn(log) THEN {"turn"}
  ELSE IF ~OpenStep(log) THEN {"step", "turnEnd"}
  ELSE IF ~PendingCall(log) THEN {"ask", "stepEnd"}
  ELSE IF log[Len(log)].kind = "ask" THEN {"call"} ELSE {"result"}

(* The events a read finds: a torn frame is decoded as far as it goes. *)
Stored(d) == d.log \o d.tail
NoDisk == [made |-> FALSE, log |-> <<>>, tail |-> <<>>, torn |-> FALSE]

----------------------------------------------------------------------------
NoLive == [init |-> "none", w |-> Fresh, flush |-> "no", upto |-> 0, since |-> 0]
Starting == [NoLive EXCEPT !.init = "pending"]
Untracked == [owner |-> None, cursor |-> 0, made |-> FALSE, tracked |-> FALSE]
Tracked(owner, cursor, made) ==
  [owner |-> owner, cursor |-> cursor, made |-> made, tracked |-> TRUE]
NoSource == [log |-> <<>>, seen |-> NoDisk]
NoEntry == [phase |-> "none", source |-> NoSource]
NoJob == [does |-> "nothing", cut |-> FALSE, batch |-> <<>>]
NoCall == [at |-> "idle", call |-> "none", holds |-> FALSE, of |-> None,
           source |-> NoSource]
Op(op, by) == <<[op |-> op, by |-> by]>>

Open == {l \in Lives : sessions[l].at = "open"}
Unborn == {l \in Lives : sessions[l].at = "unborn"}
NextLife == CHOOSE l \in Unborn : \A k \in Unborn : l <= k
Head1 == chain[1]
Happens(incident) ==
  /\ incident \in Incidents /\ spent.incidents < MaxIncidents
  /\ spent' = [spent EXCEPT !.incidents = @ + 1]
Running(op) == chain # <<>> /\ Head1.op = op
Starts(op) == Running(op) /\ job = NoJob
Pop == Tail(chain)
With(l, w) == [live EXCEPT ![l] = [@ EXCEPT !.w = w]]

(***************************************************************************)
(* A controller's write joins the chain as soon as its life is initialized *)
(* (the promises between are settled).                                     *)
(***************************************************************************)
Unqueued(l, lv, c) ==
  lv[l].w.writing # "no" /\ ~\E i \in DOMAIN c : c[i] = Op("write", l)[1]
Enlist(l, lv, c) ==
  IF Unqueued(l, lv, c) /\ lv[l].init = "ok" THEN c \o Op("write", l) ELSE c
Owned(l) == states.owner = l

Init ==
  /\ disk = NoDisk
  /\ sessions = [l \in Lives |-> [at |-> "unborn", log |-> <<>>, born |-> 0]]
  /\ live = [l \in Lives |-> NoLive]
  /\ states = Untracked /\ retirement = None
  /\ chain = <<>> /\ job = NoJob /\ entry = NoEntry
  /\ readers = [r \in Readers |-> NoCall]
  /\ plugin = "on"
  /\ spent = [reads |-> 0, incidents |-> 0]
  /\ acked = <<>>

(***************************************************************************)
(* Removing the entry: who waits on it, and the reads begun for it, hold   *)
(* an entry that is no longer the map's.                                   *)
(***************************************************************************)
Orphan(c) == [i \in DOMAIN c |-> IF c[i].op = "read" THEN Op("read", None)[1] ELSE c[i]]
Released(rs) == [r \in Readers |-> [rs[r] EXCEPT !.holds = FALSE]]
Back(rs, r) == [rs EXCEPT ![r] = [NoCall EXCEPT !.at = "wait", !.call = rs[r].call]]
Over(rs, r) == [rs EXCEPT ![r] = NoCall]

----------------------------------------------------------------------------
(* Sessions: ctx.sessions.create announces a new Session to initFor. *)
Create ==
  /\ plugin = "on" /\ Open = {} /\ Unborn # {} /\ entry.phase = "none"
  /\ sessions' = [sessions EXCEPT ![NextLife] = [@ EXCEPT !.at = "open"]]
  /\ live' = [live EXCEPT ![NextLife] = Starting]
  /\ chain' = chain \o Op("create", NextLife)
  /\ UNCHANGED <<disk, states, retirement, job, entry, readers, plugin, spent, acked>>

(* session/event: the controller keeps a copy while the plugin listens. *)
Emit(l, kind) ==
  LET log == Append(sessions[l].log, [kind |-> kind, by |-> l])
  IN  /\ l \in Open /\ Len(sessions[l].log) < sessions[l].born + MaxEvents
      /\ kind \in NextKinds(sessions[l].log)
      /\ sessions' = [sessions EXCEPT ![l] = [@ EXCEPT !.log = log]]
      /\ live' = IF plugin = "on" THEN With(l, Enqueue(live[l].w, Len(log))) ELSE live
      /\ UNCHANGED <<disk, states, retirement, chain, job, entry, readers,
                     plugin, spent, acked>>

(* flush: the wait is cancelled at once, the barrier follows initialization. *)
Asked(l) ==
  LET f == live[l].flush \in {"asked", "draining"}
      w == CancelWait(live[l].w)
      go == live[l].init = "ok"
  IN  [live[l] EXCEPT !.w = IF go THEN Drain(w) ELSE w,
                      !.flush = IF go THEN "draining" ELSE "asked",
                      !.upto = Len(sessions[l].log),
                      !.since = IF f THEN @ ELSE spent.incidents]

Flush(l) ==
  /\ l \in Open /\ plugin = "on" /\ live[l].flush \notin {"asked", "draining"}
  /\ live' = [live EXCEPT ![l] = Asked(l)]
  /\ chain' = Enlist(l, live', chain)
  /\ UNCHANGED <<disk, sessions, states, retirement, job, entry, readers,
                 plugin, spent, acked>>

(* session/disposed: the final drain, observed by nobody but `retirements`. *)
Dispose(l) ==
  /\ l \in Open
  /\ sessions' = [sessions EXCEPT
       ![l] = [@ EXCEPT !.at = IF plugin = "on" THEN "gone" ELSE "dead"]]
  /\ live' = IF plugin = "on" THEN [live EXCEPT ![l] = Asked(l)] ELSE live
  /\ retirement' = IF plugin = "on" THEN l ELSE retirement
  /\ chain' = Enlist(l, live', chain)
  /\ UNCHANGED <<disk, states, job, entry, readers, plugin, spent, acked>>

FlushGo(l) ==
  /\ live[l].flush = "asked" /\ live[l].init = "ok"
  /\ live' = [live EXCEPT ![l] = [@ EXCEPT !.w = Drain(live[l].w), !.flush = "draining"]]
  /\ chain' = Enlist(l, live', chain)
  /\ UNCHANGED <<disk, sessions, states, retirement, job, entry, readers,
                 plugin, spent, acked>>

\* Mutant of Answered: an unfinished turn is returned as it is.
AnsweredOpen(l) ==
  [r \in Readers |->
     IF readers[r].at = "live" /\ readers[r].of = l
     THEN IF readers[r].source.log # <<>> \/ states.made
          THEN [readers[r] EXCEPT !.at = "done"] ELSE NoCall
     ELSE readers[r]]

(***************************************************************************)
(* A flush settles: it answers the loads of the live session that wait for *)
(* it, and a retirement goes on or is over.                                *)
(***************************************************************************)
Answered(l) ==
  [r \in Readers |->
     IF readers[r].at = "live" /\ readers[r].of = l
     THEN IF Balanced(readers[r].source.log) /\ (readers[r].source.log # <<>> \/ states.made)
          THEN [readers[r] EXCEPT !.at = "done"]
          ELSE NoCall
     ELSE readers[r]]

(* The barrier is gone and the promise of the flush settles. *)
FlushEnds(v, outcome) ==
  [v EXCEPT !.w = BarrierGone(v.w), !.flush = outcome, !.upto = 0, !.since = 0]

FlushOver(l) ==
  /\ live[l].flush = "draining" /\ Drained(live[l].w)
  /\ live' = [live EXCEPT ![l] = FlushEnds(@, "no")]
  /\ readers' = Answered(l)
  /\ chain' = IF sessions[l].at = "gone" /\ (plugin = "on" \/ retirement = l)
                   /\ ~\E i \in DOMAIN chain : chain[i] = Op("retire", l)[1]
              THEN chain \o Op("retire", l) ELSE chain
  /\ UNCHANGED <<disk, sessions, states, retirement, job, entry, plugin, spent, acked>>

FlushFails(l) ==
  /\ \/ live[l].flush = "draining" /\ live[l].w.barrier = "rejecting"
     \/ live[l].flush = "asked" /\ live[l].init \in {"broken", "refused"}
  /\ live' = [live EXCEPT ![l] = FlushEnds([@ EXCEPT !.w = CancelWait(live[l].w)], "failed")]
  /\ readers' = [r \in Readers |->
       IF readers[r].at = "live" /\ readers[r].of = l THEN NoCall ELSE readers[r]]
  /\ retirement' = IF retirement = l THEN None ELSE retirement
  /\ UNCHANGED <<disk, sessions, states, chain, job, entry, plugin, spent, acked>>

----------------------------------------------------------------------------
(* The controller's own steps: its deadline, and its drain after a write. *)
Window(l) ==
  /\ live[l].w.timer
  /\ live' = With(l, Deadline(live[l].w))
  /\ chain' = Enlist(l, live', chain)
  /\ UNCHANGED <<disk, sessions, states, retirement, job, entry, readers,
                 plugin, spent, acked>>

DrainStep(l) ==
  /\ DrainMore(live[l].w)
  /\ live' = With(l, StartWrite(live[l].w, "drain"))
  /\ chain' = Enlist(l, live', chain)
  /\ UNCHANGED <<disk, sessions, states, retirement, job, entry, readers,
                 plugin, spent, acked>>

(* A write whose life failed to initialize fails with that error. *)
WriteRefused(l) ==
  /\ Unqueued(l, live, chain) /\ live[l].init \in {"broken", "refused"}
  /\ live' = With(l, Failed(live[l].w))
  /\ UNCHANGED <<disk, sessions, states, retirement, chain, job, entry, readers,
                 plugin, spent, acked>>

----------------------------------------------------------------------------
(* appendCore's checks. *)
Writable == entry.phase \notin {"committing", "reserved"}
Contiguous(ns) == \A i \in DOMAIN ns : ns[i] = states.cursor + i
AppendJob(l, ns) ==
  [does |-> "append", cut |-> FALSE,
   batch |-> [i \in DOMAIN ns |-> sessions[l].log[ns[i]]]]

(* What filter(seq >= cursor) leaves of a batch: its numbers ascend. *)
Unstored(ns, cursor) ==
  SubSeq(ns, Cardinality({i \in DOMAIN ns : ns[i] <= cursor}) + 1, Len(ns))

(* appendLiveBatch: what initialization already stored is filtered out. *)
StartLiveBatch ==
  LET l  == Head1.by
      ns == Unstored(live[l].w.active, states.cursor)
  IN  /\ Starts("write")
      /\ \/ /\ ns = <<>>
            /\ live' = With(l, Landed(live[l].w))
            /\ chain' = Enlist(l, live', Pop) /\ UNCHANGED job
         \/ /\ ns # <<>> /\ Writable /\ Contiguous(ns)
            /\ job' = AppendJob(l, ns) /\ UNCHANGED <<chain, live>>
         \/ /\ ns # <<>> /\ ~(Writable /\ Contiguous(ns))
            /\ chain' = Pop /\ live' = With(l, Failed(live[l].w)) /\ UNCHANGED job
      /\ UNCHANGED <<disk, sessions, states, retirement, entry, readers, plugin,
                     spent, acked>>

Initialized(l, init) == [live EXCEPT ![l] = [@ EXCEPT !.init = init]]
Seed(l) == SubSeq(sessions[l].log, 1, sessions[l].born)
SeedSuffix(l, cursor) == [i \in 1 .. (sessions[l].born - cursor) |-> cursor + i]

(* `s` is the state bound to life l; what of its seed is not stored follows. *)
Bind(l, s) ==
  /\ states' = s
  /\ IF SeedSuffix(l, s.cursor) = <<>>
     THEN /\ live' = Initialized(l, "ok") /\ job' = NoJob
          /\ chain' = Enlist(l, live', Pop)
     ELSE /\ job' = AppendJob(l, SeedSuffix(l, s.cursor)) /\ UNCHANGED <<chain, live>>

Refuse(l, s) ==
  /\ chain' = Pop /\ live' = Initialized(l, "refused")
  /\ states' = s /\ UNCHANGED job

(***************************************************************************)
(* onCreated: a new Session meets what is known and stored of its id.      *)
(* adoptLivePrefix's truncation of a torn tail is left out: only a crash   *)
(* tears the file, and no Session outlives one.                            *)
(***************************************************************************)
Abandoned ==
  states.owner # None /\ ~states.made /\ ~HasWork(live[states.owner].w)
\* Mutant of SeedMatches: the comparison is turned round.
SeedMatchesBackwards(l, n) == IsPrefix(Seed(l), SubSeq(Stored(disk), 1, n))
SeedMatches(l, n) == IsPrefix(SubSeq(Stored(disk), 1, n), Seed(l))

OnCreated ==
  LET l == Head1.by
  IN  /\ Starts("create")
      /\ \/ /\ states.tracked /\ states.owner = None
            /\ IF SeedMatches(l, states.cursor)
               THEN Bind(l, [states EXCEPT !.owner = l]) ELSE Refuse(l, states)
         \/ /\ states.owner # None /\ ~Abandoned
            /\ Refuse(l, states)
         \/ /\ ~states.tracked \/ Abandoned
            /\ ~disk.made
            /\ IF entry.phase = "none"
               THEN Bind(l, Tracked(l, 0, FALSE)) ELSE Refuse(l, Untracked)
         \/ /\ ~states.tracked \/ Abandoned
            /\ disk.made
            /\ IF SeedMatches(l, Len(Stored(disk)))
               THEN Bind(l, Tracked(l, Len(disk.log), TRUE))
               ELSE Refuse(l, Untracked)
      /\ UNCHANGED <<disk, sessions, retirement, entry, readers, plugin, spent, acked>>

(* attachPrepared's suffix: what setup appended to the unpublished Session. *)
StartSuffix ==
  LET l == Head1.by
  IN  /\ Starts("suffix")
      /\ IF Writable
         THEN job' = AppendJob(l, SeedSuffix(l, states.cursor)) /\ UNCHANGED <<chain, live>>
         ELSE chain' = Pop /\ live' = Initialized(l, "broken") /\ UNCHANGED job
      /\ UNCHANGED <<disk, sessions, states, retirement, entry, readers, plugin,
                     spent, acked>>

\* Mutant of Retire: the retirement is kept.
RetireKept ==
  LET l == Head1.by
  IN  /\ Starts("retire")
      /\ live' = [live EXCEPT ![l] = NoLive]
      /\ states' = IF Owned(l) THEN Untracked ELSE states
      /\ chain' = Pop
      /\ UNCHANGED <<disk, sessions, retirement, job, entry, readers, plugin, spent, acked>>

Retire ==
  LET l == Head1.by
  IN  /\ Starts("retire")
      /\ live' = [live EXCEPT ![l] = NoLive]
      /\ states' = IF Owned(l) THEN Untracked ELSE states
      /\ retirement' = IF retirement = l THEN None ELSE retirement
      /\ chain' = Pop
      /\ UNCHANGED <<disk, sessions, job, entry, readers, plugin, spent, acked>>

----------------------------------------------------------------------------
\* Mutant of CutTail: the last event in front of the tail is cut off, too.
CutTailLong ==
  /\ job.does = "repair" /\ job.cut
  /\ disk' = [disk EXCEPT !.log = SubSeq(@, 1, Len(@) - 1), !.tail = <<>>, !.torn = FALSE]
  /\ job' = [job EXCEPT !.cut = FALSE]
  /\ UNCHANGED <<sessions, live, states, retirement, chain, entry, readers,
                 plugin, spent, acked>>

(* The head's storage work: truncate, then append, each fsync'd. *)
CutTail ==
  /\ job.does = "repair" /\ job.cut
  /\ disk' = [disk EXCEPT !.tail = <<>>, !.torn = FALSE]
  /\ job' = [job EXCEPT !.cut = FALSE]
  /\ UNCHANGED <<sessions, live, states, retirement, chain, entry, readers,
                 plugin, spent, acked>>

(* rejectExistingLog: materialize never publishes over a log. *)
Clobbers == job.does = "append" /\ ~states.made /\ disk.made

WriteBatch ==
  /\ job.does \in {"append", "repair"} /\ ~job.cut /\ ~Clobbers
  /\ disk' = [disk EXCEPT !.made = TRUE, !.log = @ \o job.batch]
  /\ job' = [job EXCEPT !.does = IF @ = "append" THEN "appended" ELSE "repaired"]
  /\ UNCHANGED <<sessions, live, states, retirement, chain, entry, readers,
                 plugin, spent, acked>>

(***************************************************************************)
(* The storage work fails: nothing was written, or the append was rolled   *)
(* back; or ("publish") the new artifact is linked and the sync of its     *)
(* directory fails.                                                        *)
(***************************************************************************)
Fault ==
  \/ job.does \in {"append", "repair"} /\ Happens(Head1.op)
  \/ job.does = "appended" /\ ~states.made /\ Happens("publish")

JobFails ==
  LET x == Head1.by
  IN  /\ Fault \/ (Clobbers /\ UNCHANGED spent)
      /\ chain' = Pop /\ job' = NoJob
      /\ CASE Head1.op = "write" ->
                live' = With(x, Failed(live[x].w)) /\ UNCHANGED <<entry, readers>>
           [] Head1.op \in {"create", "suffix"} ->
                live' = Initialized(x, "broken") /\ UNCHANGED <<entry, readers>>
           [] Head1.op = "commit" ->
                /\ entry' = IF readers[x].holds THEN NoEntry ELSE entry
                /\ readers' = Over(IF readers[x].holds THEN Released(readers) ELSE readers, x)
                /\ UNCHANGED live
      /\ UNCHANGED <<disk, sessions, states, retirement, plugin, acked>>

(* appendCore's end: the cursor advances, prepared views are invalid. *)
Appended ==
  LET l == Head1.by
  IN  /\ job.does = "appended"
      /\ states' = [states EXCEPT !.made = TRUE, !.cursor = @ + Len(job.batch)]
      /\ live' = IF Head1.op = "write" THEN With(l, Landed(live[l].w))
                 ELSE Initialized(l, "ok")
      /\ entry' = NoEntry /\ readers' = Released(readers)
      /\ chain' = Enlist(l, live', Orphan(Pop)) /\ job' = NoJob
      /\ acked' = disk.log
      /\ UNCHANGED <<disk, sessions, retirement, plugin, spent>>

----------------------------------------------------------------------------
(* Readers: prepare (resume), load and inspect; callers' signals are left out. *)
StartCall(r, c) ==
  /\ readers[r].at \in {"idle", "done"} /\ plugin = "on" /\ spent.reads < MaxReads
  /\ readers' = [readers EXCEPT ![r] = [NoCall EXCEPT !.at = "wait", !.call = c]]
  /\ spent' = [spent EXCEPT !.reads = @ + 1]
  /\ UNCHANGED <<disk, sessions, live, states, retirement, chain, job, entry,
                 plugin, acked>>

(* A live session answers for itself: load after a flush, prepare not at all. *)
LookAtLive(r) ==
  LET l    == CHOOSE l \in Open : TRUE
      view == [log |-> sessions[l].log, seen |-> NoDisk]
  IN  /\ readers[r].at = "wait" /\ retirement = None /\ Open # {}
      /\ CASE readers[r].call = "prepare" ->
                readers' = Over(readers, r) /\ UNCHANGED <<live, chain>>
           [] readers[r].call = "load" ->
                /\ readers' = [readers EXCEPT
                     ![r] = [@ EXCEPT !.at = "live", !.of = l, !.source = view]]
                /\ live' = [live EXCEPT ![l] = Asked(l)]
                /\ chain' = Enlist(l, live', chain)
           [] OTHER ->
                /\ readers' = [readers EXCEPT
                     ![r] = [@ EXCEPT !.at = "done", !.of = l, !.source = view]]
                /\ UNCHANGED <<live, chain>>
      /\ UNCHANGED <<disk, sessions, states, retirement, job, entry,
                     plugin, spent, acked>>

(* entryFor: join the id's entry, or start its read behind the chain. *)
Join(r) ==
  /\ readers[r].at = "wait" /\ retirement = None /\ Open = {}
  /\ readers' = [readers EXCEPT ![r] = [@ EXCEPT !.at = "join", !.holds = TRUE,
                                                 !.source = entry.source]]
  /\ IF entry.phase = "none"
     THEN /\ entry' = [phase |-> "loading", source |-> NoSource]
          /\ chain' = chain \o Op("read", 1)
     ELSE UNCHANGED <<entry, chain>>
  /\ UNCHANGED <<disk, sessions, live, states, retirement, job, plugin, spent, acked>>

(***************************************************************************)
(* prepareCore: the stored events and their closers make an unpublished    *)
(* Session.  Every caller that awaits this read gets it; only the read of  *)
(* the id's current entry makes that entry ready.                          *)
(***************************************************************************)
Source == [log |-> Stored(disk) \o InterruptedTurnClosers(Stored(disk)), seen |-> disk]
Read ==
  LET current == Head1.by # None
      waits(r) == readers[r].at = "join" /\ readers[r].source = NoSource
                  /\ readers[r].holds = current
      found   == disk.made /\ Open = {}
  IN  /\ Starts("read")
      /\ chain' = Pop
      /\ entry' = IF ~current THEN entry
                  ELSE IF found THEN [phase |-> "ready", source |-> Source] ELSE NoEntry
      /\ readers' = [r \in Readers |->
           IF ~waits(r) THEN readers[r]
           ELSE IF found THEN [readers[r] EXCEPT !.source = Source] ELSE NoCall]
      /\ UNCHANGED <<disk, sessions, live, states, retirement, job, plugin, spent, acked>>

Loaded(r) == readers[r].at = "join" /\ readers[r].source # NoSource

(* inspect checks the source's revision behind the chain. *)
AskCheck(r) ==
  /\ Loaded(r) /\ readers[r].call = "inspect"
  /\ readers' = [readers EXCEPT ![r] =
       [@ EXCEPT !.at = "check",
                 !.source = IF readers[r].holds THEN entry.source ELSE readers[r].source]]
  /\ chain' = chain \o Op("check", r)
  /\ UNCHANGED <<disk, sessions, live, states, retirement, job, entry, plugin,
                 spent, acked>>

(* reserve: the entry is ready and this caller takes it, or it is gone. *)
Reserve(r) ==
  /\ Loaded(r) /\ readers[r].call # "inspect"
  /\ \/ /\ readers[r].holds /\ entry.phase = "ready"
        /\ entry' = [entry EXCEPT !.phase = "committing"]
        /\ readers' = [readers EXCEPT ![r] = [@ EXCEPT !.at = "commit", !.source = entry.source]]
        /\ chain' = chain \o Op("commit", r)
     \/ /\ ~readers[r].holds
        /\ readers' = Back(readers, r)
        /\ UNCHANGED <<entry, chain>>
  /\ UNCHANGED <<disk, sessions, live, states, retirement, job, plugin, spent, acked>>

(* The entry of reader r, if it is still the map's, is removed. *)
Removed(r) == IF readers[r].holds THEN NoEntry ELSE entry
Orphaned(r, rs) == IF readers[r].holds THEN Released(rs) ELSE rs

(* isPreparedSourceCurrent, for inspect. *)
Check ==
  LET r == Head1.by
      current == readers[r].source.seen = disk
      retained == readers[r].holds /\ entry.phase # "ready"
  IN  /\ Starts("check")
      /\ chain' = Pop
      /\ IF Open # {} \/ current \/ retained
         THEN /\ readers' = [readers EXCEPT ![r] = [@ EXCEPT !.at = "done", !.holds = FALSE]]
              /\ UNCHANGED entry
         ELSE /\ readers' = Back(Orphaned(r, readers), r)
              /\ entry' = Removed(r)
      /\ UNCHANGED <<disk, sessions, live, states, retirement, job, plugin, spent, acked>>

\* Mutant of Commit: who owns the id is not asked.
CommitOwned ==
  LET r == Head1.by
      s == readers[r].source
  IN  /\ Starts("commit") /\ s.seen = disk
      /\ job' = [does |-> "repair", cut |-> s.seen.torn,
                 batch |-> SubSeq(s.log, Len(disk.log) + 1, Len(s.log))]
      /\ UNCHANGED <<disk, sessions, live, states, retirement, chain, entry,
                     readers, plugin, spent, acked>>

(***************************************************************************)
(* commitPrepared, and what reserve makes of its outcome: an owner is an   *)
(* error; a stale source is read again, and so is one that was repaired;   *)
(* otherwise the cursor is set and the caller holds the reservation.       *)
(***************************************************************************)
Commit ==
  LET r == Head1.by
      s == readers[r].source
      repairs == s.seen.torn \/ Len(s.log) > Len(Stored(s.seen))
  IN  /\ Starts("commit")
      /\ \/ /\ states.owner # None
            /\ entry' = Removed(r) /\ readers' = Over(Orphaned(r, readers), r)
            /\ chain' = Pop /\ UNCHANGED <<states, job>>
         \/ /\ states.owner = None /\ s.seen # disk
            /\ entry' = Removed(r) /\ readers' = Back(Orphaned(r, readers), r)
            /\ chain' = Pop /\ UNCHANGED <<states, job>>
         \/ /\ states.owner = None /\ s.seen = disk /\ repairs
            /\ job' = [does |-> "repair", cut |-> s.seen.torn,
                       batch |-> SubSeq(s.log, Len(disk.log) + 1, Len(s.log))]
            /\ UNCHANGED <<entry, readers, chain, states>>
         \/ /\ states.owner = None /\ s.seen = disk /\ ~repairs
            /\ states' = Tracked(None, Len(s.log), TRUE)
            /\ IF ~readers[r].holds
               THEN readers' = Back(readers, r) /\ UNCHANGED entry
               ELSE IF readers[r].call = "load"
               THEN /\ readers' = [Released(readers) EXCEPT
                         ![r] = [@ EXCEPT !.at = "done", !.of = None]]
                    /\ entry' = NoEntry
               ELSE /\ readers' = [readers EXCEPT ![r] = [@ EXCEPT !.at = "held"]]
                    /\ entry' = [entry EXCEPT !.phase = "reserved"]
            /\ chain' = Pop /\ UNCHANGED job
      /\ UNCHANGED <<disk, sessions, live, retirement, plugin, spent, acked>>

CommitRepaired ==
  LET r == Head1.by
  IN  /\ job.does = "repaired" /\ Running("commit")
      /\ readers' = Back(Orphaned(r, readers), r) /\ entry' = Removed(r)
      /\ chain' = Pop /\ job' = NoJob /\ acked' = disk.log
      /\ UNCHANGED <<disk, sessions, live, states, retirement, plugin, spent>>

(***************************************************************************)
(* The resumed Session is published: setup may have appended to it, the    *)
(* reservation is consumed and its suffix is queued (attachPrepared).      *)
(***************************************************************************)
Published(r, setup) ==
  readers[r].source.log
    \o (IF setup THEN <<[kind |-> "note", by |-> NextLife]>> ELSE <<>>)
Matches(r) == states.owner = None /\ states.cursor = Len(readers[r].source.log)

Publish(r, setup) ==
  LET log == Published(r, setup)
  IN  /\ readers[r].at = "held" /\ Open = {} /\ Unborn # {} /\ Matches(r)
      /\ sessions' = [sessions EXCEPT
           ![NextLife] = [at |-> "open", log |-> log, born |-> Len(log)]]
      /\ live' = [live EXCEPT
           ![NextLife] = [NoLive EXCEPT !.init = IF setup THEN "pending" ELSE "ok"]]
      /\ states' = [states EXCEPT !.owner = NextLife]
      /\ entry' = NoEntry /\ readers' = Over(Released(readers), r)
      /\ chain' = IF setup THEN Orphan(chain) \o Op("suffix", NextLife) ELSE Orphan(chain)
      /\ UNCHANGED <<disk, retirement, job, plugin, spent, acked>>

(* The preparation is disposed unpublished; an untouched Session is kept. *)
Release(r) ==
  /\ readers[r].at = "held"
  /\ \/ /\ states.owner = None
        /\ entry' = [entry EXCEPT !.phase = "ready"] /\ readers' = Over(readers, r)
     \/ entry' = NoEntry /\ readers' = Over(Released(readers), r)
  /\ UNCHANGED <<disk, sessions, live, states, retirement, chain, job, plugin,
                 spent, acked>>

(* The ready LRU makes room for another id. *)
Evict ==
  /\ entry.phase = "ready" /\ Happens("evict")
  /\ entry' = NoEntry /\ readers' = Released(readers) /\ chain' = Orphan(chain)
  /\ UNCHANGED <<disk, sessions, live, states, retirement, job, plugin, acked>>

----------------------------------------------------------------------------
(* The plugin's disposal: listeners are gone, every live session is flushed. *)
Unload ==
  /\ plugin = "on" /\ Happens("reload")
  /\ \A r \in Readers : readers[r].at \in {"idle", "done"}
  /\ plugin' = "closing"
  /\ live' = [l \in Lives |-> IF live[l].init = "none" THEN live[l] ELSE Asked(l)]
  /\ \E flushed \in SetToSeqs({l \in Lives : Enlist(l, live', chain) # chain}) :
       chain' = chain \o [i \in DOMAIN flushed |-> Op("write", flushed[i])[1]]
  /\ UNCHANGED <<disk, sessions, states, retirement, job, entry, readers, acked>>

Ended(ss) == [l \in Lives |-> IF ss[l].at = "gone" THEN [ss[l] EXCEPT !.at = "dead"] ELSE ss[l]]

(* Flushes and chain have settled; the coordinator and its maps are dropped. *)
Unloaded ==
  /\ plugin = "closing" /\ chain = <<>>
  /\ \A l \in Lives : live[l].flush \notin {"asked", "draining"}
  /\ plugin' = "off"
  /\ sessions' = Ended(sessions)
  /\ live' = [l \in Lives |-> NoLive]
  /\ states' = Untracked /\ retirement' = None /\ entry' = NoEntry
  /\ UNCHANGED <<disk, chain, job, readers, spent, acked>>

(* A new coordinator adopts the session that is live. *)
Mount ==
  /\ plugin = "off"
  /\ plugin' = "on"
  /\ sessions' = [l \in Lives |->
       IF l \in Open THEN [sessions[l] EXCEPT !.born = Len(sessions[l].log)] ELSE sessions[l]]
  /\ live' = [l \in Lives |-> IF l \in Open THEN Starting ELSE NoLive]
  /\ chain' = IF Open = {} THEN <<>> ELSE Op("create", CHOOSE l \in Open : TRUE)
  /\ UNCHANGED <<disk, states, retirement, job, entry, readers, spent, acked>>

(***************************************************************************)
(* The process dies: of an append in progress a part may be in the file,   *)
(* whole lines and a torn one, or the decodable part of a torn frame; a    *)
(* new artifact appears whole or not at all.                               *)
(***************************************************************************)
Remains ==
  LET part(n) == SubSeq(job.batch, 1, n)
      parts == 0 .. Len(job.batch)
      lines == {[disk EXCEPT !.log = @ \o part(n)] : n \in parts}
                 \cup {[disk EXCEPT !.log = @ \o part(n), !.torn = TRUE] : n \in parts}
      frame == {[disk EXCEPT !.log = @ \o job.batch]}
                 \cup {[disk EXCEPT !.tail = part(n), !.torn = TRUE] : n \in parts}
  IN  IF job.does \notin {"append", "repair"} \/ job.cut \/ Clobbers \/ job.batch = <<>>
      THEN {disk}
      ELSE IF ~disk.made THEN {disk, [disk EXCEPT !.made = TRUE, !.log = job.batch]}
      ELSE {disk} \cup (IF "lines" \in Codecs THEN lines ELSE {})
                  \cup (IF "zstd" \in Codecs THEN frame ELSE {})

Crash ==
  /\ Happens("crash")
  /\ disk' \in Remains
  /\ sessions' = [l \in Lives |->
       IF sessions[l].at = "unborn" THEN sessions[l] ELSE [sessions[l] EXCEPT !.at = "dead"]]
  /\ live' = [l \in Lives |-> NoLive]
  /\ states' = Untracked /\ retirement' = None
  /\ chain' = <<>> /\ job' = NoJob /\ entry' = NoEntry
  /\ readers' = [r \in Readers |-> NoCall]
  /\ plugin' = "on"
  /\ UNCHANGED acked

----------------------------------------------------------------------------
StorageStep ==
  \/ OnCreated \/ StartLiveBatch \/ StartSuffix \/ Retire \/ Read \/ Check \/ Commit
  \/ CutTail \/ WriteBatch \/ JobFails \/ Appended \/ CommitRepaired
ControllerStep(l) ==
  \/ FlushGo(l) \/ FlushOver(l) \/ FlushFails(l)
  \/ DrainStep(l) \/ WriteRefused(l)
ReaderStep(r) ==
  \/ LookAtLive(r) \/ Join(r) \/ AskCheck(r) \/ Reserve(r)
  \/ (\E s \in BOOLEAN : Publish(r, s)) \/ Release(r)
Environment ==
  \/ Create
  \/ \E l \in Lives : (\E k \in Kinds : Emit(l, k)) \/ Flush(l) \/ Dispose(l)
  \/ \E r \in Readers, c \in Calls : StartCall(r, c)
  \/ Evict \/ Unload \/ Mount \/ Crash

Next ==
  \/ StorageStep
  \/ \E l \in Lives : ControllerStep(l) \/ Window(l)
  \/ \E r \in Readers : ReaderStep(r)
  \/ Unloaded
  \/ Environment

(***************************************************************************)
(* Promises settle and timers fire: storage answers, one way or the other, *)
(* and who holds a preparation disposes of it.                             *)
(***************************************************************************)
Spec == Init /\ [][Next]_vars
FairSpec ==
  /\ Spec
  /\ WF_vars(StorageStep) /\ WF_vars(Unloaded)
  /\ \A l \in Lives : WF_vars(ControllerStep(l)) /\ WF_vars(Window(l))
  /\ \A r \in Readers : WF_vars(ReaderStep(r))

----------------------------------------------------------------------------
Logs == Seq(Events)
TypeOK ==
  /\ disk.log \in Logs /\ disk.tail \in Logs
  /\ disk.made \in BOOLEAN /\ disk.torn \in BOOLEAN
  /\ \A l \in Lives :
       /\ sessions[l].at \in {"unborn", "open", "gone", "dead"}
       /\ sessions[l].log \in Logs
       /\ live[l].w \in Controllers(Nat)
       /\ live[l].init \in {"none", "pending", "ok", "broken", "refused"}
       /\ live[l].flush \in {"no", "asked", "draining", "failed"}
  /\ states.owner \in Lives \cup {None} /\ states.cursor \in 0 .. Len(disk.log)
  /\ retirement \in Lives \cup {None}
  /\ entry.phase \in {"none", "loading", "ready", "committing", "reserved"}
  /\ \A r \in Readers : readers[r].at \in
       {"idle", "wait", "join", "check", "commit", "held", "live", "done"}
  /\ plugin \in {"on", "closing", "off"}

(***************************************************************************)
(* What an append or a repair has reported durable stays in the log, in    *)
(* its place, through crashes, torn tails, failed and retried writes,      *)
(* repairs and resumes.                                                    *)
(***************************************************************************)
AckedSurvives == IsPrefix(acked, Stored(disk))

(***************************************************************************)
(* The events a live session has queued are the ones after the log: no     *)
(* event is lost between the controller, the chain and the file, and none  *)
(* that failed to be written is overtaken by a later one.                  *)
(***************************************************************************)
QueueContinuesLog ==
  \A l \in Lives :
    LET held == live[l].w.active \o live[l].w.pending
        last == Len(sessions[l].log)
    IN  Owned(l) /\ plugin = "on" =>
          /\ \A i \in DOMAIN held : held[i] = last - Len(held) + i
          /\ live[l].init = "ok" => last - Len(held) <= Len(disk.log)

(***************************************************************************)
(* The coordinator, its controllers and the file implement DurableLog:     *)
(* each of their steps, the failing ones included, is one of its steps or  *)
(* changes nothing of what it promises.                                    *)
(***************************************************************************)
OwnersLog == IF states.owner = None THEN <<>> ELSE sessions[states.owner].log
Durable == INSTANCE DurableLog
  WITH log <- disk.log, owned <- states.owner # None,
       bound <- states.owner # None /\ states.made, own <- OwnersLog
ImplementsDurableLog == Durable!Spec

(***************************************************************************)
(* A load returns a balanced log whose every event is durable, of a live   *)
(* session as of a cold one, and it stays true of the stored log.          *)
(***************************************************************************)
LoadsAreDurable ==
  \A r \in Readers :
    readers[r].at = "done" /\ readers[r].call = "load" =>
      /\ Balanced(readers[r].source.log)
      /\ IsPrefix(readers[r].source.log, Stored(disk))

(***************************************************************************)
(* A flush that succeeds has made every event durable that the session     *)
(* held when it was called.                                                *)
(***************************************************************************)
FlushIsDurable ==
  [][\A l \in Lives :
       live[l].flush = "draining" /\ live'[l].flush = "no" /\ live'[l].init # "none" =>
         IsPrefix(SubSeq(sessions[l].log, 1, live[l].upto), disk.log)]_vars

(***************************************************************************)
(* Closers are synthesized for a cold session only: the log of a session   *)
(* that is live, or whose tail is still being written, is never closed     *)
(* under it ("Repair applies only to cold sessions", persistence.md:17).   *)
(***************************************************************************)
RepairsOnlyCold ==
  [][(\E i \in (Len(disk.log) + 1) .. Len(disk'.log) : disk'.log[i].by = None)
       => Open = {} /\ states.owner = None /\ retirement = None]_vars

(***************************************************************************)
(* A resumed session continues its predecessor: every event a disposed     *)
(* life accepted in this process is in the log that is published, even if  *)
(* its final writes failed and were retried; a failed retirement refuses   *)
(* the resume.  Not so for a life that nothing of reached storage and that *)
(* has no work: "a truly-abandoned id" (coordinator.ts:1306), whose seed   *)
(* goes with it.                                                           *)
(***************************************************************************)
ResumeContinues ==
  [][\A k, l \in Lives :
       sessions[l].at = "unborn" /\ sessions'[l].at = "open" /\ sessions'[l].born > 0
         /\ sessions[k].at = "gone" /\ live[k].init # "refused"
         /\ (live[k].init = "broken" => HasWork(live[k].w))
         => IsPrefix(sessions[k].log, sessions'[l].log)]_vars

(***************************************************************************)
(* An explicit flush retries what failed before it: it fails only if       *)
(* storage failed since it was called, or the session never owned the id.  *)
(***************************************************************************)
FlushRetries ==
  [][\A l \in Lives :
       live[l].flush \in {"asked", "draining"} /\ live'[l].flush = "failed"
         => live[l].init = "refused" \/ spent.incidents > live[l].since]_vars

(***************************************************************************)
(* Nobody waits for ever on the chain, on a barrier or on another caller's *)
(* reservation, and the retries over a changed revision converge: flushes  *)
(* settle, retirements end, calls return, and accepted work is written     *)
(* without a flush, unless a failure was reported and automatic writing    *)
(* pauses.                                                                 *)
(***************************************************************************)
EverythingSettles ==
  /\ \A l \in Lives :
       /\ live[l].flush \in {"asked", "draining"}
            ~> live[l].flush \notin {"asked", "draining"}
       /\ HasWork(live[l].w) ~> ~HasWork(live[l].w) \/ live[l].w.paused
                                 \/ live[l].init \in {"broken", "refused"}
  /\ retirement # None ~> retirement = None
  /\ \A r \in Readers : readers[r].at # "idle" ~> readers[r].at \in {"idle", "done"}
=============================================================================
