-------------------------- MODULE SessionLogProofs --------------------------
(***************************************************************************)
(* Theorems about SessionLog.                                              *)
(*                                                                         *)
(* AckedSurvives and QueueContinuesLog speak of the file and of the queue  *)
(* in front of it; neither is inductive, because an append is in progress  *)
(* across several steps during which the queue, the cursor and the chain   *)
(* move.  The invariant says of each part what the others may rely on:     *)
(* ChainInv which operations wait and for whom, LivesInv what controllers  *)
(* hold, JobInv what an append or a repair in progress took, DiskInv what  *)
(* the file holds of what was reported durable, PluginInv who may still    *)
(* call a plugin that goes away.                                           *)
(***************************************************************************)
EXTENDS SessionLog, SequenceTheorems, FiniteSetTheorems, TLAPS

-----------------------------------------------------------------------------
(* Natural numbers and sequences.                                          *)

\* A set of naturals has a least element.
LEMMA LeastNat ==
  ASSUME NEW S, S \subseteq Nat, S # {}
  PROVE  \E n \in S : \A m \in S : n <= m
<1> DEFINE Below(n) == 0 .. n
           T == {Below(n) : n \in S}
<1>1. T \subseteq FiniteSubsetsOf(Nat)
  <2>1. \A n \in S : Below(n) \in SUBSET Nat /\ IsFiniteSet(Below(n))
    BY FS_Interval
  <2> QED BY <2>1 DEF FiniteSubsetsOf
<1>2. T # {} OBVIOUS
<1>3. \E x \in T : \A y \in T : ~(<<y, x>> \in StrictSubsetOrdering(Nat))
  <2> HIDE DEF T
  <2> QED BY <1>1, <1>2, FS_StrictSubsetOrderingWellFounded, WFMin
<1>4. PICK n \in S : \A m \in S : ~(<<Below(m), Below(n)>> \in StrictSubsetOrdering(Nat))
  BY <1>3
<1>5. ASSUME NEW m \in S, m < n PROVE FALSE
  <2>1. Below(m) \subseteq Below(n) /\ Below(m) # Below(n)
    BY <1>5
  <2>2. Below(m) \in SUBSET Nat /\ Below(n) \in SUBSET Nat OBVIOUS
  <2> HIDE DEF Below
  <2> QED BY <1>4, <2>1, <2>2 DEF StrictSubsetOrdering
<1> QED BY <1>5

\* The next life is one that is unborn.
LEMMA NextLifeUnborn ==
  ASSUME Unborn # {}
  PROVE  NextLife \in Unborn /\ \A k \in Unborn : NextLife <= k
<1>1. Unborn \subseteq Nat
  <2>1. Lives \subseteq Nat
    BY SessionConstants, FS_CardinalityType
  <2> QED BY <2>1 DEF Unborn
<1>2. \E l \in Unborn : \A k \in Unborn : l <= k BY <1>1, LeastNat
<1> QED BY <1>2 DEF NextLife

\* A prefix of a sequence is the beginning of all that begin with it.
Begins(s, t) == Len(s) <= Len(t) /\ \A i \in 1 .. Len(s) : s[i] = t[i]

LEMMA PrefixBegins ==
  ASSUME NEW E, NEW s \in Seq(E), NEW t \in Seq(E)
  PROVE  IsPrefix(s, t) <=> Begins(s, t)
<1>1. /\ Len(s) \in Nat /\ Len(t) \in Nat
      /\ DOMAIN s = 1 .. Len(s) /\ DOMAIN t = 1 .. Len(t)
      /\ \A i \in 1 .. Len(s) : s[i] \in E
      /\ \A i \in 1 .. Len(t) : t[i] \in E
  BY LenProperties, ElementOfSeq
<1>2. SubSeq(s, 1, Len(s)) = s BY SubSeqFull
<1>3. ASSUME Len(s) <= Len(t)
      PROVE  /\ SubSeq(t, 1, Len(s)) \in Seq(E)
             /\ Len(SubSeq(t, 1, Len(s))) = Len(s)
             /\ \A i \in 1 .. Len(s) : SubSeq(t, 1, Len(s))[i] = t[i]
  <2>1. \A i \in 1 .. Len(s) : t[i] \in E BY <1>1, <1>3
  <2> QED BY <1>1, <2>1, SubSeqProperties
<1>4. ASSUME Len(s) <= Len(t), SubSeq(t, 1, Len(s)) = s
      PROVE  \A i \in 1 .. Len(s) : s[i] = t[i]
  BY <1>3, <1>4
<1>5. ASSUME Begins(s, t) PROVE SubSeq(t, 1, Len(s)) = s
  BY <1>3, <1>5, SeqEqual DEF Begins
<1> QED BY <1>2, <1>4, <1>5 DEF IsPrefix, Begins

LEMMA BeginsConcat ==
  ASSUME NEW E, NEW s \in Seq(E), NEW t \in Seq(E), NEW u \in Seq(E), Begins(s, t)
  PROVE  Begins(s, t \o u)
<1>1. Len(s) \in Nat /\ Len(t) \in Nat /\ Len(u) \in Nat BY LenProperties
<1> QED BY <1>1, ConcatProperties DEF Begins

-----------------------------------------------------------------------------
(* The batching controller.                                                *)

\* The events a controller holds, oldest first.
Held(w) == w.active \o w.pending

\* Only a write has a batch, and only a queued event sets a window.
WellFormed(w) ==
  /\ w.writing = "no" => w.active = <<>>
  /\ w.timer => w.pending # <<>>

\* What a step that neither accepts nor settles an event leaves alone; a write
\* in progress keeps its batch, and a controller without work gets none.
Holds(w, u) ==
  /\ u \in Controllers(Nat) /\ WellFormed(u)
  /\ Held(u) = Held(w)
  /\ HasWork(u) => HasWork(w)
  /\ w.writing # "no" =>
       u.writing = w.writing /\ u.active = w.active /\ u.pending = w.pending

LEMMA FreshHolds ==
  Fresh \in Controllers(Nat) /\ WellFormed(Fresh) /\ Held(Fresh) = <<>> /\ ~HasWork(Fresh)
<1>1. /\ Fresh.active = <<>> /\ Fresh.pending = <<>> /\ Fresh.writing = "no"
      /\ Fresh.timer = FALSE
  BY DEF Fresh
<1>2. Fresh \in Controllers(Nat) BY EmptySeq, Zenon DEF Fresh, Controllers
<1>3. Held(Fresh) = <<>> BY <1>1, ConcatEmptySeq, EmptySeq DEF Held
<1> QED BY <1>1, <1>2, <1>3 DEF WellFormed, HasWork

LEMMA StartWriteFields ==
  ASSUME NEW w \in Controllers(Nat), NEW by \in {"background", "drain"}
  PROVE  /\ StartWrite(w, by) \in Controllers(Nat)
         /\ StartWrite(w, by).active = w.pending
         /\ StartWrite(w, by).pending = <<>>
         /\ StartWrite(w, by).writing = by
         /\ StartWrite(w, by).timer = FALSE
         /\ StartWrite(w, by).barrier = w.barrier
<1>1. <<>> \in Seq(Nat) BY EmptySeq
<1> QED BY <1>1 DEF StartWrite, Controllers

LEMMA StartWriteHolds ==
  ASSUME NEW w \in Controllers(Nat), NEW by \in {"background", "drain"},
         WellFormed(w), w.writing = "no", w.pending # <<>>
  PROVE  Holds(w, StartWrite(w, by))
<1>1. w.pending \in Seq(Nat) /\ w.active = <<>>
  BY DEF Controllers, WellFormed
<1>2. Held(w) = w.pending /\ Held(StartWrite(w, by)) = w.pending
  BY <1>1, StartWriteFields, ConcatEmptySeq DEF Held
<1> QED BY <1>2, StartWriteFields DEF Holds, WellFormed, HasWork

LEMMA CancelWaitHolds ==
  ASSUME NEW w \in Controllers(Nat), WellFormed(w)
  PROVE  Holds(w, CancelWait(w)) /\ CancelWait(w).barrier = w.barrier
<1>1. /\ CancelWait(w) \in Controllers(Nat)
      /\ CancelWait(w).active = w.active /\ CancelWait(w).pending = w.pending
      /\ CancelWait(w).writing = w.writing /\ CancelWait(w).timer = FALSE
      /\ CancelWait(w).barrier = w.barrier
  BY DEF CancelWait, Controllers
<1> QED BY <1>1 DEF Holds, WellFormed, HasWork, Held

\* What becomes of a barrier does not touch the queue.
LEMMA BarrierHolds ==
  ASSUME NEW w \in Controllers(Nat), WellFormed(w)
  PROVE  Holds(w, BarrierGone(w))
<1> DEFINE u == BarrierGone(w)
<1>1. /\ u \in Controllers(Nat)
      /\ u.active = w.active /\ u.pending = w.pending
      /\ u.writing = w.writing /\ u.timer = w.timer
  BY DEF Controllers, BarrierGone
<1> QED BY <1>1 DEF Holds, WellFormed, HasWork, Held

LEMMA DrainHolds ==
  ASSUME NEW w \in Controllers(Nat), WellFormed(w)
  PROVE  Holds(w, Drain(w))
<1> DEFINE raised == [w EXCEPT !.timer = FALSE, !.expired = FALSE, !.paused = FALSE,
                               !.barrier = "on"]
<1>1. /\ raised \in Controllers(Nat)
      /\ raised.active = w.active /\ raised.pending = w.pending
      /\ raised.writing = w.writing /\ raised.timer = FALSE
  BY DEF Controllers
<1>2. WellFormed(raised) /\ Holds(w, raised)
  BY <1>1 DEF Holds, WellFormed, HasWork, Held
<1>3. Holds(w, w) BY DEF Holds
<1>4. ASSUME w.barrier = "none", HasWork(w), w.writing = "no"
      PROVE  Holds(w, StartWrite(raised, "drain"))
  <2>1. raised.pending # <<>> BY <1>1, <1>4 DEF HasWork
  <2> HIDE DEF raised
  <2>2. Holds(raised, StartWrite(raised, "drain"))
    BY <1>1, <1>2, <1>4, <2>1, StartWriteHolds
  <2> QED BY <1>2, <1>4, <2>2 DEF Holds
<1> HIDE DEF raised
<1>5. Drain(w) = IF w.barrier # "none" THEN w
                 ELSE IF HasWork(w) /\ w.writing = "no" THEN StartWrite(raised, "drain")
                 ELSE raised
  BY DEF Drain, raised
<1> QED BY <1>2, <1>3, <1>4, <1>5

LEMMA DeadlineHolds ==
  ASSUME NEW w \in Controllers(Nat), WellFormed(w), w.timer
  PROVE  Holds(w, Deadline(w))
<1>1. CASE w.writing = "no"
  BY <1>1, StartWriteHolds DEF Deadline, WellFormed
<1>2. CASE w.writing # "no"
  <2> DEFINE u == [w EXCEPT !.timer = FALSE, !.expired = TRUE]
  <2>1. /\ u \in Controllers(Nat)
        /\ u.active = w.active /\ u.pending = w.pending
        /\ u.writing = w.writing /\ u.timer = FALSE
    BY DEF Controllers
  <2>2. Deadline(w) = u BY <1>2 DEF Deadline
  <2> HIDE DEF u
  <2> QED BY <2>1, <2>2 DEF Holds, WellFormed, HasWork, Held
<1> QED BY <1>1, <1>2

LEMMA AppendNumber ==
  ASSUME NEW s \in Seq(Nat), NEW e \in Nat
  PROVE  /\ Append(s, e) \in Seq(Nat) /\ Append(s, e) # <<>>
         /\ \A t \in Seq(Nat) : t \o Append(s, e) = Append(t \o s, e)
<1>1. Append(s, e) \in Seq(Nat) /\ Append(s, e) # <<>> BY AppendProperties
<1>2. ASSUME NEW t \in Seq(Nat) PROVE t \o Append(s, e) = Append(t \o s, e)
  <2>1. <<e>> \in Seq(Nat) OBVIOUS
  <2>2. t \o s \in Seq(Nat) BY ConcatProperties
  <2>3. Append(s, e) = s \o <<e>> BY AppendIsConcat
  <2>4. Append(t \o s, e) = (t \o s) \o <<e>> BY <2>2, AppendIsConcat
  <2> QED BY <2>1, <2>3, <2>4, ConcatAssociative
<1> QED BY <1>1, <1>2

\* A new event is queued behind the others.
LEMMA EnqueueHolds ==
  ASSUME NEW w \in Controllers(Nat), WellFormed(w), NEW e \in Nat
  PROVE  /\ Enqueue(w, e) \in Controllers(Nat) /\ WellFormed(Enqueue(w, e))
         /\ Enqueue(w, e).active = w.active /\ Enqueue(w, e).writing = w.writing
         /\ Enqueue(w, e).pending = Append(w.pending, e)
         /\ Held(Enqueue(w, e)) = Append(Held(w), e)
<1> DEFINE q == [w EXCEPT !.pending = Append(@, e)]
           q1 == [q EXCEPT !.paused = FALSE, !.expired = FALSE, !.timer = TRUE]
           q2 == [q EXCEPT !.timer = TRUE]
           Queued(u) == /\ u \in Controllers(Nat)
                        /\ u.active = w.active /\ u.writing = w.writing
                        /\ u.pending = Append(w.pending, e)
<1>0. w.active \in Seq(Nat) /\ w.pending \in Seq(Nat) BY DEF Controllers
<1>1. Append(w.pending, e) \in Seq(Nat) /\ Append(w.pending, e) # <<>>
  BY <1>0, AppendNumber
<1>2. Queued(q) /\ (q.timer <=> w.timer)
  <2> HIDE DEF Queued
  <2> DEFINE p == Append(w.pending, e)
  <2>1. p \in Seq(Nat) BY <1>1
  <2>2. q = [w EXCEPT !.pending = p] OBVIOUS
  <2> HIDE DEF p, q
  <2>3. /\ q \in Controllers(Nat) /\ q.active = w.active /\ q.writing = w.writing
        /\ q.pending = p /\ q.timer = w.timer
    BY <2>1, <2>2 DEF Controllers
  <2> QED BY <2>3 DEF Queued, p
<1>3. Queued(q1) /\ Queued(q2)
  <2> HIDE DEF q
  <2>1. /\ q1 \in Controllers(Nat) /\ q1.active = q.active /\ q1.writing = q.writing
        /\ q1.pending = q.pending
    BY <1>2 DEF Controllers
  <2>2. /\ q2 \in Controllers(Nat) /\ q2.active = q.active /\ q2.writing = q.writing
        /\ q2.pending = q.pending
    BY <1>2 DEF Controllers
  <2> QED BY <1>2, <2>1, <2>2
<1>4. Enqueue(w, e) \in {q, q1, q2}
  <2> HIDE DEF q1, q2
  <2>1. Enqueue(w, e) =
          CASE w.barrier # "none" -> q
            [] w.barrier = "none" /\ w.paused -> q1
            [] w.barrier = "none" /\ ~w.paused /\ w.pending = <<>> -> q2
            [] OTHER -> q
    BY DEF Enqueue, q1, q2
  <2> HIDE DEF q
  <2> QED BY <2>1
<1>5. Queued(Enqueue(w, e)) BY <1>2, <1>3, <1>4
<1> HIDE DEF q, q1, q2
<1>6. Held(Enqueue(w, e)) = Append(Held(w), e)
  <2>1. w.active \o Append(w.pending, e) = Append(w.active \o w.pending, e)
    BY <1>0, AppendNumber
  <2> QED BY <1>5, <2>1 DEF Held
<1>7. WellFormed(Enqueue(w, e)) BY <1>1, <1>5 DEF WellFormed
<1> QED BY <1>5, <1>6, <1>7

\* A batch that is durable leaves the queue, ...
LEMMA LandedHolds ==
  ASSUME NEW w \in Controllers(Nat), WellFormed(w)
  PROVE  /\ Landed(w) \in Controllers(Nat) /\ WellFormed(Landed(w))
         /\ Held(Landed(w)) = w.pending
         /\ HasWork(Landed(w)) => w.pending # <<>>
<1> DEFINE idle == [w EXCEPT !.active = <<>>, !.writing = "no"]
<1>0. w.pending \in Seq(Nat) BY DEF Controllers
<1>1. /\ idle \in Controllers(Nat) /\ idle.active = <<>> /\ idle.writing = "no"
      /\ idle.pending = w.pending /\ idle.timer = w.timer
  <2>1. <<>> \in Seq(Nat) BY EmptySeq
  <2> QED BY <2>1 DEF Controllers
<1>2. Landed(w) = IF w.barrier = "none" /\ w.pending # <<>> /\ w.expired
                  THEN StartWrite(idle, "background") ELSE idle
  BY DEF Landed
<1> HIDE DEF idle
<1>3. WellFormed(idle) /\ Held(idle) = w.pending
  BY <1>0, <1>1, ConcatEmptySeq DEF WellFormed, Held
<1>4. ASSUME w.pending # <<>> PROVE Holds(idle, StartWrite(idle, "background"))
  BY <1>1, <1>3, <1>4, StartWriteHolds
<1>5. HasWork(idle) => w.pending # <<>> BY <1>1 DEF HasWork
<1> QED BY <1>1, <1>2, <1>3, <1>4, <1>5 DEF Holds

\* ... and one that failed goes back to its front.
LEMMA FailedHolds ==
  ASSUME NEW w \in Controllers(Nat), WellFormed(w)
  PROVE  /\ Failed(w) \in Controllers(Nat) /\ WellFormed(Failed(w))
         /\ Held(Failed(w)) = Held(w)
         /\ Failed(w).writing = "no"
         /\ HasWork(Failed(w)) => HasWork(w)
<1> DEFINE p == w.active \o w.pending
           idles == ~(w.writing = "background" /\ w.barrier = "on")
           b == IF w.writing = "drain" THEN "rejecting" ELSE w.barrier
<1>0. w.active \in Seq(Nat) /\ w.pending \in Seq(Nat) BY DEF Controllers
<1>1. p \in Seq(Nat) BY <1>0, ConcatProperties
<1>2. idles \in BOOLEAN /\ b \in {"none", "on", "rejecting"} BY DEF Controllers
<1>3. Failed(w) = [w EXCEPT !.pending = p, !.active = <<>>, !.writing = "no",
                            !.timer = FALSE, !.expired = FALSE,
                            !.paused = idles, !.barrier = b]
  BY DEF Failed
<1> HIDE DEF p, idles, b
<1>4. /\ Failed(w) \in Controllers(Nat) /\ Failed(w).pending = p
      /\ Failed(w).active = <<>> /\ Failed(w).writing = "no" /\ Failed(w).timer = FALSE
  <2>1. <<>> \in Seq(Nat) BY EmptySeq
  <2> QED BY <1>1, <1>2, <1>3, <2>1 DEF Controllers
<1>5. Held(Failed(w)) = Held(w) BY <1>1, <1>4, ConcatEmptySeq DEF Held, p
<1>6. HasWork(Failed(w)) => HasWork(w)
  <2>1. p # <<>> => w.pending # <<>> \/ w.active # <<>>
    BY <1>0, ConcatEqualIffEmpty DEF p
  <2> QED BY <1>4, <2>1 DEF HasWork, WellFormed
<1> QED BY <1>4, <1>5, <1>6 DEF WellFormed

-----------------------------------------------------------------------------
(* Types: those of TypeOK, of every field.                                 *)

Disks == [made : BOOLEAN, log : Logs, tail : Logs, torn : BOOLEAN]
Sources == [log : Logs, seen : Disks]
SessionRecs == [at : {"unborn", "open", "gone", "dead"}, log : Logs, born : Nat]
LiveRecs ==
  [init : {"none", "pending", "ok", "broken", "refused"}, w : Controllers(Nat),
   flush : {"no", "asked", "draining", "failed"}, upto : Nat, since : Nat]
StateRecs ==
  [owner : Lives \cup {None}, cursor : Nat, made : BOOLEAN, tracked : BOOLEAN]
LifeOps == {"create", "suffix", "write", "retire"}
ReaderOps == {"check", "commit"}
OpRecs ==
  [op : LifeOps \cup ReaderOps \cup {"read"}, by : Lives \cup Readers \cup {None}]
Jobs ==
  [does : {"nothing", "append", "appended", "repair", "repaired"}, cut : BOOLEAN,
   batch : Logs]
Entries ==
  [phase : {"none", "loading", "ready", "committing", "reserved"}, source : Sources]
CallRecs ==
  [at : {"idle", "wait", "join", "check", "commit", "held", "live", "done"},
   call : Calls \cup {"none"}, holds : BOOLEAN, of : Lives \cup {None},
   source : Sources]

TypeInv ==
  /\ disk \in Disks /\ acked \in Logs
  /\ sessions \in [Lives -> SessionRecs]
  /\ live \in [Lives -> LiveRecs]
  /\ states \in StateRecs /\ retirement \in Lives \cup {None}
  /\ chain \in Seq(OpRecs) /\ job \in Jobs
  /\ entry \in Entries /\ readers \in [Readers -> CallRecs]
  /\ plugin \in {"on", "closing", "off"}
  /\ spent \in [reads : Nat, incidents : Nat]

-----------------------------------------------------------------------------
(* The inductive invariant.                                                *)

\* What is reported durable is a prefix of the complete events of the file.
DiskInv ==
  /\ Begins(acked, disk.log)
  /\ ~disk.made => disk.log = <<>> /\ disk.tail = <<>>
  /\ disk.tail # <<>> => disk.torn

\* An operation of the chain stands for work in the state it was queued in: a
\* controller that is initialized writes, a life that waits for its
\* initialization is created or resumed, a disposed life without work retires,
\* and a reader waits for its check or its commit.
Stands(o, lv, ss, rd) ==
  /\ o.op \in LifeOps => o.by \in Lives
  /\ o.op = "write" => lv[o.by].init = "ok" /\ lv[o.by].w.writing # "no"
  /\ o.op \in {"create", "suffix"} => lv[o.by].init = "pending"
  /\ o.op = "retire" =>
       lv[o.by].init = "ok" /\ ~HasWork(lv[o.by].w) /\ ss[o.by].at = "gone"
  /\ o.op \in ReaderOps => o.by \in Readers /\ rd[o.by].at = o.op

Kin(o, p) ==
  /\ o.by = p.by
  /\ \/ o.op \in LifeOps /\ p.op \in LifeOps
     \/ o.op \in ReaderOps /\ p.op \in ReaderOps

\* ... and nobody has two of them.
Sound(c, lv, ss, rd) ==
  /\ \A i \in DOMAIN c : Stands(c[i], lv, ss, rd)
  /\ \A i, j \in DOMAIN c : i # j => ~Kin(c[i], c[j])

ChainInv == Sound(chain, live, sessions, readers)

\* The queue of a life: numbers of its own events, and while the plugin listens
\* exactly the last ones, in order.
Queues(v, s, on) ==
  /\ WellFormed(v.w)
  /\ \A i \in 1 .. Len(Held(v.w)) : Held(v.w)[i] \in 1 .. Len(s.log)
  /\ on => \A i \in 1 .. Len(Held(v.w)) :
             Held(v.w)[i] = Len(s.log) - Len(Held(v.w)) + i

\* What the stages of a life say of it; `stored` is the length of the log.
Stages(v, s, on, stored) ==
  /\ v.flush = "draining" => v.init = "ok"
  /\ s.at = "unborn" => v = NoLive /\ s.log = <<>>
  /\ s.born <= Len(s.log)
  /\ on /\ v.init = "pending" => Len(s.log) <= s.born + Len(Held(v.w))
  /\ on /\ v.init = "ok" => Len(s.log) <= stored + Len(Held(v.w))

LivesInv ==
  \A l \in Lives :
    /\ Queues(live[l], sessions[l], plugin = "on")
    /\ Stages(live[l], sessions[l], plugin = "on", Len(disk.log))

\* An append of a life takes the cursor past everything it has not queued
\* behind the batch.
Covers(o, n, lv, ss, on) ==
  /\ o.op = "write" /\ on => Len(ss[o.by].log) <= n + Len(lv[o.by].w.pending)
  /\ o.op \in {"create", "suffix"} => ss[o.by].born <= n

JobInv ==
  /\ job.does = "nothing" => job = NoJob
  /\ job.cut => job.does = "repair"
  /\ job.does \in {"append", "appended"} =>
       /\ chain # <<>> /\ Head1.op \in {"create", "suffix", "write"}
       /\ Covers(Head1, states.cursor + Len(job.batch), live, sessions, plugin = "on")
  /\ job.does \in {"repair", "repaired"} => chain # <<>> /\ Head1.op = "commit"
  /\ job.does = "appended" => states.cursor + Len(job.batch) <= Len(disk.log)

CursorInv == states.cursor <= Len(disk.log)

\* A plugin that is being disposed has no callers, and one that is has nothing.
PluginInv ==
  /\ plugin # "on" => \A r \in Readers : readers[r].at \in {"idle", "done"}
  /\ plugin = "off" => chain = <<>> /\ \A l \in Lives : live[l] = NoLive

Inv ==
  /\ TypeInv /\ DiskInv /\ ChainInv /\ LivesInv /\ JobInv /\ CursorInv /\ PluginInv


-----------------------------------------------------------------------------
(* The chain.                                                              *)

LEMMA OpFields ==
  ASSUME NEW op \in LifeOps \cup ReaderOps \cup {"read"},
         NEW by \in Lives \cup Readers \cup {None}
  PROVE  /\ Op(op, by) = <<Op(op, by)[1]>> /\ Op(op, by) \in Seq(OpRecs)
         /\ Op(op, by)[1] \in OpRecs
         /\ Op(op, by)[1].op = op /\ Op(op, by)[1].by = by
<1> DEFINE o == [op |-> op, by |-> by]
<1>1. o \in OpRecs BY DEF OpRecs
<1>2. o.op = op /\ o.by = by OBVIOUS
<1>3. Op(op, by) = <<o>> BY DEF Op
<1> HIDE DEF o
<1> QED BY <1>1, <1>2, <1>3

\* The operation at the head is over.
LEMMA PopSound ==
  ASSUME NEW c \in Seq(OpRecs), c # <<>>, NEW lv, NEW ss, NEW rd, Sound(c, lv, ss, rd)
  PROVE  /\ Tail(c) \in Seq(OpRecs) /\ Sound(Tail(c), lv, ss, rd)
         /\ c[1] \in OpRecs /\ Stands(c[1], lv, ss, rd)
         /\ \A i \in DOMAIN Tail(c) : ~Kin(Tail(c)[i], c[1])
<1>1. /\ Tail(c) \in Seq(OpRecs) /\ Len(Tail(c)) = Len(c) - 1
      /\ \A i \in 1 .. Len(Tail(c)) : Tail(c)[i] = c[i + 1]
      /\ Len(c) \in Nat \ {0} /\ DOMAIN c = 1 .. Len(c)
      /\ DOMAIN Tail(c) = 1 .. Len(Tail(c))
  BY HeadTailProperties, LenProperties, EmptySeq
<1>2. \A i \in DOMAIN Tail(c) : i + 1 \in DOMAIN c /\ i + 1 # 1 BY <1>1
<1>3. c[1] \in OpRecs BY <1>1, ElementOfSeq
<1>4. Sound(Tail(c), lv, ss, rd) BY <1>1, <1>2 DEF Sound
<1>5. Stands(c[1], lv, ss, rd) BY <1>1 DEF Sound
<1>6. \A i \in DOMAIN Tail(c) : ~Kin(Tail(c)[i], c[1]) BY <1>1, <1>2 DEF Sound
<1> QED BY <1>1, <1>3, <1>4, <1>5, <1>6

\* An operation is queued for somebody who has none.
LEMMA PushSound ==
  ASSUME NEW c \in Seq(OpRecs), NEW lv, NEW ss, NEW rd, Sound(c, lv, ss, rd),
         NEW o \in OpRecs, Stands(o, lv, ss, rd), \A i \in DOMAIN c : ~Kin(c[i], o)
  PROVE  /\ c \o <<o>> \in Seq(OpRecs) /\ Sound(c \o <<o>>, lv, ss, rd)
         /\ c \o <<o>> # <<>> /\ (c # <<>> => (c \o <<o>>)[1] = c[1])
<1> DEFINE d == c \o <<o>>
<1>1. <<o>> \in Seq(OpRecs) /\ Len(<<o>>) = 1 /\ <<o>>[1] = o OBVIOUS
<1>2. /\ d \in Seq(OpRecs) /\ Len(d) = Len(c) + 1
      /\ \A i \in 1 .. Len(c) + 1 : d[i] = IF i <= Len(c) THEN c[i] ELSE o
  BY <1>1, ConcatProperties
<1>3. Len(c) \in Nat /\ DOMAIN c = 1 .. Len(c) /\ DOMAIN d = 1 .. Len(d)
      /\ (c # <<>> => Len(c) # 0)
  BY <1>2, LenProperties, EmptySeq
<1> HIDE DEF d
<1>4. \A i \in DOMAIN d : (i \in DOMAIN c /\ d[i] = c[i]) \/ (i = Len(c) + 1 /\ d[i] = o)
  BY <1>2, <1>3
<1>5. \A i \in DOMAIN c : ~Kin(o, c[i]) BY DEF Kin
<1>6. Sound(d, lv, ss, rd) BY <1>4, <1>5 DEF Sound
<1>7. d # <<>> BY <1>2, <1>3, EmptySeq
<1>8. c # <<>> => d[1] = c[1] BY <1>2, <1>3
<1> QED BY <1>2, <1>6, <1>7, <1>8 DEF d

\* The reads of a removed entry change nothing for the others.
LEMMA OrphanSound ==
  ASSUME NEW c \in Seq(OpRecs), NEW lv, NEW ss, NEW rd, Sound(c, lv, ss, rd)
  PROVE  /\ Orphan(c) \in Seq(OpRecs) /\ Sound(Orphan(c), lv, ss, rd)
         /\ DOMAIN Orphan(c) = DOMAIN c
         /\ \A i \in DOMAIN c : \/ Orphan(c)[i] = c[i]
                                \/ c[i].op = "read" /\ Orphan(c)[i].op = "read"
         /\ c # <<>> => Orphan(c) # <<>>
         /\ c = <<>> => Orphan(c) = <<>>
<1> DEFINE o == Op("read", None)[1]
           d == Orphan(c)
<1>1. o \in OpRecs /\ o.op = "read" BY OpFields
<1> HIDE DEF o
<1>2. Len(c) \in Nat /\ DOMAIN c = 1 .. Len(c) /\ \A i \in 1 .. Len(c) : c[i] \in OpRecs
  BY LenProperties, ElementOfSeq
<1>3. d = [i \in 1 .. Len(c) |-> IF c[i].op = "read" THEN o ELSE c[i]]
  BY <1>2 DEF Orphan, o
<1>4. d \in [1 .. Len(c) -> OpRecs] BY <1>1, <1>2, <1>3
<1>5. d \in Seq(OpRecs) BY <1>2, <1>4, SeqDef
<1>6. DOMAIN d = DOMAIN c BY <1>2, <1>4
<1>7. \A i \in DOMAIN c : d[i] = c[i] \/ (c[i].op = "read" /\ d[i].op = "read")
  BY <1>1, <1>2, <1>3
<1> HIDE DEF d
<1>8. Sound(d, lv, ss, rd)
  BY <1>6, <1>7 DEF Sound, Stands, Kin, LifeOps, ReaderOps
<1>9. (c # <<>> => d # <<>>) /\ (c = <<>> => d = <<>>)
  <2>1. Len(d) = Len(c) BY <1>2, <1>5, <1>6, LenProperties
  <2> QED BY <1>5, <2>1, EmptySeq
<1> QED BY <1>5, <1>6, <1>7, <1>8, <1>9 DEF d

\* A life keeps what its operations in the chain stand for.
Keeps(v, s, u, t) ==
  /\ u.init = v.init
  /\ v.w.writing # "no" => u.w.writing # "no"
  /\ s.at = "gone" => t.at = "gone" /\ (HasWork(u.w) => HasWork(v.w))

LEMMA KeepsSound ==
  ASSUME NEW c, NEW lv, NEW ss, NEW rd, Sound(c, lv, ss, rd), NEW lv2, NEW ss2,
         \A i \in DOMAIN c : c[i].op \in LifeOps =>
            Keeps(lv[c[i].by], ss[c[i].by], lv2[c[i].by], ss2[c[i].by])
  PROVE  Sound(c, lv2, ss2, rd)
BY DEF Sound, Stands, Keeps, LifeOps

LEMMA ReadersSound ==
  ASSUME NEW c, NEW lv, NEW ss, NEW rd, Sound(c, lv, ss, rd), NEW rd2,
         \A r \in Readers : rd[r].at \in ReaderOps => rd2[r].at = rd[r].at
  PROVE  Sound(c, lv, ss, rd2)
BY DEF Sound, Stands, ReaderOps

\* The write of a controller that has started one joins the chain.
LEMMA EnlistSound ==
  ASSUME NEW c \in Seq(OpRecs), NEW lv, NEW ss, NEW rd, Sound(c, lv, ss, rd),
         NEW l \in Lives
  PROVE  /\ Enlist(l, lv, c) \in Seq(OpRecs) /\ Sound(Enlist(l, lv, c), lv, ss, rd)
         /\ c # <<>> => Enlist(l, lv, c) # <<>> /\ Enlist(l, lv, c)[1] = c[1]
<1> DEFINE o == Op("write", l)[1]
<1>1. /\ o \in OpRecs /\ o.op = "write" /\ o.by = l /\ Op("write", l) = <<o>>
  BY OpFields DEF LifeOps
<1>2. CASE Unqueued(l, lv, c) /\ lv[l].init = "ok"
  <2>1. Stands(o, lv, ss, rd)
    BY <1>1, <1>2 DEF Stands, Unqueued, ReaderOps
  <2>2. \A i \in DOMAIN c : c[i] \in OpRecs BY LenProperties, ElementOfSeq
  <2>3. \A i \in DOMAIN c : c[i] # o BY <1>2 DEF Unqueued
  <2>4. ASSUME NEW i \in DOMAIN c, Kin(c[i], o) PROVE FALSE
    <3>1. c[i].by = l /\ c[i].op \in LifeOps
      BY <1>1, <2>4 DEF Kin, ReaderOps
    <3>2. Stands(c[i], lv, ss, rd) BY DEF Sound
    <3>3. HasWork(lv[l].w) BY <1>2 DEF HasWork, Unqueued
    <3>4. c[i].op = "write" BY <1>2, <3>1, <3>2, <3>3 DEF Stands, LifeOps
    <3>5. c[i] = o BY <1>1, <2>2, <3>1, <3>4 DEF OpRecs
    <3> QED BY <2>3, <3>5
  <2>5. Enlist(l, lv, c) = c \o <<o>> BY <1>1, <1>2 DEF Enlist
  <2> HIDE DEF o
  <2> QED BY <1>1, <2>1, <2>4, <2>5, PushSound
<1>3. CASE ~(Unqueued(l, lv, c) /\ lv[l].init = "ok")
  BY <1>3 DEF Enlist
<1> QED BY <1>2, <1>3

-----------------------------------------------------------------------------
(* A life's entry.                                                         *)

LEMMA NoLiveFields ==
  /\ NoLive \in LiveRecs /\ NoLive.init = "none" /\ NoLive.w = Fresh
  /\ NoLive.flush = "no"
  /\ Fresh.timer = FALSE /\ Fresh.writing = "no" /\ Fresh.barrier = "none"
  /\ Fresh.pending = <<>> /\ Fresh.active = <<>>
<1>1. Fresh \in Controllers(Nat) BY FreshHolds
<1>2. /\ Fresh.timer = FALSE /\ Fresh.writing = "no" /\ Fresh.barrier = "none"
      /\ Fresh.pending = <<>> /\ Fresh.active = <<>>
  BY DEF Fresh
<1>3. NoLive \in LiveRecs /\ NoLive.init = "none" /\ NoLive.w = Fresh /\ NoLive.flush = "no"
  BY <1>1, Zenon DEF NoLive, LiveRecs
<1> QED BY <1>2, <1>3

LEMMA StartingFields ==
  /\ Starting \in LiveRecs /\ Starting.init = "pending" /\ Starting.w = Fresh
  /\ Starting.flush = "no"
<1>1. /\ NoLive \in LiveRecs /\ NoLive.w = Fresh /\ NoLive.flush = "no"
  BY NoLiveFields
<1> QED BY <1>1 DEF Starting, LiveRecs

LEMMA SetW ==
  ASSUME NEW v \in LiveRecs, NEW w \in Controllers(Nat)
  PROVE  /\ [v EXCEPT !.w = w] \in LiveRecs
         /\ [v EXCEPT !.w = w].w = w
         /\ [v EXCEPT !.w = w].init = v.init
         /\ [v EXCEPT !.w = w].flush = v.flush
  BY DEF LiveRecs

LEMMA SetInit ==
  ASSUME NEW v \in LiveRecs,
         NEW init \in {"none", "pending", "ok", "broken", "refused"}
  PROVE  /\ [v EXCEPT !.init = init] \in LiveRecs
         /\ [v EXCEPT !.init = init].init = init
         /\ [v EXCEPT !.init = init].w = v.w
         /\ [v EXCEPT !.init = init].flush = v.flush
  BY DEF LiveRecs

LEMMA LiveParts ==
  ASSUME NEW v \in LiveRecs
  PROVE  /\ v.w \in Controllers(Nat) /\ v.upto \in Nat /\ v.since \in Nat
         /\ v.init \in {"none", "pending", "ok", "broken", "refused"}
         /\ v.flush \in {"no", "asked", "draining", "failed"}
         /\ Held(v.w) \in Seq(Nat) /\ Len(Held(v.w)) \in Nat
         /\ v.w.active \in Seq(Nat) /\ v.w.pending \in Seq(Nat)
         /\ v.w.timer \in BOOLEAN /\ v.w.writing \in {"no", "background", "drain"}
<1>1. v.w \in Controllers(Nat) BY DEF LiveRecs
<1>2. v.w.active \in Seq(Nat) /\ v.w.pending \in Seq(Nat) BY <1>1 DEF Controllers
<1>3. Held(v.w) \in Seq(Nat) /\ Len(Held(v.w)) \in Nat
  BY <1>2, ConcatProperties, LenProperties DEF Held
<1> QED BY <1>1, <1>2, <1>3 DEF LiveRecs, Controllers

\* An entry that holds the same events in the same stage.
LEMMA HoldsLife ==
  ASSUME NEW v \in LiveRecs, NEW u \in LiveRecs, NEW s, NEW on, NEW stored,
         Queues(v, s, on), Stages(v, s, on, stored),
         Holds(v.w, u.w), u.init = v.init, s.at # "unborn",
         u.flush = "draining" => u.init = "ok"
  PROVE  Queues(u, s, on) /\ Stages(u, s, on, stored) /\ Keeps(v, s, u, s)
<1>1. WellFormed(u.w) /\ Held(u.w) = Held(v.w) BY DEF Holds
<1>2. Queues(u, s, on) BY <1>1 DEF Queues
<1>3. Stages(u, s, on, stored) BY <1>1 DEF Stages
<1>4. Keeps(v, s, u, s) BY DEF Keeps, Holds
<1> QED BY <1>2, <1>3, <1>4

LEMMA AskedFields ==
  ASSUME TypeInv, LivesInv, NEW l \in Lives
  PROVE  /\ Asked(l) \in LiveRecs
         /\ Holds(live[l].w, Asked(l).w)
         /\ Asked(l).init = live[l].init
         /\ Asked(l).flush \in {"asked", "draining"}
         /\ Asked(l).flush = "draining" => Asked(l).init = "ok"
         /\ Asked(l).upto = Len(sessions[l].log)
<1> DEFINE v == live[l]
           w == CancelWait(v.w)
           go == v.init = "ok"
           d == IF go THEN Drain(w) ELSE w
           f == IF go THEN "draining" ELSE "asked"
           n == Len(sessions[l].log)
           since == IF v.flush \in {"asked", "draining"} THEN v.since ELSE spent.incidents
<1>1. v \in LiveRecs /\ v.w \in Controllers(Nat) /\ v.since \in Nat
  BY LiveParts DEF TypeInv
<1>2. WellFormed(v.w) BY DEF LivesInv, Queues
<1>3. Holds(v.w, w) BY <1>1, <1>2, CancelWaitHolds
<1>4. Holds(v.w, d)
  <2>1. Holds(w, Drain(w)) BY <1>3, DrainHolds DEF Holds
  <2> HIDE DEF w, v
  <2>2. Holds(v.w, Drain(w)) BY <1>3, <2>1 DEF Holds
  <2> QED BY <1>3, <2>2
<1>5. n \in Nat /\ since \in Nat
  <2>1. sessions[l].log \in Seq(Events) BY DEF TypeInv, SessionRecs, Logs
  <2>2. n \in Nat BY <2>1, LenProperties
  <2> QED BY <1>1, <2>2 DEF TypeInv
<1>6. Asked(l) = [v EXCEPT !.w = d, !.flush = f, !.upto = n, !.since = since]
  BY DEF Asked
<1>7. d \in Controllers(Nat) BY <1>4 DEF Holds
<1>8. f \in {"asked", "draining"} /\ (f = "draining" => v.init = "ok") OBVIOUS
<1> HIDE DEF d, f, n, since, w, go
<1>9. /\ Asked(l) \in LiveRecs /\ Asked(l).w = d /\ Asked(l).init = v.init
      /\ Asked(l).flush = f /\ Asked(l).upto = n
  <2> HIDE DEF v
  <2> QED BY <1>1, <1>5, <1>6, <1>7, <1>8 DEF LiveRecs
<1> QED BY <1>4, <1>8, <1>9 DEF n

\* The controller of a life steps, and the life may be disposed: what the
\* operations in the chain and the append in progress rely on is kept.
LEMMA LifeKept ==
  ASSUME Inv, NEW l \in Lives, NEW v \in LiveRecs, live' = [live EXCEPT ![l] = v],
         NEW s \in SessionRecs, sessions' = [sessions EXCEPT ![l] = s],
         s.log = sessions[l].log, s.born = sessions[l].born, s.at # "unborn",
         sessions[l].at # "unborn", sessions[l].at = "gone" => s.at = "gone",
         Holds(live[l].w, v.w), v.init = live[l].init,
         v.flush = "draining" => v.init = "ok",
         UNCHANGED <<disk, plugin>>
  PROVE  /\ live' \in [Lives -> LiveRecs] /\ sessions' \in [Lives -> SessionRecs]
         /\ Sound(chain, live', sessions', readers)
         /\ LivesInv'
         /\ job.does \in {"append", "appended"} =>
              Covers(Head1, states.cursor + Len(job.batch), live', sessions', plugin = "on")
<1> USE DEF Inv
<1>0. /\ live \in [Lives -> LiveRecs] /\ chain \in Seq(OpRecs) /\ live[l] \in LiveRecs
      /\ live' \in [Lives -> LiveRecs] /\ sessions' \in [Lives -> SessionRecs]
      /\ live'[l] = v /\ \A k \in Lives : k # l => live'[k] = live[k]
      /\ sessions'[l] = s /\ \A k \in Lives : k # l => sessions'[k] = sessions[k]
  BY DEF TypeInv
<1>1. /\ Queues(v, s, plugin = "on")
      /\ Stages(v, s, plugin = "on", Len(disk.log))
      /\ Keeps(live[l], sessions[l], v, s)
  <2>1. /\ Queues(v, sessions[l], plugin = "on")
        /\ Stages(v, sessions[l], plugin = "on", Len(disk.log))
        /\ Keeps(live[l], sessions[l], v, sessions[l])
    BY <1>0, HoldsLife DEF LivesInv
  <2>2. Queues(v, s, plugin = "on") BY <2>1 DEF Queues
  <2>3. Stages(v, s, plugin = "on", Len(disk.log)) BY <2>1 DEF Stages
  <2>4. Keeps(live[l], sessions[l], v, s) BY <2>1 DEF Keeps
  <2> QED BY <2>2, <2>3, <2>4
<1>2. LivesInv' BY <1>0, <1>1 DEF LivesInv
<1>3. \A k \in Lives : Keeps(live[k], sessions[k], live'[k], sessions'[k])
  BY <1>0, <1>1 DEF Keeps
<1>4. Sound(chain, live', sessions', readers)
  <2>1. \A i \in DOMAIN chain : chain[i].op \in LifeOps => chain[i].by \in Lives
    BY DEF ChainInv, Sound, Stands
  <2> QED BY <1>3, <2>1, KeepsSound DEF ChainInv
<1>5. ASSUME job.does \in {"append", "appended"}
      PROVE  Covers(Head1, states.cursor + Len(job.batch), live', sessions', plugin = "on")
  <2>1. chain # <<>> BY <1>5 DEF JobInv
  <2>2. Stands(chain[1], live, sessions, readers) BY <1>0, <2>1, PopSound DEF ChainInv
  <2>3. chain[1].op = "write" =>
          /\ chain[1].by \in Lives
          /\ live'[chain[1].by].w.pending = live[chain[1].by].w.pending
    BY <1>0, <2>2 DEF Stands, LifeOps, Holds
  <2>4. chain[1].op \in {"create", "suffix"} => chain[1].by \in Lives
    BY <2>2 DEF Stands, LifeOps
  <2>5. \A k \in Lives : sessions'[k].log = sessions[k].log /\ sessions'[k].born = sessions[k].born
    BY <1>0
  <2> QED BY <1>5, <2>3, <2>4, <2>5 DEF JobInv, Covers, Head1
<1> QED BY <1>0, <1>2, <1>4, <1>5

\* The operation in progress goes on while others are queued behind it.
LEMMA JobKept ==
  ASSUME JobInv, UNCHANGED <<disk, states, job, plugin>>,
         chain # <<>> => chain' # <<>> /\ chain'[1] = chain[1],
         job.does \in {"append", "appended"} =>
           Covers(Head1, states.cursor + Len(job.batch), live', sessions', plugin = "on")
  PROVE  JobInv'
<1>1. CASE job.does \in {"append", "appended"}
  BY <1>1 DEF JobInv, Head1
<1>2. CASE job.does \notin {"append", "appended"}
  BY <1>2 DEF JobInv, Head1
<1> QED BY <1>1, <1>2

\* ... and its write, if it starts one, joins the chain.
LEMMA LifeStep ==
  ASSUME Inv, NEW l \in Lives, NEW v \in LiveRecs, live' = [live EXCEPT ![l] = v],
         NEW s \in SessionRecs, sessions' = [sessions EXCEPT ![l] = s],
         s.log = sessions[l].log, s.born = sessions[l].born, s.at # "unborn",
         sessions[l].at # "unborn", sessions[l].at = "gone" => s.at = "gone",
         Holds(live[l].w, v.w), v.init = live[l].init,
         v.flush = "draining" => v.init = "ok",
         chain' = Enlist(l, live', chain),
         UNCHANGED <<disk, states, job, plugin>>
  PROVE  /\ live' \in [Lives -> LiveRecs] /\ chain' \in Seq(OpRecs)
         /\ sessions' \in [Lives -> SessionRecs]
         /\ Sound(chain', live', sessions', readers)
         /\ LivesInv' /\ JobInv'
<1>1. /\ live' \in [Lives -> LiveRecs] /\ sessions' \in [Lives -> SessionRecs]
      /\ Sound(chain, live', sessions', readers)
      /\ LivesInv'
      /\ job.does \in {"append", "appended"} =>
           Covers(Head1, states.cursor + Len(job.batch), live', sessions', plugin = "on")
  BY LifeKept
<1>2. chain \in Seq(OpRecs) BY DEF Inv, TypeInv
<1>3. /\ chain' \in Seq(OpRecs) /\ Sound(chain', live', sessions', readers)
      /\ chain # <<>> => chain' # <<>> /\ chain'[1] = chain[1]
  BY <1>1, <1>2, EnlistSound
<1>4. JobInv' BY <1>1, <1>3, JobKept DEF Inv
<1> QED BY <1>1, <1>3, <1>4

\* A plugin that is off has no live entry to act on.
LEMMA Attached ==
  ASSUME Inv, NEW l \in Lives,
         live[l].flush # "no" \/ live[l].w.timer \/ live[l].w.writing # "no"
           \/ live[l].w.barrier # "none" \/ live[l].init # "none"
  PROVE  /\ plugin # "off" /\ sessions[l].at # "unborn"
         /\ sessions[l] \in SessionRecs /\ live[l] \in LiveRecs
         /\ sessions = [sessions EXCEPT ![l] = sessions[l]]
<1>1. live[l] # NoLive BY NoLiveFields
<1>2. plugin # "off" /\ sessions[l].at # "unborn"
  BY <1>1 DEF Inv, PluginInv, LivesInv, Stages
<1> QED BY <1>2 DEF Inv, TypeInv

-----------------------------------------------------------------------------
(* Steps of a controller.                                                  *)

LEMMA FlushInv ==
  ASSUME Inv, NEW l \in Lives, Flush(l) \/ FlushGo(l)
  PROVE  Inv'
<1> USE DEF Inv
<1> DEFINE v == live'[l]
<1>1. /\ sessions[l].at # "unborn" /\ sessions[l] \in SessionRecs
      /\ live[l] \in LiveRecs /\ plugin # "off"
      /\ sessions = [sessions EXCEPT ![l] = sessions[l]]
  <2>1. CASE Flush(l) BY <2>1 DEF Flush, Open, TypeInv
  <2>2. CASE FlushGo(l) BY <2>2, Attached DEF FlushGo
  <2> QED BY <2>1, <2>2
<1>2. /\ v \in LiveRecs /\ live' = [live EXCEPT ![l] = v]
      /\ Holds(live[l].w, v.w) /\ v.init = live[l].init
      /\ v.flush = "draining" => v.init = "ok"
  <2>1. CASE Flush(l)
    <3>1. live' = [live EXCEPT ![l] = Asked(l)] /\ v = Asked(l)
      BY <2>1 DEF Flush, TypeInv
    <3> QED BY <3>1, AskedFields
  <2>2. CASE FlushGo(l)
    <3> DEFINE u == [live[l] EXCEPT !.w = Drain(live[l].w), !.flush = "draining"]
    <3>0. live' = [live EXCEPT ![l] = u] BY <2>2 DEF FlushGo
    <3>2. Holds(live[l].w, Drain(live[l].w))
      BY <1>1, LiveParts, DrainHolds DEF LivesInv, Queues
    <3>3. /\ u \in LiveRecs /\ u.w = Drain(live[l].w) /\ u.init = live[l].init
      BY <1>1, <3>2 DEF LiveRecs, Holds
    <3> HIDE DEF u
    <3>1. live' = [live EXCEPT ![l] = u] /\ v = u BY <3>0 DEF TypeInv
    <3>4. live[l].init = "ok" BY <2>2 DEF FlushGo
    <3> QED BY <3>1, <3>2, <3>3, <3>4
  <2> QED BY <2>1, <2>2
<1> HIDE DEF v
<1>3. UNCHANGED <<disk, sessions, states, retirement, job, entry, readers, plugin, spent,
                  acked>> /\ chain' = Enlist(l, live', chain)
  BY DEF Flush, FlushGo
<1>4. /\ live' \in [Lives -> LiveRecs] /\ chain' \in Seq(OpRecs)
      /\ Sound(chain', live', sessions', readers) /\ LivesInv' /\ JobInv'
  BY <1>1, <1>2, <1>3, LifeStep
<1> QED BY <1>1, <1>3, <1>4 DEF TypeInv, DiskInv, ChainInv, CursorInv, PluginInv

LEMMA ControllerInv ==
  ASSUME Inv, NEW l \in Lives, Window(l) \/ DrainStep(l)
  PROVE  Inv'
<1> USE DEF Inv
<1> DEFINE w == IF Window(l) THEN Deadline(live[l].w) ELSE StartWrite(live[l].w, "drain")
           v == [live[l] EXCEPT !.w = w]
<1>1. /\ sessions[l].at # "unborn" /\ sessions[l] \in SessionRecs
      /\ live[l] \in LiveRecs /\ plugin # "off"
      /\ sessions = [sessions EXCEPT ![l] = sessions[l]]
  <2>1. live[l].w.timer \/ live[l].w.barrier # "none"
    BY DEF Window, DrainStep, DrainMore
  <2> QED BY <2>1, Attached
<1>2. Holds(live[l].w, w)
  <2>1. live[l].w \in Controllers(Nat) /\ WellFormed(live[l].w)
    BY <1>1, LiveParts DEF LivesInv, Queues
  <2>2. CASE Window(l) BY <2>1, <2>2, DeadlineHolds DEF Window
  <2>3. CASE ~Window(l)
    <3>1. DrainMore(live[l].w) BY <2>3 DEF DrainStep
    <3> QED BY <2>1, <2>3, <3>1, StartWriteHolds DEF DrainMore
  <2> QED BY <2>2, <2>3
<1>3. live' = [live EXCEPT ![l] = v]
  BY DEF Window, DrainStep, With
<1>4. UNCHANGED <<disk, sessions, states, retirement, job, entry, readers, plugin, spent,
                  acked>> /\ chain' = Enlist(l, live', chain)
  BY DEF Window, DrainStep
<1> HIDE DEF w
<1>5. /\ v \in LiveRecs /\ v.w = w /\ v.init = live[l].init /\ v.flush = live[l].flush
  BY <1>1, <1>2, SetW DEF Holds
<1>6. v.flush = "draining" => v.init = "ok"
  BY <1>5 DEF LivesInv, Stages
<1> HIDE DEF v
<1>7. /\ live' \in [Lives -> LiveRecs] /\ chain' \in Seq(OpRecs)
      /\ Sound(chain', live', sessions', readers) /\ LivesInv' /\ JobInv'
  BY <1>1, <1>2, <1>3, <1>4, <1>5, <1>6, LifeStep
<1> QED BY <1>1, <1>4, <1>7 DEF TypeInv, DiskInv, ChainInv, CursorInv, PluginInv

LEMMA DisposeInv ==
  ASSUME Inv, NEW l \in Lives, Dispose(l)
  PROVE  Inv'
<1> USE DEF Inv
<1> DEFINE s == [sessions[l] EXCEPT !.at = IF plugin = "on" THEN "gone" ELSE "dead"]
           v == IF plugin = "on" THEN Asked(l) ELSE live[l]
<1>1. /\ sessions[l].at = "open" /\ sessions[l] \in SessionRecs /\ live[l] \in LiveRecs
  BY DEF Dispose, Open, TypeInv
<1>2. /\ s \in SessionRecs /\ s.log = sessions[l].log /\ s.born = sessions[l].born
      /\ s.at # "unborn"
  BY <1>1 DEF SessionRecs
<1>3. sessions' = [sessions EXCEPT ![l] = s] BY DEF Dispose
<1> HIDE DEF s
<1>4. /\ v \in LiveRecs /\ live' = [live EXCEPT ![l] = v]
      /\ Holds(live[l].w, v.w) /\ v.init = live[l].init
      /\ v.flush = "draining" => v.init = "ok"
  <2>1. CASE plugin = "on" BY <2>1, AskedFields DEF Dispose
  <2>2. CASE plugin # "on"
    <3>1. Holds(live[l].w, live[l].w)
      BY <1>1, LiveParts DEF Holds, LivesInv, Queues
    <3>2. live' = [live EXCEPT ![l] = live[l]] BY <2>2 DEF Dispose, TypeInv
    <3> QED BY <1>1, <2>2, <3>1, <3>2 DEF LivesInv, Stages
  <2> QED BY <2>1, <2>2
<1>5. /\ UNCHANGED <<disk, states, job, entry, readers, plugin, spent, acked>>
      /\ chain' = Enlist(l, live', chain)
      /\ retirement' \in Lives \cup {None}
  BY DEF Dispose, TypeInv
<1>6. plugin = "off" => live'[l] = live[l] /\ chain' = chain
  <2>1. ASSUME plugin = "off" PROVE live' = live /\ live[l] = NoLive
    BY <2>1 DEF Dispose, PluginInv
  <2> QED BY <1>5, <2>1, NoLiveFields DEF Enlist
<1> HIDE DEF v
<1>7. /\ live' \in [Lives -> LiveRecs] /\ chain' \in Seq(OpRecs)
      /\ sessions' \in [Lives -> SessionRecs]
      /\ Sound(chain', live', sessions', readers) /\ LivesInv' /\ JobInv'
  BY <1>1, <1>2, <1>3, <1>4, <1>5, LifeStep
<1>8. PluginInv'
  <2>1. \A k \in Lives : k # l => live'[k] = live[k] BY <1>4 DEF TypeInv
  <2> QED BY <1>5, <1>6, <2>1 DEF PluginInv
<1> QED BY <1>5, <1>7, <1>8 DEF TypeInv, DiskInv, ChainInv, CursorInv

\* A flush ends: callers that waited for it return.
LEMMA FlushEndsFields ==
  ASSUME NEW v \in LiveRecs, WellFormed(v.w), NEW outcome \in {"no", "failed"}
  PROVE  /\ FlushEnds(v, outcome) \in LiveRecs
         /\ FlushEnds(v, outcome).w = BarrierGone(v.w)
         /\ FlushEnds(v, outcome).init = v.init
         /\ FlushEnds(v, outcome).flush = outcome
         /\ Holds(v.w, BarrierGone(v.w))
<1>1. Holds(v.w, BarrierGone(v.w)) BY LiveParts, BarrierHolds
<1>2. BarrierGone(v.w) \in Controllers(Nat) BY <1>1 DEF Holds
<1> QED BY <1>1, <1>2 DEF FlushEnds, LiveRecs

LEMMA NoCallFields ==
  NoCall \in CallRecs /\ NoCall.at = "idle"
<1>1. NoSource \in Sources
  <2>1. <<>> \in Logs BY EmptySeq DEF Logs
  <2> QED BY <2>1 DEF NoSource, NoDisk, Sources, Disks
<1>2. None \in Lives \cup {None} /\ "none" \in Calls \cup {"none"} OBVIOUS
<1> QED BY <1>1, <1>2 DEF NoCall, CallRecs

LEMMA AnsweredFields ==
  ASSUME TypeInv, NEW l \in Lives
  PROVE  /\ Answered(l) \in [Readers -> CallRecs]
         /\ \A r \in Readers : readers[r].at # "live" => Answered(l)[r] = readers[r]
<1>1. \A r \in Readers : readers[r] \in CallRecs /\ [readers[r] EXCEPT !.at = "done"] \in CallRecs
  BY DEF TypeInv, CallRecs
<1> QED BY <1>1, NoCallFields DEF Answered

LEMMA FlushOverInv ==
  ASSUME Inv, NEW l \in Lives, FlushOver(l)
  PROVE  Inv'
<1> USE DEF Inv
<1> DEFINE v == FlushEnds(live[l], "no")
           o == Op("retire", l)[1]
<1>1. /\ sessions[l].at # "unborn" /\ sessions[l] \in SessionRecs
      /\ live[l] \in LiveRecs /\ plugin # "off"
      /\ sessions = [sessions EXCEPT ![l] = sessions[l]]
  BY Attached DEF FlushOver
<1>2. /\ live[l].flush = "draining" /\ Drained(live[l].w) /\ live[l].init = "ok"
  BY DEF FlushOver, LivesInv, Stages
<1>3. /\ v \in LiveRecs /\ v.init = live[l].init /\ v.flush = "no"
      /\ Holds(live[l].w, v.w) /\ v.w = BarrierGone(live[l].w)
  BY <1>1, FlushEndsFields DEF LivesInv, Queues
<1>4. /\ live' = [live EXCEPT ![l] = v] /\ readers' = Answered(l)
      /\ UNCHANGED <<disk, sessions, states, retirement, job, entry, plugin, spent, acked>>
  BY DEF FlushOver
<1> HIDE DEF v
<1>5. /\ live' \in [Lives -> LiveRecs] /\ sessions' \in [Lives -> SessionRecs]
      /\ Sound(chain, live', sessions', readers)
      /\ LivesInv'
      /\ job.does \in {"append", "appended"} =>
           Covers(Head1, states.cursor + Len(job.batch), live', sessions', plugin = "on")
  BY <1>1, <1>3, <1>4, LifeKept
<1>6. /\ readers' \in [Readers -> CallRecs]
      /\ \A r \in Readers : readers[r].at # "live" => readers'[r] = readers[r]
  BY <1>4, AnsweredFields
<1>7. Sound(chain, live', sessions', readers')
  BY <1>5, <1>6, ReadersSound DEF ReaderOps
<1>8. /\ chain' \in Seq(OpRecs) /\ Sound(chain', live', sessions', readers')
      /\ chain # <<>> => chain' # <<>> /\ chain'[1] = chain[1]
  <2>0. chain \in Seq(OpRecs) BY DEF TypeInv
  <2>1. CASE chain' = chain BY <2>0, <1>7, <2>1
  <2>2. CASE /\ chain' = chain \o Op("retire", l) /\ sessions[l].at = "gone"
             /\ ~\E i \in DOMAIN chain : chain[i] = o
    <3>1. /\ o \in OpRecs /\ o.op = "retire" /\ o.by = l /\ Op("retire", l) = <<o>>
      BY OpFields DEF LifeOps
    <3> HIDE DEF o
    <3>2. ~HasWork(live'[l].w)
      BY <1>2, <1>3, <1>4 DEF Drained, Holds, TypeInv
    <3>3. live'[l].init = "ok" BY <1>2, <1>3, <1>4 DEF TypeInv
    <3>4. Stands(o, live', sessions', readers')
      BY <1>4, <2>2, <3>1, <3>2, <3>3 DEF Stands, ReaderOps
    <3>5. ASSUME NEW i \in DOMAIN chain, Kin(chain[i], o) PROVE FALSE
      <4>1. chain[i] \in OpRecs BY <2>0, LenProperties, ElementOfSeq
      <4>2. chain[i].by = l /\ chain[i].op \in LifeOps
        BY <3>1, <3>5 DEF Kin, ReaderOps
      <4>3. Stands(chain[i], live', sessions', readers') BY <1>7 DEF Sound
      <4>4. chain[i].op = "retire"
        BY <3>2, <3>3, <4>2, <4>3 DEF Stands, LifeOps, HasWork
      <4>5. chain[i] = o BY <3>1, <4>1, <4>2, <4>4 DEF OpRecs
      <4> QED BY <2>2, <4>5
    <3> QED BY <1>7, <2>0, <2>2, <3>1, <3>4, <3>5, PushSound
  <2> QED BY <2>1, <2>2 DEF FlushOver
<1>9. JobInv' BY <1>4, <1>5, <1>8, JobKept
<1>10. PluginInv' BY <1>1, <1>4, <1>6 DEF PluginInv
<1> QED BY <1>4, <1>5, <1>6, <1>8, <1>9, <1>10
        DEF TypeInv, DiskInv, ChainInv, CursorInv

LEMMA FlushFailsInv ==
  ASSUME Inv, NEW l \in Lives, FlushFails(l)
  PROVE  Inv'
<1> USE DEF Inv
<1> DEFINE u == [live[l] EXCEPT !.w = CancelWait(live[l].w)]
           v == FlushEnds(u, "failed")
<1>1. /\ sessions[l].at # "unborn" /\ sessions[l] \in SessionRecs
      /\ live[l] \in LiveRecs /\ plugin # "off"
      /\ sessions = [sessions EXCEPT ![l] = sessions[l]]
  BY Attached DEF FlushFails
<1>2. /\ u \in LiveRecs /\ u.init = live[l].init /\ Holds(live[l].w, u.w)
  <2>1. Holds(live[l].w, CancelWait(live[l].w))
    BY <1>1, LiveParts, CancelWaitHolds DEF LivesInv, Queues
  <2> QED BY <1>1, <2>1, SetW DEF Holds
<1>3. live' = [live EXCEPT ![l] = v] BY DEF FlushFails
<1> HIDE DEF u
<1>4. v \in LiveRecs /\ v.init = live[l].init /\ v.flush = "failed" /\ Holds(live[l].w, v.w)
  <2>1. v \in LiveRecs /\ v.init = u.init /\ v.flush = "failed" /\ Holds(u.w, v.w)
    BY <1>2, FlushEndsFields DEF Holds
  <2> QED BY <1>2, <2>1 DEF Holds
<1> HIDE DEF v
<1>5. /\ UNCHANGED <<disk, sessions, states, chain, job, entry, plugin, spent, acked>>
      /\ retirement' \in Lives \cup {None}
      /\ readers' = [r \in Readers |->
           IF readers[r].at = "live" /\ readers[r].of = l THEN NoCall ELSE readers[r]]
  BY DEF FlushFails, TypeInv
<1>6. /\ live' \in [Lives -> LiveRecs] /\ sessions' \in [Lives -> SessionRecs]
      /\ Sound(chain, live', sessions', readers)
      /\ LivesInv'
      /\ job.does \in {"append", "appended"} =>
           Covers(Head1, states.cursor + Len(job.batch), live', sessions', plugin = "on")
  BY <1>1, <1>3, <1>4, <1>5, LifeKept
<1>7. /\ readers' \in [Readers -> CallRecs]
      /\ \A r \in Readers : readers[r].at # "live" => readers'[r] = readers[r]
  BY <1>5, NoCallFields DEF TypeInv
<1>8. Sound(chain', live', sessions', readers')
  BY <1>5, <1>6, <1>7, ReadersSound DEF ReaderOps
<1>9. JobInv' BY <1>5, <1>6, JobKept
<1>10. PluginInv' BY <1>1, <1>5, <1>7 DEF PluginInv
<1> QED BY <1>5, <1>6, <1>7, <1>8, <1>9, <1>10 DEF TypeInv, DiskInv, ChainInv, CursorInv

\* A write that is refused gives its batch back.
LEMMA WriteRefusedInv ==
  ASSUME Inv, NEW l \in Lives, WriteRefused(l)
  PROVE  Inv'
<1> USE DEF Inv
<1> DEFINE w == Failed(live[l].w)
           v == [live[l] EXCEPT !.w = w]
<1>1. /\ sessions[l].at # "unborn" /\ live[l] \in LiveRecs /\ plugin # "off"
  BY Attached DEF WriteRefused
<1>2. /\ w \in Controllers(Nat) /\ WellFormed(w) /\ Held(w) = Held(live[l].w)
  BY <1>1, LiveParts, FailedHolds DEF LivesInv, Queues
<1>3. live' = [live EXCEPT ![l] = v] BY DEF WriteRefused, With
<1>4. UNCHANGED <<disk, sessions, states, retirement, chain, job, entry, readers, plugin,
                  spent, acked>> /\ live[l].init \in {"broken", "refused"}
  BY DEF WriteRefused
<1> HIDE DEF w
<1>5. v \in LiveRecs /\ v.w = w /\ v.init = live[l].init /\ v.flush = live[l].flush
  BY <1>1, <1>2, SetW
<1> HIDE DEF v
<1>6. /\ live' \in [Lives -> LiveRecs] /\ live'[l] = v
      /\ \A k \in Lives : k # l => live'[k] = live[k]
  BY <1>3, <1>5 DEF TypeInv
<1>7. LivesInv'
  <2>1. Queues(v, sessions[l], plugin = "on")
    BY <1>2, <1>5 DEF LivesInv, Queues
  <2>2. Stages(v, sessions[l], plugin = "on", Len(disk.log))
    BY <1>1, <1>2, <1>5 DEF LivesInv, Stages
  <2> QED BY <1>4, <1>6, <2>1, <2>2 DEF LivesInv
<1>8. \A i \in DOMAIN chain : chain[i].op \in LifeOps => chain[i].by # l /\ chain[i].by \in Lives
  BY <1>4 DEF ChainInv, Sound, Stands, LifeOps
<1>9. Sound(chain', live', sessions', readers')
  <2>1. \A i \in DOMAIN chain : chain[i].op \in LifeOps =>
          Keeps(live[chain[i].by], sessions[chain[i].by],
                live'[chain[i].by], sessions[chain[i].by])
    BY <1>6, <1>8 DEF Keeps
  <2> QED BY <1>4, <2>1, KeepsSound DEF ChainInv
<1>10. JobInv'
  <2>1. chain # <<>> => 1 \in DOMAIN chain
    BY LenProperties, EmptySeq DEF TypeInv
  <2>2. ASSUME job.does \in {"append", "appended"}
        PROVE  Covers(Head1, states.cursor + Len(job.batch), live', sessions', plugin = "on")
    BY <1>4, <1>6, <1>8, <2>1, <2>2 DEF JobInv, Covers, Head1, LifeOps
  <2> QED BY <1>4, <2>2, JobKept
<1> QED BY <1>1, <1>4, <1>6, <1>7, <1>9, <1>10
        DEF TypeInv, DiskInv, ChainInv, CursorInv, PluginInv

-----------------------------------------------------------------------------
(* Callers: what they do touches neither the log nor the lives.            *)

LEMMA CallFields ==
  ASSUME NEW c \in CallRecs
  PROVE  /\ c.at \in {"idle", "wait", "join", "check", "commit", "held", "live", "done"}
         /\ c.call \in Calls \cup {"none"} /\ c.holds \in BOOLEAN /\ c.source \in Sources
         /\ c.source.log \in Logs /\ c.source.seen \in Disks
  BY DEF CallRecs, Sources

LEMMA ReleasedFields ==
  ASSUME NEW rs \in [Readers -> CallRecs]
  PROVE  /\ Released(rs) \in [Readers -> CallRecs]
         /\ \A r \in Readers : Released(rs)[r].at = rs[r].at
  BY DEF Released, CallRecs

LEMMA OrphanedFields ==
  ASSUME NEW rs \in [Readers -> CallRecs], NEW r \in Readers
  PROVE  /\ Orphaned(r, rs) \in [Readers -> CallRecs]
         /\ \A q \in Readers : Orphaned(r, rs)[q].at = rs[q].at
  BY ReleasedFields DEF Orphaned

LEMMA BackFields ==
  ASSUME NEW rs \in [Readers -> CallRecs], NEW r \in Readers
  PROVE  /\ Back(rs, r) \in [Readers -> CallRecs] /\ Back(rs, r)[r].at = "wait"
         /\ \A q \in Readers : q # r => Back(rs, r)[q] = rs[q]
<1> DEFINE c == [NoCall EXCEPT !.at = "wait", !.call = rs[r].call]
<1>1. rs[r].call \in Calls \cup {"none"} BY CallFields
<1>2. c \in CallRecs /\ c.at = "wait" BY <1>1, NoCallFields DEF CallRecs
<1>3. Back(rs, r) = [rs EXCEPT ![r] = c] BY DEF Back
<1> HIDE DEF c
<1> QED BY <1>2, <1>3

LEMMA OverFields ==
  ASSUME NEW rs \in [Readers -> CallRecs], NEW r \in Readers
  PROVE  /\ Over(rs, r) \in [Readers -> CallRecs] /\ Over(rs, r)[r].at = "idle"
         /\ \A q \in Readers : q # r => Over(rs, r)[q] = rs[q]
  BY NoCallFields DEF Over

LEMMA EntryFields ==
  /\ NoEntry \in Entries /\ NoSource \in Sources
  /\ \A e \in Entries : \A p \in {"none", "loading", "ready", "committing", "reserved"} :
       [e EXCEPT !.phase = p] \in Entries
  /\ \A r \in Readers : entry \in Entries => Removed(r) \in Entries
<1>1. NoSource \in Sources
  <2>1. <<>> \in Logs BY EmptySeq DEF Logs
  <2> QED BY <2>1 DEF NoSource, NoDisk, Sources, Disks
<1>2. NoEntry \in Entries BY <1>1 DEF NoEntry, Entries
<1>3. \A e \in Entries : \A p \in {"none", "loading", "ready", "committing", "reserved"} :
        [e EXCEPT !.phase = p] \in Entries
  BY DEF Entries
<1> QED BY <1>1, <1>2, <1>3 DEF Removed

\* A caller's step keeps the invariant if it keeps the types and the chain; the
\* cursor may be set while no storage work is in progress.
LEMMA CursorStep ==
  ASSUME Inv, UNCHANGED <<disk, sessions, live, job, plugin, acked>>,
         states' \in StateRecs, states'.cursor <= Len(disk.log),
         job # NoJob => states' = states,
         chain' \in Seq(OpRecs), Sound(chain', live, sessions, readers'),
         job # NoJob => chain' # <<>> /\ chain'[1] = chain[1],
         plugin = "off" => chain' = chain,
         readers' \in [Readers -> CallRecs],
         plugin # "on" => \A r \in Readers : readers'[r].at \in {"idle", "done"},
         entry' \in Entries, retirement' = retirement,
         spent' \in [reads : Nat, incidents : Nat]
  PROVE  Inv'
<1> USE DEF Inv
<1>1. TypeInv' BY DEF TypeInv
<1>2. DiskInv' /\ CursorInv' /\ ChainInv' BY DEF DiskInv, CursorInv, ChainInv
<1>3. LivesInv' BY DEF LivesInv
<1>4. PluginInv' BY DEF PluginInv
<1>5. JobInv'
  <2>1. CASE job = NoJob BY <2>1 DEF JobInv, NoJob
  <2>2. CASE job # NoJob
    <3>1. Head1' = Head1 /\ chain' # <<>> BY <2>2 DEF Head1
    <3>2. job.does # "nothing" /\ states' = states BY <2>2 DEF JobInv
    <3>3. ASSUME job.does \in {"append", "appended"}
          PROVE  Covers(Head1', states'.cursor + Len(job'.batch), live', sessions', plugin' = "on")
      BY <3>1, <3>2, <3>3 DEF JobInv, Covers
    <3>4. job'.does \in {"append", "appended"} => Head1'.op \in {"create", "suffix", "write"}
      BY <3>1 DEF JobInv
    <3>5. job'.does \in {"repair", "repaired"} => Head1'.op = "commit"
      BY <3>1 DEF JobInv
    <3>6. job'.cut => job'.does = "repair" BY DEF JobInv
    <3>7. job'.does = "appended" => states'.cursor + Len(job'.batch) <= Len(disk'.log)
      BY <3>2 DEF JobInv
    <3> QED BY <3>1, <3>2, <3>3, <3>4, <3>5, <3>6, <3>7 DEF JobInv
  <2> QED BY <2>1, <2>2
<1> QED BY <1>1, <1>2, <1>3, <1>4, <1>5

LEMMA CallStep ==
  ASSUME Inv, UNCHANGED <<disk, sessions, live, states, job, plugin, acked>>,
         chain' \in Seq(OpRecs), Sound(chain', live, sessions, readers'),
         job # NoJob => chain' # <<>> /\ chain'[1] = chain[1],
         plugin = "off" => chain' = chain,
         readers' \in [Readers -> CallRecs],
         plugin # "on" => \A r \in Readers : readers'[r].at \in {"idle", "done"},
         entry' \in Entries, retirement' = retirement,
         spent' \in [reads : Nat, incidents : Nat]
  PROVE  Inv'
<1>1. states \in StateRecs /\ states.cursor <= Len(disk.log)
  BY DEF Inv, TypeInv, CursorInv
<1> QED BY <1>1, CursorStep

\* The operation at the head is a reader's, and is over: nobody else has one.
LEMMA CallerPopped ==
  ASSUME Inv, chain # <<>>, Head1.op \in ReaderOps,
         NEW rd, \A q \in Readers : q # Head1.by => rd[q].at = readers[q].at
  PROVE  /\ Head1.by \in Readers /\ readers[Head1.by].at = Head1.op /\ plugin = "on"
         /\ Pop \in Seq(OpRecs) /\ Sound(Pop, live, sessions, rd)
<1>1. /\ Pop \in Seq(OpRecs) /\ Sound(Pop, live, sessions, readers)
      /\ Stands(Head1, live, sessions, readers)
      /\ \A i \in DOMAIN Pop : ~Kin(Pop[i], Head1)
  BY PopSound DEF Inv, TypeInv, ChainInv, Pop, Head1
<1>2. Head1.by \in Readers /\ readers[Head1.by].at = Head1.op
  BY <1>1 DEF Stands
<1>3. plugin = "on" BY <1>2 DEF Inv, PluginInv, ReaderOps
<1>4. ASSUME NEW i \in DOMAIN Pop, Pop[i].op \in ReaderOps
      PROVE  rd[Pop[i].by].at = readers[Pop[i].by].at
  <2>1. Pop[i].by # Head1.by BY <1>1, <1>4 DEF Kin
  <2>2. Pop[i].by \in Readers BY <1>1, <1>4 DEF Sound, Stands
  <2> QED BY <2>1, <2>2
<1>5. Sound(Pop, live, sessions, rd)
  BY <1>1, <1>4 DEF Sound, Stands
<1> QED BY <1>1, <1>2, <1>3, <1>5

\* The chain without the reads of a removed entry keeps its work.
LEMMA OrphanKeeps ==
  ASSUME Inv
  PROVE  /\ Orphan(chain) \in Seq(OpRecs) /\ Sound(Orphan(chain), live, sessions, readers)
         /\ job # NoJob => Orphan(chain) # <<>> /\ Orphan(chain)[1] = chain[1]
         /\ plugin = "off" => Orphan(chain) = chain
<1>1. chain \in Seq(OpRecs) BY DEF Inv, TypeInv
<1>2. ASSUME job # NoJob PROVE chain # <<>> /\ chain[1].op # "read"
  BY <1>2 DEF Inv, JobInv, Head1, TypeInv, Jobs
<1>3. chain # <<>> => 1 \in DOMAIN chain BY <1>1, LenProperties, EmptySeq
<1>4. plugin = "off" => chain = <<>> BY DEF Inv, PluginInv
<1> QED BY <1>1, <1>2, <1>3, <1>4, OrphanSound DEF Inv, ChainInv

LEMMA StartCallInv ==
  ASSUME Inv, NEW r \in Readers, NEW c \in Calls, StartCall(r, c)
  PROVE  Inv'
<1> DEFINE new == [NoCall EXCEPT !.at = "wait", !.call = c]
<1>1. new \in CallRecs /\ new.at = "wait" BY NoCallFields DEF CallRecs
<1>2. readers' = [readers EXCEPT ![r] = new] BY DEF StartCall
<1> HIDE DEF new
<1>3. readers \in [Readers -> CallRecs] /\ chain \in Seq(OpRecs) /\ entry \in Entries
  BY DEF Inv, TypeInv
<1>4. \A q \in Readers : readers[q].at \in ReaderOps => readers'[q].at = readers[q].at
  BY <1>2, <1>3 DEF StartCall, ReaderOps
<1>5. Sound(chain', live, sessions, readers')
  BY <1>4, ReadersSound DEF Inv, ChainInv, StartCall
<1>6. spent' \in [reads : Nat, incidents : Nat] BY DEF StartCall, Inv, TypeInv
<1>7. chain' = chain /\ plugin = "on" /\ entry' = entry /\ retirement' = retirement
  BY DEF StartCall
<1>8. job # NoJob => chain # <<>> BY DEF Inv, JobInv, TypeInv, Jobs
<1>9. readers' \in [Readers -> CallRecs] BY <1>1, <1>2, <1>3
<1>10. UNCHANGED <<disk, sessions, live, states, job, plugin, acked>> BY DEF StartCall
<1> QED BY <1>3, <1>5, <1>6, <1>7, <1>8, <1>9, <1>10, CallStep

LEMMA JoinInv ==
  ASSUME Inv, NEW r \in Readers, Join(r)
  PROVE  Inv'
<1> DEFINE c == [readers[r] EXCEPT !.at = "join", !.holds = TRUE, !.source = entry.source]
           o == Op("read", 1)[1]
<1>1. readers \in [Readers -> CallRecs] /\ chain \in Seq(OpRecs) /\ entry \in Entries
  BY DEF Inv, TypeInv
<1>2. c \in CallRecs /\ c.at = "join" BY <1>1 DEF CallRecs, Entries
<1>3. readers' = [readers EXCEPT ![r] = c] BY DEF Join
<1> HIDE DEF c
<1>4. readers[r].at = "wait" BY DEF Join
<1>5. plugin = "on" BY <1>4 DEF Inv, PluginInv
<1>6. Sound(chain, live, sessions, readers')
  BY <1>1, <1>3, <1>4, ReadersSound DEF Inv, ChainInv, ReaderOps
<1>7. job # NoJob => chain # <<>> BY DEF Inv, JobInv, TypeInv, Jobs
<1>8. /\ chain' \in Seq(OpRecs) /\ Sound(chain', live, sessions, readers')
      /\ job # NoJob => chain' # <<>> /\ chain'[1] = chain[1]
  <2>1. CASE chain' = chain BY <1>1, <1>6, <1>7, <2>1
  <2>2. CASE chain' = chain \o Op("read", 1)
    <3>1. 1 \in Lives
      BY SessionConstants, FS_CardinalityType, FS_EmptySet
    <3>2. /\ o \in OpRecs /\ o.op = "read" /\ Op("read", 1) = <<o>> BY <3>1, OpFields
    <3> HIDE DEF o
    <3>3. Stands(o, live, sessions, readers') /\ \A i \in DOMAIN chain : ~Kin(chain[i], o)
      BY <3>2 DEF Stands, Kin, LifeOps, ReaderOps
    <3> QED BY <1>1, <1>6, <1>7, <2>2, <3>2, <3>3, PushSound
  <2> QED BY <2>1, <2>2 DEF Join
<1>9. entry' \in Entries
  <2>1. [phase |-> "loading", source |-> NoSource] \in Entries
    BY EntryFields DEF Entries
  <2> QED BY <1>1, <2>1 DEF Join
<1>10. readers' \in [Readers -> CallRecs] BY <1>1, <1>2, <1>3
<1>11. UNCHANGED <<disk, sessions, live, states, job, plugin, acked, spent, retirement>>
  BY DEF Join
<1>12. spent' \in [reads : Nat, incidents : Nat] BY <1>11 DEF Inv, TypeInv
<1> QED BY <1>5, <1>8, <1>9, <1>10, <1>11, <1>12, CallStep

\* A reader without an operation queues one.
LEMMA AskPushed ==
  ASSUME Inv, NEW r \in Readers, readers[r].at = "join", NEW op \in ReaderOps,
         readers' \in [Readers -> CallRecs], readers'[r].at = op,
         \A q \in Readers : q # r => readers'[q].at = readers[q].at
  PROVE  /\ chain \o Op(op, r) \in Seq(OpRecs)
         /\ Sound(chain \o Op(op, r), live, sessions, readers')
         /\ job # NoJob => chain \o Op(op, r) # <<>> /\ (chain \o Op(op, r))[1] = chain[1]
<1> DEFINE o == Op(op, r)[1]
<1>1. chain \in Seq(OpRecs) BY DEF Inv, TypeInv
<1>2. Sound(chain, live, sessions, readers')
  BY ReadersSound DEF Inv, ChainInv, ReaderOps
<1>3. /\ o \in OpRecs /\ o.op = op /\ o.by = r /\ Op(op, r) = <<o>> BY OpFields
<1> HIDE DEF o
<1>4. Stands(o, live, sessions, readers')
  BY <1>3 DEF Stands, LifeOps, ReaderOps
<1>5. ASSUME NEW i \in DOMAIN chain, Kin(chain[i], o) PROVE FALSE
  <2>1. chain[i].op \in ReaderOps /\ chain[i].by = r
    BY <1>3, <1>5 DEF Kin, LifeOps, ReaderOps
  <2>2. readers[r].at = chain[i].op
    BY <2>1 DEF Inv, ChainInv, Sound, Stands
  <2> QED BY <2>1, <2>2 DEF ReaderOps
<1>6. job # NoJob => chain # <<>> BY DEF Inv, JobInv, TypeInv, Jobs
<1> QED BY <1>1, <1>2, <1>3, <1>4, <1>5, <1>6, PushSound

LEMMA AskCheckInv ==
  ASSUME Inv, NEW r \in Readers, AskCheck(r)
  PROVE  Inv'
<1> DEFINE s == IF readers[r].holds THEN entry.source ELSE readers[r].source
           c == [readers[r] EXCEPT !.at = "check", !.source = s]
<1>1. readers \in [Readers -> CallRecs] /\ entry \in Entries BY DEF Inv, TypeInv
<1>2. s \in Sources
  <2>1. readers[r].source \in Sources BY <1>1, CallFields
  <2>2. entry.source \in Sources BY <1>1 DEF Entries
  <2> QED BY <2>1, <2>2, Zenon
<1>3. readers' = [readers EXCEPT ![r] = c] BY DEF AskCheck
<1> HIDE DEF s
<1>4. c \in CallRecs /\ c.at = "check" BY <1>1, <1>2 DEF CallRecs
<1> HIDE DEF c
<1>5. readers[r].at = "join" BY DEF AskCheck, Loaded
<1>6. plugin = "on" BY <1>5 DEF Inv, PluginInv
<1>7. /\ readers' \in [Readers -> CallRecs] /\ readers'[r].at = "check"
      /\ \A q \in Readers : q # r => readers'[q].at = readers[q].at
  BY <1>1, <1>3, <1>4
<1>8. /\ chain' \in Seq(OpRecs) /\ Sound(chain', live, sessions, readers')
      /\ job # NoJob => chain' # <<>> /\ chain'[1] = chain[1]
  BY <1>5, <1>7, AskPushed DEF AskCheck, ReaderOps
<1>9. UNCHANGED <<disk, sessions, live, states, job, plugin, acked, spent, retirement, entry>>
  BY DEF AskCheck
<1>10. spent' \in [reads : Nat, incidents : Nat] BY <1>9 DEF Inv, TypeInv
<1> QED BY <1>1, <1>6, <1>7, <1>8, <1>9, <1>10, CallStep

LEMMA ReserveInv ==
  ASSUME Inv, NEW r \in Readers, Reserve(r)
  PROVE  Inv'
<1>1. readers \in [Readers -> CallRecs] /\ entry \in Entries /\ chain \in Seq(OpRecs)
  BY DEF Inv, TypeInv
<1>2. readers[r].at = "join" BY DEF Reserve, Loaded
<1>3. plugin = "on" BY <1>2 DEF Inv, PluginInv
<1>4. UNCHANGED <<disk, sessions, live, states, job, plugin, acked, spent, retirement>>
  BY DEF Reserve
<1>5. spent' \in [reads : Nat, incidents : Nat] BY <1>4 DEF Inv, TypeInv
<1>6. CASE /\ entry' = [entry EXCEPT !.phase = "committing"]
           /\ readers' = [readers EXCEPT ![r] =
                [@ EXCEPT !.at = "commit", !.source = entry.source]]
           /\ chain' = chain \o Op("commit", r)
  <2> DEFINE s == entry.source
             c == [readers[r] EXCEPT !.at = "commit", !.source = s]
  <2>1. s \in Sources BY <1>1 DEF Entries
  <2>2. readers' = [readers EXCEPT ![r] = c] BY <1>6
  <2> HIDE DEF s
  <2>3. c \in CallRecs /\ c.at = "commit" BY <1>1, <2>1 DEF CallRecs
  <2> HIDE DEF c
  <2>4. /\ readers' \in [Readers -> CallRecs] /\ readers'[r].at = "commit"
        /\ \A q \in Readers : q # r => readers'[q].at = readers[q].at
    BY <1>1, <2>2, <2>3
  <2>5. /\ chain' \in Seq(OpRecs) /\ Sound(chain', live, sessions, readers')
        /\ job # NoJob => chain' # <<>> /\ chain'[1] = chain[1]
    BY <1>2, <1>6, <2>4, AskPushed DEF ReaderOps
  <2>6. entry' \in Entries BY <1>1, <1>6, EntryFields
  <2> QED BY <1>3, <1>4, <1>5, <2>4, <2>5, <2>6, CallStep
<1>7. CASE readers' = Back(readers, r) /\ UNCHANGED <<entry, chain>>
  <2>1. /\ readers' \in [Readers -> CallRecs] /\ readers'[r].at = "wait"
        /\ \A q \in Readers : q # r => readers'[q] = readers[q]
    BY <1>1, <1>7, BackFields
  <2>2. Sound(chain, live, sessions, readers')
    BY <1>2, <2>1, ReadersSound DEF Inv, ChainInv, ReaderOps
  <2>3. job # NoJob => chain # <<>> BY DEF Inv, JobInv, TypeInv, Jobs
  <2> QED BY <1>1, <1>3, <1>4, <1>5, <1>7, <2>1, <2>2, <2>3, CallStep
<1> QED BY <1>6, <1>7 DEF Reserve

LEMMA ReleaseInv ==
  ASSUME Inv, NEW r \in Readers, Release(r)
  PROVE  Inv'
<1>1. readers \in [Readers -> CallRecs] /\ entry \in Entries /\ chain \in Seq(OpRecs)
  BY DEF Inv, TypeInv
<1>2. readers[r].at = "held" BY DEF Release
<1>3. plugin = "on" BY <1>2 DEF Inv, PluginInv
<1>4. /\ readers' \in [Readers -> CallRecs] /\ readers'[r].at = "idle"
      /\ \A q \in Readers : q # r => readers'[q].at = readers[q].at
  BY <1>1, ReleasedFields, OverFields DEF Release
<1>5. entry' \in Entries BY <1>1, EntryFields DEF Release
<1>6. Sound(chain, live, sessions, readers')
  BY <1>2, <1>4, ReadersSound DEF Inv, ChainInv, ReaderOps
<1>7. job # NoJob => chain # <<>> BY DEF Inv, JobInv, TypeInv, Jobs
<1>8. UNCHANGED <<disk, sessions, live, states, job, plugin, acked, spent, retirement, chain>>
  BY DEF Release
<1>9. spent' \in [reads : Nat, incidents : Nat] BY <1>8 DEF Inv, TypeInv
<1> QED BY <1>1, <1>3, <1>4, <1>5, <1>6, <1>7, <1>8, <1>9, CallStep

LEMMA EvictInv ==
  ASSUME Inv, Evict
  PROVE  Inv'
<1>1. readers \in [Readers -> CallRecs] BY DEF Inv, TypeInv
<1>2. /\ readers' \in [Readers -> CallRecs]
      /\ \A q \in Readers : readers'[q].at = readers[q].at
  BY <1>1, ReleasedFields DEF Evict
<1>3. /\ chain' \in Seq(OpRecs) /\ Sound(chain', live, sessions, readers)
      /\ job # NoJob => chain' # <<>> /\ chain'[1] = chain[1]
      /\ plugin = "off" => chain' = chain
  BY OrphanKeeps DEF Evict
<1>4. Sound(chain', live, sessions, readers') BY <1>2, <1>3, ReadersSound
<1>5. entry' \in Entries BY EntryFields DEF Evict
<1>6. UNCHANGED <<disk, sessions, live, states, job, plugin, acked, retirement>>
  BY DEF Evict
<1>7. spent' \in [reads : Nat, incidents : Nat] BY DEF Evict, Happens, Inv, TypeInv
<1>8. plugin # "on" => \A q \in Readers : readers'[q].at \in {"idle", "done"}
  BY <1>2 DEF Inv, PluginInv
<1> QED BY <1>2, <1>3, <1>4, <1>5, <1>6, <1>7, <1>8, CallStep

\* The closers of a log are events.
LEMMA ClosersType ==
  ASSUME NEW log \in Logs
  PROVE  InterruptedTurnClosers(log) \in Logs
<1> DEFINE e(kind) == [kind |-> kind, by |-> None]
           closers(a, b) == (IF a THEN <<e("result")>> ELSE <<>>)
                              \o (IF b THEN <<e("stepEnd")>> ELSE <<>>) \o <<e("turnEnd")>>
<1>1. \A kind \in {"result", "stepEnd", "turnEnd"} : e(kind) \in Events
  BY DEF Events, Kinds
<1>2. <<>> \in Seq(Events) BY EmptySeq
<1>3. \A a, b : closers(a, b) \in Seq(Events)
  <2>1. /\ <<e("result")>> \in Seq(Events) /\ <<e("stepEnd")>> \in Seq(Events)
        /\ <<e("turnEnd")>> \in Seq(Events)
    <3> HIDE DEF e
    <3> QED BY <1>1
  <2> HIDE DEF e
  <2> TAKE a, b
  <2> DEFINE x == IF a THEN <<e("result")>> ELSE <<>>
             y == IF b THEN <<e("stepEnd")>> ELSE <<>>
             z == <<e("turnEnd")>>
  <2>2. x \in Seq(Events) /\ y \in Seq(Events) /\ z \in Seq(Events) BY <1>2, <2>1
  <2>3. closers(a, b) = x \o y \o z OBVIOUS
  <2> HIDE DEF x, y, z
  <2>4. x \o y \in Seq(Events) BY <2>2, ConcatProperties
  <2>5. (x \o y) \o z \in Seq(Events) BY <2>2, <2>4, ConcatProperties
  <2> QED BY <2>3, <2>5
<1>4. InterruptedTurnClosers(log) = IF Balanced(log) THEN <<>>
                                    ELSE closers(PendingCall(log), OpenStep(log))
  BY DEF InterruptedTurnClosers, Closer
<1> HIDE DEF closers, e
<1> QED BY <1>2, <1>3, <1>4 DEF Logs

LEMMA SourceFields ==
  ASSUME disk \in Disks
  PROVE  Stored(disk) \in Logs /\ Source \in Sources
<1>1. Stored(disk) \in Logs
  BY ConcatProperties DEF Disks, Stored, Logs
<1>2. Stored(disk) \o InterruptedTurnClosers(Stored(disk)) \in Logs
  BY <1>1, ClosersType, ConcatProperties DEF Logs
<1> QED BY <1>1, <1>2 DEF Source, Sources

LEMMA ReadInv ==
  ASSUME Inv, Read
  PROVE  Inv'
<1> DEFINE waits(r) == readers[r].at = "join" /\ readers[r].source = NoSource
                       /\ readers[r].holds = (Head1.by # None)
<1>1. readers \in [Readers -> CallRecs] /\ entry \in Entries /\ chain \in Seq(OpRecs)
      /\ disk \in Disks
  BY DEF Inv, TypeInv
<1>2. chain # <<>> /\ job = NoJob BY DEF Read, Starts, Running
<1>3. Source \in Sources BY <1>1, SourceFields
<1>4. \A r \in Readers : [readers[r] EXCEPT !.source = Source] \in CallRecs
                         /\ [readers[r] EXCEPT !.source = Source].at = readers[r].at
  BY <1>1, <1>3 DEF CallRecs
<1>5. /\ readers' \in [Readers -> CallRecs]
      /\ \A r \in Readers : ~waits(r) => readers'[r] = readers[r]
  BY <1>1, <1>4, NoCallFields DEF Read
<1>6. entry' \in Entries
  <2>1. [phase |-> "ready", source |-> Source] \in Entries BY <1>3 DEF Entries
  <2> QED BY <1>1, <2>1, EntryFields DEF Read
<1>7. Pop \in Seq(OpRecs) /\ Sound(Pop, live, sessions, readers)
  BY <1>1, <1>2, PopSound DEF Inv, ChainInv, Pop
<1>8. chain' \in Seq(OpRecs) /\ Sound(chain', live, sessions, readers')
  BY <1>5, <1>7, ReadersSound DEF Read, ReaderOps
<1>9. plugin # "off" BY <1>2 DEF Inv, PluginInv
<1>10. plugin # "on" => \A r \in Readers : readers'[r].at \in {"idle", "done"}
  BY <1>5 DEF Inv, PluginInv
<1>11. UNCHANGED <<disk, sessions, live, states, job, plugin, acked, spent, retirement>>
  BY DEF Read
<1>12. spent' \in [reads : Nat, incidents : Nat] BY <1>11 DEF Inv, TypeInv
<1> QED BY <1>2, <1>5, <1>6, <1>8, <1>9, <1>10, <1>11, <1>12, CallStep

LEMMA CheckInv ==
  ASSUME Inv, Check
  PROVE  Inv'
<1> DEFINE r == Head1.by
<1>1. readers \in [Readers -> CallRecs] /\ entry \in Entries BY DEF Inv, TypeInv
<1>2. chain # <<>> /\ job = NoJob /\ Head1.op = "check" BY DEF Check, Starts, Running
<1>3. r \in Readers /\ plugin = "on"
  BY <1>2, CallerPopped DEF ReaderOps
<1>4. /\ readers' \in [Readers -> CallRecs]
      /\ \A q \in Readers : q # r => readers'[q].at = readers[q].at
      /\ entry' \in Entries
  <2>1. CASE /\ readers' = [readers EXCEPT ![r] = [@ EXCEPT !.at = "done", !.holds = FALSE]]
             /\ UNCHANGED entry
    <3> DEFINE c == [readers[r] EXCEPT !.at = "done", !.holds = FALSE]
    <3>1. c \in CallRecs
      <4>1. readers[r] \in CallRecs
        <5> HIDE DEF r
        <5> QED BY <1>1, <1>3
      <4> HIDE DEF r
      <4> QED BY <4>1 DEF CallRecs
    <3>2. readers' = [readers EXCEPT ![r] = c] BY <2>1
    <3> HIDE DEF c, r
    <3> QED BY <1>1, <1>3, <2>1, <3>1, <3>2
  <2>2. CASE readers' = Back(Orphaned(r, readers), r) /\ entry' = Removed(r)
    <3> HIDE DEF r
    <3>1. /\ Orphaned(r, readers) \in [Readers -> CallRecs]
          /\ \A q \in Readers : Orphaned(r, readers)[q].at = readers[q].at
      BY <1>1, <1>3, OrphanedFields
    <3>2. /\ readers' \in [Readers -> CallRecs]
          /\ \A q \in Readers : q # r => readers'[q] = Orphaned(r, readers)[q]
      BY <1>3, <2>2, <3>1, BackFields
    <3>3. entry' \in Entries BY <1>1, <1>3, <2>2, EntryFields
    <3> QED BY <3>1, <3>2, <3>3
  <2> QED BY <2>1, <2>2 DEF Check
<1>5. Pop \in Seq(OpRecs) /\ Sound(Pop, live, sessions, readers')
  BY <1>2, <1>4, CallerPopped DEF ReaderOps
<1>6. chain' = Pop BY DEF Check
<1>7. UNCHANGED <<disk, sessions, live, states, job, plugin, acked, spent, retirement>>
  BY DEF Check
<1>8. spent' \in [reads : Nat, incidents : Nat] BY <1>7 DEF Inv, TypeInv
<1> QED BY <1>2, <1>3, <1>4, <1>5, <1>6, <1>7, <1>8, CallStep

\* A live session answers, after a flush or at once.
LEMMA LookAtLiveInv ==
  ASSUME Inv, NEW r \in Readers, LookAtLive(r)
  PROVE  Inv'
<1> USE DEF Inv
<1> DEFINE l == CHOOSE l \in Open : TRUE
           view == [log |-> sessions[l].log, seen |-> NoDisk]
<1>1. readers \in [Readers -> CallRecs] /\ readers[r].at = "wait" /\ plugin = "on"
      /\ l \in Open /\ l \in Lives
  BY DEF LookAtLive, TypeInv, PluginInv, Open
<1>2. sessions[l].at = "open" BY <1>1 DEF Open
<1> HIDE DEF l
<1>3. /\ sessions[l] \in SessionRecs /\ live[l] \in LiveRecs
      /\ sessions = [sessions EXCEPT ![l] = sessions[l]]
  BY <1>1 DEF TypeInv
<1>4. view \in Sources
  <2>1. NoDisk \in Disks BY EntryFields DEF NoSource, Sources
  <2>2. sessions[l].log \in Logs BY <1>3 DEF SessionRecs
  <2> QED BY <2>1, <2>2 DEF Sources
<1> HIDE DEF view
<1>5. /\ readers' \in [Readers -> CallRecs]
      /\ \A q \in Readers : q # r => readers'[q] = readers[q]
  <2>1. CASE readers[r].call = "prepare"
    <3>1. readers' = Over(readers, r) BY <2>1 DEF LookAtLive
    <3> QED BY <1>1, <3>1, OverFields
  <2>2. CASE readers[r].call # "prepare"
    <3>1. \A at \in {"live", "done"} :
            [readers[r] EXCEPT !.at = at, !.of = l, !.source = view] \in CallRecs
      BY <1>1, <1>4 DEF CallRecs
    <3>2. PICK at \in {"live", "done"} : readers' =
            [readers EXCEPT ![r] = [@ EXCEPT !.at = at, !.of = l, !.source = view]]
      BY <2>2 DEF LookAtLive, l, view
    <3> DEFINE c == [readers[r] EXCEPT !.at = at, !.of = l, !.source = view]
    <3>3. c \in CallRecs BY <3>1
    <3>4. readers' = [readers EXCEPT ![r] = c] BY <3>2
    <3> HIDE DEF c
    <3> QED BY <1>1, <3>3, <3>4
  <2> QED BY <2>1, <2>2
<1>6. UNCHANGED <<disk, sessions, states, job, plugin, acked, spent, retirement, entry>>
  BY DEF LookAtLive
<1>7. \A rd : rd \in Seq(OpRecs) /\ Sound(rd, live', sessions, readers)
              => Sound(rd, live', sessions, readers')
  BY <1>1, <1>5, ReadersSound DEF ReaderOps
<1>8. CASE live' = live /\ chain' = chain
  <2>1. chain \in Seq(OpRecs) BY DEF TypeInv
  <2>2. Sound(chain, live, sessions, readers') BY <1>7, <1>8, <2>1 DEF ChainInv
  <2>3. job # NoJob => chain # <<>> BY DEF JobInv, TypeInv, Jobs
  <2>4. spent' \in [reads : Nat, incidents : Nat] /\ entry' \in Entries
    BY <1>6 DEF TypeInv
  <2> QED BY <1>1, <1>5, <1>6, <1>8, <2>1, <2>2, <2>3, <2>4, CallStep
<1>9. CASE live' = [live EXCEPT ![l] = Asked(l)] /\ chain' = Enlist(l, live', chain)
  <2>1. /\ Asked(l) \in LiveRecs /\ Holds(live[l].w, Asked(l).w)
        /\ Asked(l).init = live[l].init
        /\ Asked(l).flush = "draining" => Asked(l).init = "ok"
    BY <1>1, AskedFields
  <2>2. /\ live' \in [Lives -> LiveRecs] /\ chain' \in Seq(OpRecs)
        /\ sessions' \in [Lives -> SessionRecs]
        /\ Sound(chain', live', sessions', readers)
        /\ LivesInv' /\ JobInv'
    BY <1>1, <1>2, <1>3, <1>6, <1>9, <2>1, LifeStep
  <2>3. Sound(chain', live', sessions', readers') BY <1>6, <1>7, <2>2
  <2> QED BY <1>1, <1>5, <1>6, <2>2, <2>3 DEF TypeInv, DiskInv, ChainInv, CursorInv, PluginInv
<1> QED BY <1>8, <1>9 DEF LookAtLive, l

-----------------------------------------------------------------------------
(* Commits and storage work.                                               *)

LEMMA SubSeqType ==
  ASSUME NEW E, NEW s \in Seq(E), NEW m \in Nat \ {0}, NEW n \in 0 .. Len(s)
  PROVE  SubSeq(s, m, n) \in Seq(E)
<1>1. /\ Len(s) \in Nat /\ \A i \in 1 .. Len(s) : s[i] \in E
  BY LenProperties, ElementOfSeq
<1>2. \A i \in m .. n : s[i] \in E BY <1>1
<1> QED BY <1>1, <1>2, SubSeqProperties

LEMMA Longer ==
  \A a, b, c, d, e \in Nat :
    /\ a <= b => a <= b + c /\ a + c <= b + c
    /\ a <= b + d => a <= (b + c) + d
  OBVIOUS

LEMMA Behind ==
  \A a, b, c, d \in Nat : b <= c /\ a <= b + d => a <= c + d
  OBVIOUS

LEMMA DiskParts ==
  ASSUME Inv
  PROVE  /\ disk \in Disks /\ disk.made \in BOOLEAN /\ disk.torn \in BOOLEAN
         /\ disk.log \in Seq(Events) /\ disk.tail \in Seq(Events) /\ acked \in Seq(Events)
         /\ Len(disk.log) \in Nat /\ states \in StateRecs /\ states.cursor \in Nat
         /\ job \in Jobs /\ job.batch \in Seq(Events) /\ Len(job.batch) \in Nat
         /\ chain \in Seq(OpRecs)
<1>1. /\ disk.made \in BOOLEAN /\ disk.torn \in BOOLEAN
      /\ disk.log \in Seq(Events) /\ disk.tail \in Seq(Events)
      /\ states.cursor \in Nat /\ job.batch \in Seq(Events)
  BY DEF Inv, TypeInv, Disks, StateRecs, Jobs, Logs
<1> QED BY <1>1, LenProperties DEF Inv, TypeInv, Logs

LEMMA CommitInv ==
  ASSUME Inv, Commit
  PROVE  Inv'
<1> DEFINE r == Head1.by
           s == readers[r].source
<1>1. /\ readers \in [Readers -> CallRecs] /\ entry \in Entries
  BY DEF Inv, TypeInv
<1>2. chain # <<>> /\ job = NoJob /\ Head1.op = "commit" BY DEF Commit, Starts, Running
<1>3. r \in Readers /\ plugin = "on" /\ readers[r] \in CallRecs
  BY <1>1, <1>2, CallerPopped DEF ReaderOps
<1>4. s \in Sources /\ s.log \in Seq(Events) /\ s.seen \in Disks /\ Len(s.log) \in Nat
  <2>1. s \in Sources /\ s.log \in Seq(Events) /\ s.seen \in Disks
    BY <1>3, CallFields DEF Logs
  <2> QED BY <2>1, LenProperties
<1>5. /\ UNCHANGED <<disk, sessions, live, retirement, plugin, spent, acked>>
      /\ spent' \in [reads : Nat, incidents : Nat]
  BY DEF Commit, Inv, TypeInv
<1>6. CASE /\ entry' = Removed(r) /\ chain' = Pop /\ UNCHANGED <<states, job>>
           /\ \/ readers' = Over(Orphaned(r, readers), r)
              \/ readers' = Back(Orphaned(r, readers), r)
  <2> HIDE DEF r
  <2>1. /\ Orphaned(r, readers) \in [Readers -> CallRecs]
        /\ \A q \in Readers : Orphaned(r, readers)[q].at = readers[q].at
    BY <1>1, <1>3, OrphanedFields
  <2>2. /\ readers' \in [Readers -> CallRecs]
        /\ \A q \in Readers : q # r => readers'[q] = Orphaned(r, readers)[q]
    BY <1>3, <1>6, <2>1, BackFields, OverFields
  <2>3. \A q \in Readers : q # r => readers'[q].at = readers[q].at BY <2>1, <2>2
  <2>4. entry' \in Entries BY <1>1, <1>3, <1>6, EntryFields
  <2>5. Pop \in Seq(OpRecs) /\ Sound(Pop, live, sessions, readers')
    BY <1>2, <2>3, CallerPopped DEF ReaderOps, r
  <2> QED BY <1>2, <1>3, <1>5, <1>6, <2>2, <2>4, <2>5, CallStep
<1>7. CASE /\ job' = [does |-> "repair", cut |-> s.seen.torn,
                      batch |-> SubSeq(s.log, Len(disk.log) + 1, Len(s.log))]
           /\ UNCHANGED <<entry, readers, chain, states>>
  <2> DEFINE batch == SubSeq(s.log, Len(disk.log) + 1, Len(s.log))
             cut == s.seen.torn
  <2>1. Len(disk.log) \in Nat BY DiskParts
  <2>2. batch \in Logs
    <3>1. Len(disk.log) + 1 \in Nat \ {0} /\ Len(s.log) \in 0 .. Len(s.log) BY <1>4, <2>1
    <3> QED BY <1>4, <3>1, SubSeqType DEF Logs
  <2>3. cut \in BOOLEAN BY <1>4 DEF Disks
  <2>4. job' = [does |-> "repair", cut |-> cut, batch |-> batch] BY <1>7
  <2> HIDE DEF batch, cut, s, r
  <2>5. /\ job' \in Jobs /\ job'.does = "repair" BY <2>2, <2>3, <2>4 DEF Jobs
  <2>6. JobInv' BY <1>2, <1>7, <2>5 DEF JobInv, Head1
  <2> QED BY <1>5, <1>7, <2>5, <2>6
          DEF Inv, TypeInv, DiskInv, ChainInv, LivesInv, CursorInv, PluginInv
<1>8. CASE /\ s.seen = disk /\ ~(s.seen.torn \/ Len(s.log) > Len(Stored(s.seen)))
           /\ states' = Tracked(None, Len(s.log), TRUE)
           /\ chain' = Pop /\ UNCHANGED job
           /\ IF ~readers[r].holds
               THEN readers' = Back(readers, r) /\ UNCHANGED entry
               ELSE IF readers[r].call = "load"
               THEN /\ readers' = [Released(readers) EXCEPT
                         ![r] = [@ EXCEPT !.at = "done", !.of = None]]
                    /\ entry' = NoEntry
               ELSE /\ readers' = [readers EXCEPT ![r] = [@ EXCEPT !.at = "held"]]
                    /\ entry' = [entry EXCEPT !.phase = "reserved"]
  <2>1. Len(s.log) <= Len(disk.log)
    <3>1. disk.tail = <<>> BY <1>8 DEF Inv, DiskInv
    <3>2. Stored(disk) = disk.log BY <3>1, DiskParts, ConcatEmptySeq DEF Stored
    <3>3. Len(s.log) <= Len(Stored(disk)) BY <1>4, <1>8, <3>2, DiskParts
    <3> QED BY <3>2, <3>3
  <2>2. states' \in StateRecs /\ states'.cursor <= Len(disk.log)
    <3> DEFINE n == Len(s.log)
    <3>1. n \in Nat /\ n <= Len(disk.log) /\ states' = Tracked(None, n, TRUE)
      BY <1>4, <1>8, <2>1
    <3> HIDE DEF n
    <3> QED BY <3>1 DEF Tracked, StateRecs
  <2>3. /\ readers' \in [Readers -> CallRecs] /\ entry' \in Entries
        /\ \A q \in Readers : q # r => readers'[q].at = readers[q].at
    <3> HIDE DEF s, r
    <3>1. CASE readers' = Back(readers, r) /\ UNCHANGED entry
      BY <1>1, <1>3, <3>1, BackFields
    <3>2. CASE /\ readers' = [Released(readers) EXCEPT
                         ![r] = [@ EXCEPT !.at = "done", !.of = None]]
               /\ entry' = NoEntry
      <4> DEFINE c == [Released(readers)[r] EXCEPT !.at = "done", !.of = None]
      <4>1. /\ Released(readers) \in [Readers -> CallRecs]
            /\ \A q \in Readers : Released(readers)[q].at = readers[q].at
        BY <1>1, ReleasedFields
      <4>2. c \in CallRecs BY <1>3, <4>1 DEF CallRecs
      <4>3. readers' = [Released(readers) EXCEPT ![r] = c] BY <3>2
      <4> HIDE DEF c
      <4> QED BY <3>2, <4>1, <4>2, <4>3, EntryFields
    <3>3. CASE /\ readers' = [readers EXCEPT ![r] = [@ EXCEPT !.at = "held"]]
               /\ entry' = [entry EXCEPT !.phase = "reserved"]
      <4> DEFINE c == [readers[r] EXCEPT !.at = "held"]
      <4>1. c \in CallRecs BY <1>3 DEF CallRecs
      <4>2. readers' = [readers EXCEPT ![r] = c] BY <3>3
      <4> HIDE DEF c
      <4>3. entry' \in Entries BY <1>1, <3>3, EntryFields
      <4> QED BY <1>1, <1>3, <4>1, <4>2, <4>3
    <3> QED BY <1>8, <3>1, <3>2, <3>3 DEF r
  <2>4. Pop \in Seq(OpRecs) /\ Sound(Pop, live, sessions, readers')
    BY <1>2, <2>3, CallerPopped DEF ReaderOps
  <2> QED BY <1>2, <1>3, <1>5, <1>8, <2>2, <2>3, <2>4, CursorStep
<1> QED BY <1>6, <1>7, <1>8 DEF Commit

LEMMA CommitRepairedInv ==
  ASSUME Inv, CommitRepaired
  PROVE  Inv'
<1> DEFINE r == Head1.by
<1>1. /\ readers \in [Readers -> CallRecs] /\ entry \in Entries
  BY DEF Inv, TypeInv
<1>2. chain # <<>> /\ Head1.op = "commit" BY DEF CommitRepaired, Running
<1>3. r \in Readers /\ plugin = "on"
  BY <1>2, CallerPopped DEF ReaderOps
<1>4. /\ UNCHANGED <<disk, sessions, live, states, retirement, plugin, spent>>
      /\ readers' = Back(Orphaned(r, readers), r) /\ entry' = Removed(r)
      /\ chain' = Pop /\ job' = NoJob /\ acked' = disk.log
  BY DEF CommitRepaired
<1> HIDE DEF r
<1>5. /\ Orphaned(r, readers) \in [Readers -> CallRecs]
      /\ \A q \in Readers : Orphaned(r, readers)[q].at = readers[q].at
  BY <1>1, <1>3, OrphanedFields
<1>6. /\ readers' \in [Readers -> CallRecs]
      /\ \A q \in Readers : q # r => readers'[q] = Orphaned(r, readers)[q]
  BY <1>3, <1>4, <1>5, BackFields
<1>7. \A q \in Readers : q # r => readers'[q].at = readers[q].at BY <1>5, <1>6
<1>8. entry' \in Entries BY <1>1, <1>3, <1>4, EntryFields
<1>9. Pop \in Seq(OpRecs) /\ Sound(Pop, live, sessions, readers')
  BY <1>2, <1>7, CallerPopped DEF ReaderOps, r
<1>10. NoJob \in Jobs /\ acked' \in Logs /\ Begins(acked', disk.log)
  <2>1. NoJob \in Jobs
    <3>1. <<>> \in Logs BY EmptySeq DEF Logs
    <3> QED BY <3>1 DEF NoJob, Jobs
  <2>2. acked' \in Logs /\ Begins(acked', disk.log)
    BY <1>4, DiskParts DEF Begins, Logs
  <2> QED BY <2>1, <2>2
<1>11. TypeInv' BY <1>4, <1>6, <1>8, <1>9, <1>10 DEF Inv, TypeInv
<1>12. JobInv' BY <1>4 DEF JobInv, NoJob
<1> QED BY <1>3, <1>4, <1>9, <1>10, <1>11, <1>12
        DEF Inv, DiskInv, ChainInv, LivesInv, CursorInv, PluginInv

LEMMA CutTailInv ==
  ASSUME Inv, CutTail
  PROVE  Inv'
<1> USE DEF Inv
<1>1. /\ disk' \in Disks /\ disk'.log = disk.log /\ disk'.tail = <<>>
      /\ disk'.made = disk.made
  <2>1. <<>> \in Logs BY EmptySeq DEF Logs
  <2> QED BY <2>1, DiskParts DEF CutTail, Disks
<1>2. /\ job' \in Jobs /\ job'.does = job.does /\ job'.cut = FALSE /\ job'.batch = job.batch
      /\ job.does = "repair"
  BY DiskParts DEF CutTail, Jobs
<1>3. UNCHANGED <<sessions, live, states, retirement, chain, entry, readers, plugin, spent,
                  acked>>
  BY DEF CutTail
<1>4. TypeInv' BY <1>1, <1>2, <1>3 DEF TypeInv
<1>5. DiskInv' BY <1>1, <1>3 DEF DiskInv
<1>6. JobInv' BY <1>2, <1>3 DEF JobInv, Head1
<1> QED BY <1>1, <1>3, <1>4, <1>5, <1>6 DEF ChainInv, LivesInv, CursorInv, PluginInv

LEMMA WriteBatchInv ==
  ASSUME Inv, WriteBatch
  PROVE  Inv'
<1>0. /\ disk \in Disks /\ disk.log \in Seq(Events) /\ Len(disk.log) \in Nat
      /\ states.cursor \in Nat /\ job \in Jobs /\ job.batch \in Seq(Events)
      /\ Len(job.batch) \in Nat /\ acked \in Seq(Events) /\ states.cursor <= Len(disk.log)
  BY DiskParts DEF Inv, CursorInv
<1> DEFINE log == disk.log \o job.batch
<1>1. /\ log \in Seq(Events) /\ Len(log) = Len(disk.log) + Len(job.batch)
  BY <1>0, ConcatProperties
<1>2. disk' = [disk EXCEPT !.made = TRUE, !.log = log] BY DEF WriteBatch
<1> HIDE DEF log
<1>3. /\ disk' \in Disks /\ disk'.log = log /\ disk'.made
      /\ disk'.tail = disk.tail /\ disk'.torn = disk.torn
  BY <1>1, <1>2, <1>0 DEF Disks, Logs
<1>4. /\ job' \in Jobs /\ job'.cut = job.cut /\ job'.batch = job.batch /\ ~job.cut
      /\ \/ job.does = "append" /\ job'.does = "appended"
         \/ job.does = "repair" /\ job'.does = "repaired"
  <2> DEFINE does == IF job.does = "append" THEN "appended" ELSE "repaired"
  <2>1. job' = [job EXCEPT !.does = does] BY DEF WriteBatch
  <2>2. does \in {"appended", "repaired"} OBVIOUS
  <2>3. job.does \in {"append", "repair"} /\ ~job.cut BY DEF WriteBatch
  <2>4. job.does = "append" => does = "appended" OBVIOUS
  <2>5. job.does = "repair" => does = "repaired" OBVIOUS
  <2> HIDE DEF does
  <2>6. /\ job' \in Jobs /\ job'.cut = job.cut /\ job'.batch = job.batch
        /\ job'.does = does
    BY <1>0, <2>1, <2>2 DEF Jobs
  <2> QED BY <2>3, <2>4, <2>5, <2>6
<1>5. UNCHANGED <<sessions, live, states, retirement, chain, entry, readers, plugin, spent,
                  acked>>
  BY DEF WriteBatch
<1>6. TypeInv' BY <1>3, <1>4, <1>5 DEF Inv, TypeInv
<1>7. DiskInv'
  <2>1. Begins(acked, log) BY <1>0, BeginsConcat DEF Inv, DiskInv, log
  <2> QED BY <1>3, <1>5, <2>1 DEF Inv, DiskInv
<1>8. Len(disk'.log) = Len(disk.log) + Len(job.batch) BY <1>1, <1>3
<1>9. LivesInv'
  <2>1. ASSUME NEW l \in Lives
        PROVE  Stages(live[l], sessions[l], plugin = "on", Len(disk'.log))
    <3>1. /\ Len(sessions[l].log) \in Nat /\ Len(Held(live[l].w)) \in Nat
      BY LiveParts, LenProperties DEF Inv, TypeInv, SessionRecs, Logs
    <3>2. Stages(live[l], sessions[l], plugin = "on", Len(disk.log)) BY DEF Inv, LivesInv
    <3>4. Len(sessions[l].log) <= Len(disk.log) + Len(Held(live[l].w))
            => Len(sessions[l].log) <= Len(disk'.log) + Len(Held(live[l].w))
      BY <1>0, <1>8, <3>1, Longer
    <3> QED BY <3>2, <3>4 DEF Stages
  <2> QED BY <1>5, <2>1 DEF Inv, LivesInv
<1>10. CursorInv' BY <1>0, <1>5, <1>8, Longer DEF CursorInv
<1>11. JobInv'
  <2>1. states.cursor + Len(job.batch) <= Len(disk'.log)
    BY <1>0, <1>8, Longer
  <2>2. CASE job.does = "append"
    BY <1>4, <1>5, <2>1, <2>2 DEF Inv, JobInv, Covers, Head1
  <2>3. CASE job.does = "repair"
    BY <1>4, <1>5, <2>3 DEF Inv, JobInv, Head1
  <2> QED BY <1>4, <2>2, <2>3
<1> QED BY <1>5, <1>6, <1>7, <1>9, <1>10, <1>11 DEF Inv, ChainInv, PluginInv

-----------------------------------------------------------------------------
(* The operation of a life at the head of the chain is over.               *)

\* Whatever becomes of the life, nothing else in the chain is its own.
LEMMA LifePopped ==
  ASSUME Inv, chain # <<>>, Head1.op \in LifeOps,
         NEW v \in LiveRecs, live' = [live EXCEPT ![Head1.by] = v],
         Queues(v, sessions[Head1.by], plugin = "on"),
         Stages(v, sessions[Head1.by], plugin = "on", Len(disk.log)),
         UNCHANGED <<disk, sessions, plugin>>
  PROVE  /\ Head1.by \in Lives /\ live' \in [Lives -> LiveRecs] /\ LivesInv'
         /\ Pop \in Seq(OpRecs) /\ Sound(Pop, live', sessions, readers)
         /\ plugin # "off"
<1>1. /\ live \in [Lives -> LiveRecs] /\ chain \in Seq(OpRecs)
  BY DEF Inv, TypeInv
<1>2. /\ Pop \in Seq(OpRecs) /\ Sound(Pop, live, sessions, readers)
      /\ Stands(Head1, live, sessions, readers)
      /\ \A i \in DOMAIN Pop : ~Kin(Pop[i], Head1)
  BY <1>1, PopSound DEF Inv, ChainInv, Pop, Head1
<1>3. Head1.by \in Lives BY <1>2 DEF Stands
<1>4. /\ live' \in [Lives -> LiveRecs] /\ live'[Head1.by] = v
      /\ \A k \in Lives : k # Head1.by => live'[k] = live[k]
  BY <1>1, <1>3
<1>5. LivesInv' BY <1>3, <1>4 DEF Inv, LivesInv
<1>6. ASSUME NEW i \in DOMAIN Pop, Pop[i].op \in LifeOps
      PROVE  live'[Pop[i].by] = live[Pop[i].by]
  <2>1. Pop[i].by # Head1.by BY <1>2, <1>6 DEF Kin
  <2>2. Pop[i].by \in Lives BY <1>2, <1>6 DEF Sound, Stands
  <2> QED BY <1>4, <2>1, <2>2
<1>7. Sound(Pop, live', sessions, readers)
  BY <1>2, <1>6 DEF Sound, Stands, LifeOps
<1>8. plugin # "off" BY DEF Inv, PluginInv
<1> QED BY <1>2, <1>3, <1>4, <1>5, <1>7, <1>8

LEMMA LifeOver ==
  ASSUME Inv, chain # <<>>, Head1.op \in LifeOps,
         NEW v \in LiveRecs, live' = [live EXCEPT ![Head1.by] = v],
         Queues(v, sessions[Head1.by], plugin = "on"),
         Stages(v, sessions[Head1.by], plugin = "on", Len(disk.log)),
         UNCHANGED <<disk, sessions, plugin>>, job' = NoJob,
         \/ chain' = Pop
         \/ chain' = Enlist(Head1.by, live', Pop)
         \/ chain' = Enlist(Head1.by, live', Orphan(Pop)),
         readers' \in [Readers -> CallRecs],
         \A r \in Readers : readers'[r].at = readers[r].at,
         entry' \in Entries, states' \in StateRecs, states'.cursor <= Len(disk.log),
         retirement' \in Lives \cup {None}, spent' \in [reads : Nat, incidents : Nat],
         acked' = acked \/ acked' = disk.log
  PROVE  Inv'
<1>1. /\ Head1.by \in Lives /\ live' \in [Lives -> LiveRecs] /\ LivesInv'
      /\ Pop \in Seq(OpRecs) /\ Sound(Pop, live', sessions, readers)
      /\ plugin # "off"
  BY LifePopped
<1>2. chain' \in Seq(OpRecs) /\ Sound(chain', live', sessions, readers)
  BY <1>1, OrphanSound, EnlistSound
<1>3. Sound(chain', live', sessions', readers')
  BY <1>2, ReadersSound
<1>4. acked' \in Logs /\ Begins(acked', disk.log)
  BY DiskParts, SMTT(30) DEF Inv, DiskInv, Begins, Logs
<1>5. NoJob \in Jobs
  <2>1. <<>> \in Logs BY EmptySeq DEF Logs
  <2> QED BY <2>1 DEF NoJob, Jobs
<1>6. TypeInv' BY <1>1, <1>2, <1>4, <1>5 DEF Inv, TypeInv
<1>7. DiskInv' BY <1>4 DEF Inv, DiskInv
<1>8. JobInv' BY DEF JobInv, NoJob
<1>9. PluginInv' BY <1>1 DEF Inv, PluginInv
<1> QED BY <1>1, <1>3, <1>6, <1>7, <1>8, <1>9 DEF Inv, ChainInv, CursorInv

\* The life at the head.
LEMMA HeadLife ==
  ASSUME Inv, chain # <<>>, Head1.op \in LifeOps
  PROVE  /\ Head1.by \in Lives /\ live[Head1.by] \in LiveRecs
         /\ sessions[Head1.by] \in SessionRecs
         /\ Queues(live[Head1.by], sessions[Head1.by], plugin = "on")
         /\ Stages(live[Head1.by], sessions[Head1.by], plugin = "on", Len(disk.log))
         /\ Stands(Head1, live, sessions, readers)
         /\ sessions[Head1.by].at # "unborn"
         /\ sessions[Head1.by].log \in Seq(Events) /\ sessions[Head1.by].born \in Nat
         /\ Len(sessions[Head1.by].log) \in Nat
         /\ states \in StateRecs /\ states.cursor \in Nat /\ states.cursor <= Len(disk.log)
         /\ entry \in Entries /\ readers \in [Readers -> CallRecs]
         /\ retirement \in Lives \cup {None} /\ spent \in [reads : Nat, incidents : Nat]
<1>1. Stands(Head1, live, sessions, readers)
  BY PopSound DEF Inv, TypeInv, ChainInv, Head1
<1>2. Head1.by \in Lives BY <1>1 DEF Stands
<1>3. live[Head1.by] # NoLive
  BY <1>1, NoLiveFields DEF Stands, LifeOps
<1>4. /\ Queues(live[Head1.by], sessions[Head1.by], plugin = "on")
      /\ Stages(live[Head1.by], sessions[Head1.by], plugin = "on", Len(disk.log))
      /\ sessions[Head1.by].at # "unborn"
  BY <1>2, <1>3 DEF Inv, LivesInv, Stages
<1>5. live[Head1.by] \in LiveRecs /\ sessions[Head1.by] \in SessionRecs
  BY <1>2 DEF Inv, TypeInv
<1>6. /\ sessions[Head1.by].log \in Seq(Events) /\ sessions[Head1.by].born \in Nat
      /\ Len(sessions[Head1.by].log) \in Nat
  BY <1>5, LenProperties DEF SessionRecs, Logs
<1>7. states.cursor \in Nat BY DiskParts
<1> QED BY <1>1, <1>2, <1>4, <1>5, <1>6, <1>7 DEF Inv, TypeInv, CursorInv

\* It takes its batch back, ...
LEMMA BatchFails ==
  ASSUME NEW v \in LiveRecs, NEW s, NEW on, NEW stored,
         Queues(v, s, on), Stages(v, s, on, stored), s.at # "unborn"
  PROVE  LET u == [v EXCEPT !.w = Failed(v.w)]
         IN  u \in LiveRecs /\ Queues(u, s, on) /\ Stages(u, s, on, stored)
<1> DEFINE w == Failed(v.w)
           u == [v EXCEPT !.w = w]
<1>1. w \in Controllers(Nat) /\ WellFormed(w) /\ Held(w) = Held(v.w)
  BY LiveParts, FailedHolds DEF Queues
<1> HIDE DEF w
<1>2. u \in LiveRecs /\ u.w = w /\ u.init = v.init /\ u.flush = v.flush
  BY <1>1, SetW
<1> HIDE DEF u
<1>3. Queues(u, s, on) /\ Stages(u, s, on, stored)
  BY <1>1, <1>2 DEF Queues, Stages
<1> QED BY <1>2, <1>3 DEF u, w

\* ... or its initialization ends, with everything that is not queued stored.
Reached(v, s, stored) == Len(s.log) <= stored + Len(Held(v.w))

LEMMA InitEnds ==
  ASSUME NEW v \in LiveRecs, NEW s, NEW on, NEW stored,
         Queues(v, s, on), Stages(v, s, on, stored), s.at # "unborn", v.init = "pending",
         NEW init \in {"ok", "broken", "refused"}, NEW u, u = [v EXCEPT !.init = init],
         on /\ init = "ok" => Reached(v, s, stored)
  PROVE  u \in LiveRecs /\ Queues(u, s, on) /\ Stages(u, s, on, stored)
<1>0. init \in {"none", "pending", "ok", "broken", "refused"} OBVIOUS
<1>1. u \in LiveRecs /\ u.init = init /\ u.w = v.w /\ u.flush = v.flush
  BY <1>0, SetInit
<1>2. v.flush # "draining" BY DEF Stages
<1>3. Queues(u, s, on) /\ Stages(u, s, on, stored)
  BY <1>1, <1>2 DEF Queues, Stages, Reached
<1> QED BY <1>1, <1>3

\* A batch that is durable leaves the numbers behind it.
LEMMA BatchLands ==
  ASSUME NEW v \in LiveRecs, NEW s, NEW on, NEW stored, Len(s.log) \in Nat,
         Queues(v, s, on), Stages(v, s, on, stored), s.at # "unborn",
         v.init = "ok", on => Len(s.log) <= stored + Len(v.w.pending)
  PROVE  LET u == [v EXCEPT !.w = Landed(v.w)]
         IN  u \in LiveRecs /\ Queues(u, s, on) /\ Stages(u, s, on, stored)
<1> DEFINE w == Landed(v.w)
           u == [v EXCEPT !.w = w]
           a == v.w.active
           p == v.w.pending
<1>1. w \in Controllers(Nat) /\ WellFormed(w) /\ Held(w) = p
  BY LiveParts, LandedHolds DEF Queues
<1> HIDE DEF w
<1>2. u \in LiveRecs /\ u.w = w /\ u.init = v.init /\ u.flush = v.flush
  BY <1>1, SetW
<1> HIDE DEF u
<1>3. /\ a \in Seq(Nat) /\ p \in Seq(Nat) /\ Len(a) \in Nat /\ Len(p) \in Nat
  BY LiveParts, LenProperties
<1> HIDE DEF a, p
<1>4. /\ Len(Held(v.w)) = Len(a) + Len(p)
      /\ \A i \in 1 .. Len(p) : Len(a) + i \in 1 .. Len(Held(v.w))
                                /\ p[i] = Held(v.w)[Len(a) + i]
  <2>1. Held(v.w) = a \o p BY DEF Held, a, p
  <2>2. /\ Len(a \o p) = Len(a) + Len(p)
        /\ \A i \in 1 .. Len(a) + Len(p) :
             (a \o p)[i] = IF i <= Len(a) THEN a[i] ELSE p[i - Len(a)]
    BY <1>3, ConcatProperties
  <2>3. \A i \in 1 .. Len(p) : /\ Len(a) + i \in 1 .. Len(a) + Len(p)
                               /\ ~(Len(a) + i <= Len(a)) /\ Len(a) + i - Len(a) = i
    BY <1>3
  <2> QED BY <2>1, <2>2, <2>3
<1>5. Queues(u, s, on)
  <2>1. \A i \in 1 .. Len(p) : p[i] \in 1 .. Len(s.log) BY <1>4 DEF Queues
  <2>2. ASSUME on, NEW i \in 1 .. Len(p) PROVE p[i] = Len(s.log) - Len(p) + i
    <3>1. p[i] = Len(s.log) - Len(Held(v.w)) + (Len(a) + i) BY <1>4, <2>2 DEF Queues
    <3> DEFINE N == Len(s.log)
               A == Len(a)
               P == Len(p)
    <3>2. N \in Nat /\ A \in Nat /\ P \in Nat /\ i \in Nat BY <1>3
    <3>3. p[i] = N - (A + P) + (A + i) BY <1>4, <3>1
    <3> HIDE DEF N, A, P
    <3>4. N - (A + P) + (A + i) = N - P + i BY <3>2
    <3>5. p[i] = N - P + i BY <3>3, <3>4
    <3> QED BY <3>5 DEF N, P
  <2> QED BY <1>1, <1>2, <2>1, <2>2 DEF Queues
<1>6. Stages(u, s, on, stored) BY <1>1, <1>2 DEF Stages, p
<1> QED BY <1>2, <1>5, <1>6 DEF u, w

\* The storage work of the head fails: its operation is over, its file is not.
LEMMA JobFailsInv ==
  ASSUME Inv, JobFails
  PROVE  Inv'
<1> DEFINE x == Head1.by
<1>1. job.does \in {"append", "appended", "repair"}
  BY DEF JobFails, Fault, Clobbers
<1>2. /\ chain # <<>>
      /\ Head1.op \in {"create", "suffix", "write"} \/ Head1.op = "commit"
  BY <1>1 DEF Inv, JobInv
<1>3. /\ chain' = Pop /\ job' = NoJob
      /\ UNCHANGED <<disk, sessions, states, retirement, plugin, acked>>
      /\ spent' \in [reads : Nat, incidents : Nat]
  BY DEF JobFails, Fault, Happens, Inv, TypeInv
<1>4. CASE Head1.op \in LifeOps
  <2>1. x \in Lives /\ live[x] \in LiveRecs
        /\ Queues(live[x], sessions[x], plugin = "on")
        /\ Stages(live[x], sessions[x], plugin = "on", Len(disk.log))
        /\ Stands(Head1, live, sessions, readers) /\ sessions[x].at # "unborn"
        /\ states \in StateRecs /\ states.cursor <= Len(disk.log)
        /\ entry \in Entries /\ readers \in [Readers -> CallRecs]
        /\ retirement \in Lives \cup {None}
    BY <1>2, <1>4, HeadLife
  <2>2. entry' = entry /\ readers' = readers
    BY <1>2, <1>4 DEF JobFails, LifeOps
  <2>3. CASE Head1.op = "write"
    <3> DEFINE v == [live[x] EXCEPT !.w = Failed(live[x].w)]
    <3>1. live' = [live EXCEPT ![x] = v] BY <2>3 DEF JobFails, With
    <3>2. /\ v \in LiveRecs /\ Queues(v, sessions[x], plugin = "on")
          /\ Stages(v, sessions[x], plugin = "on", Len(disk.log))
      BY <2>1, BatchFails
    <3> HIDE DEF v
    <3> QED BY <1>2, <1>3, <1>4, <2>1, <2>2, <3>1, <3>2, LifeOver
  <2>4. CASE Head1.op # "write"
    <3> DEFINE v == [live[x] EXCEPT !.init = "broken"]
    <3>0. Head1.op \in {"create", "suffix"} BY <1>2, <1>4, <2>4 DEF LifeOps
    <3>1. live' = [live EXCEPT ![x] = v] BY <3>0 DEF JobFails, Initialized
    <3>2. live[x].init = "pending" BY <2>1, <3>0 DEF Stands
    <3>3. /\ v \in LiveRecs /\ Queues(v, sessions[x], plugin = "on")
          /\ Stages(v, sessions[x], plugin = "on", Len(disk.log))
      BY <2>1, <3>2, InitEnds
    <3> HIDE DEF v
    <3> QED BY <1>2, <1>3, <1>4, <2>1, <2>2, <3>1, <3>3, LifeOver
  <2> QED BY <2>3, <2>4
<1>5. CASE Head1.op = "commit"
  <2>1. /\ readers \in [Readers -> CallRecs] /\ entry \in Entries
    BY DEF Inv, TypeInv
  <2>2. x \in Readers /\ plugin = "on" BY <1>2, <1>5, CallerPopped DEF ReaderOps
  <2>3. /\ UNCHANGED live /\ entry' = Removed(x) /\ readers' = Over(Orphaned(x, readers), x)
    BY <1>5 DEF JobFails, Removed, Orphaned
  <2> HIDE DEF x
  <2>4. /\ Orphaned(x, readers) \in [Readers -> CallRecs]
        /\ \A q \in Readers : Orphaned(x, readers)[q].at = readers[q].at
    BY <2>1, <2>2, OrphanedFields
  <2>5. /\ readers' \in [Readers -> CallRecs]
        /\ \A q \in Readers : q # x => readers'[q] = Orphaned(x, readers)[q]
    BY <2>2, <2>3, <2>4, OverFields
  <2>6. \A q \in Readers : q # x => readers'[q].at = readers[q].at BY <2>4, <2>5
  <2>7. entry' \in Entries BY <2>1, <2>2, <2>3, EntryFields
  <2>8. Pop \in Seq(OpRecs) /\ Sound(Pop, live, sessions, readers')
    BY <1>2, <1>5, <2>6, CallerPopped DEF ReaderOps, x
  <2>9. NoJob \in Jobs
    <3>1. <<>> \in Logs BY EmptySeq DEF Logs
    <3> QED BY <3>1 DEF NoJob, Jobs
  <2>10. TypeInv' BY <1>3, <2>3, <2>5, <2>7, <2>8, <2>9 DEF Inv, TypeInv
  <2>11. JobInv' BY <1>3 DEF JobInv, NoJob
  <2> QED BY <1>3, <2>2, <2>3, <2>8, <2>10, <2>11
          DEF Inv, DiskInv, ChainInv, LivesInv, CursorInv, PluginInv
<1> QED BY <1>2, <1>4, <1>5 DEF LifeOps

\* An append resolves: the cursor moves past the batch, which is in the log.
LEMMA AppendedInv ==
  ASSUME Inv, Appended
  PROVE  Inv'
<1> DEFINE l == Head1.by
           n == states.cursor + Len(job.batch)
<1>1. /\ chain # <<>> /\ Head1.op \in {"create", "suffix", "write"}
      /\ Covers(Head1, n, live, sessions, plugin = "on") /\ n <= Len(disk.log)
  BY DEF Appended, Inv, JobInv
<1>2. /\ l \in Lives /\ live[l] \in LiveRecs
      /\ Queues(live[l], sessions[l], plugin = "on")
      /\ Stages(live[l], sessions[l], plugin = "on", Len(disk.log))
      /\ Stands(Head1, live, sessions, readers) /\ sessions[l].at # "unborn"
      /\ sessions[l].log \in Seq(Events) /\ sessions[l].born \in Nat
      /\ Len(sessions[l].log) \in Nat
      /\ states \in StateRecs
      /\ entry \in Entries /\ readers \in [Readers -> CallRecs]
      /\ retirement \in Lives \cup {None} /\ spent \in [reads : Nat, incidents : Nat]
  BY <1>1, HeadLife DEF LifeOps
<1>3. n \in Nat /\ Len(disk.log) \in Nat BY DiskParts
<1>4. states' \in StateRecs /\ states'.cursor = n
  <2>1. states' = [states EXCEPT !.made = TRUE, !.cursor = n] BY DEF Appended
  <2> HIDE DEF n
  <2> QED BY <1>2, <1>3, <2>1 DEF StateRecs
<1>5. /\ entry' = NoEntry /\ readers' = Released(readers)
      /\ chain' = Enlist(l, live', Orphan(Pop)) /\ job' = NoJob /\ acked' = disk.log
      /\ UNCHANGED <<disk, sessions, retirement, plugin, spent>>
  BY DEF Appended
<1>6. /\ readers' \in [Readers -> CallRecs] /\ entry' \in Entries
      /\ \A r \in Readers : readers'[r].at = readers[r].at
  BY <1>2, <1>5, ReleasedFields, EntryFields
<1>7. /\ Len(live[l].w.pending) \in Nat /\ Len(Held(live[l].w)) \in Nat
  BY <1>2, LiveParts, LenProperties
<1>8. CASE Head1.op = "write"
  <2> DEFINE v == [live[l] EXCEPT !.w = Landed(live[l].w)]
  <2>1. live' = [live EXCEPT ![l] = v] BY <1>8 DEF Appended, With
  <2>2. live[l].init = "ok" BY <1>2, <1>8 DEF Stands
  <2>3. plugin = "on" => Len(sessions[l].log) <= Len(disk.log) + Len(live[l].w.pending)
    <3>1. plugin = "on" => Len(sessions[l].log) <= n + Len(live[l].w.pending)
      BY <1>1, <1>8 DEF Covers
    <3> HIDE DEF n
    <3> QED BY <1>1, <1>2, <1>3, <1>7, <3>1, Behind
  <2>4. /\ v \in LiveRecs /\ Queues(v, sessions[l], plugin = "on")
        /\ Stages(v, sessions[l], plugin = "on", Len(disk.log))
    BY <1>2, <2>2, <2>3, BatchLands
  <2> HIDE DEF v, n
  <2> QED BY <1>1, <1>2, <1>4, <1>5, <1>6, <2>1, <2>4, LifeOver DEF LifeOps
<1>9. CASE Head1.op # "write"
  <2> DEFINE v == [live[l] EXCEPT !.init = "ok"]
  <2>1. live' = [live EXCEPT ![l] = v] BY <1>9 DEF Appended, Initialized
  <2>2. live[l].init = "pending" BY <1>1, <1>2, <1>9 DEF Stands
  <2>3. plugin = "on" => Reached(live[l], sessions[l], Len(disk.log))
    <3>1. sessions[l].born <= n BY <1>1, <1>9 DEF Covers
    <3>2. plugin = "on" => Len(sessions[l].log) <= sessions[l].born + Len(Held(live[l].w))
      BY <1>2, <2>2 DEF Stages
    <3>3. sessions[l].born <= Len(disk.log)
      <4> HIDE DEF n
      <4> QED BY <1>1, <1>2, <1>3, <3>1
    <3> QED BY <1>2, <1>3, <1>7, <3>2, <3>3, Behind DEF Reached
  <2>5. v = [live[l] EXCEPT !.init = "ok"] OBVIOUS
  <2>6. /\ live[l] \in LiveRecs /\ sessions[l].at # "unborn"
        /\ Queues(live[l], sessions[l], plugin = "on")
        /\ Stages(live[l], sessions[l], plugin = "on", Len(disk.log))
    BY <1>2
  <2> HIDE DEF v, l, n
  <2>4. /\ v \in LiveRecs /\ Queues(v, sessions[l], plugin = "on")
        /\ Stages(v, sessions[l], plugin = "on", Len(disk.log))
    BY <2>2, <2>3, <2>5, <2>6, InitEnds, ZenonT(60)
  <2> USE DEF l
  <2> HIDE DEF v, n
  <2> QED BY <1>1, <1>2, <1>4, <1>5, <1>6, <2>1, <2>4, LifeOver DEF LifeOps
<1> QED BY <1>8, <1>9

-----------------------------------------------------------------------------
(* An append starts.                                                       *)

LEMMA JobStarts ==
  ASSUME Inv, job = NoJob, chain # <<>>, Head1.op \in {"create", "suffix", "write"},
         NEW ns \in Seq(1 .. Len(sessions[Head1.by].log)), job' = AppendJob(Head1.by, ns),
         states' \in StateRecs, states'.cursor <= Len(disk.log),
         Covers(Head1, states'.cursor + Len(ns), live, sessions, plugin = "on"),
         UNCHANGED <<disk, sessions, live, chain, retirement, entry, readers, plugin,
                     spent, acked>>
  PROVE  Inv'
<1> DEFINE log == sessions[Head1.by].log
           batch == [i \in DOMAIN ns |-> log[ns[i]]]
<1>1. log \in Seq(Events) /\ Len(log) \in Nat BY HeadLife DEF LifeOps
<1>2. batch \in Seq(Events) /\ Len(batch) = Len(ns)
  <2> HIDE DEF log
  <2>1. Len(ns) \in Nat /\ DOMAIN ns = 1 .. Len(ns) BY LenProperties
  <2>2. \A i \in 1 .. Len(ns) : ns[i] \in 1 .. Len(log) BY ElementOfSeq DEF log
  <2>3. \A i \in 1 .. Len(ns) : log[ns[i]] \in Events BY <1>1, <2>2, ElementOfSeq
  <2>4. batch \in [1 .. Len(ns) -> Events] BY <2>1, <2>3
  <2>5. batch \in Seq(Events) BY <2>1, <2>4, SeqDef
  <2>6. DOMAIN batch = 1 .. Len(ns) BY <2>1
  <2> HIDE DEF batch
  <2> QED BY <2>1, <2>5, <2>6, LenProperties
<1>3. job' = [does |-> "append", cut |-> FALSE, batch |-> batch] BY DEF AppendJob
<1> HIDE DEF batch, log
<1>4. /\ job' \in Jobs /\ job'.does = "append" /\ job'.cut = FALSE /\ job'.batch = batch
  BY <1>2, <1>3 DEF Jobs, Logs
<1>5. TypeInv' BY <1>4 DEF Inv, TypeInv
<1>6. JobInv' BY <1>2, <1>4 DEF JobInv, Head1, Covers
<1> QED BY <1>5, <1>6
        DEF Inv, DiskInv, ChainInv, LivesInv, CursorInv, PluginInv

\* The part of a seed that is not stored: nothing, or all numbers up to its end.
LEMMA SeedSuffixFields ==
  ASSUME NEW l \in Lives, NEW cursor \in Nat, sessions[l].born \in Nat,
         Len(sessions[l].log) \in Nat, sessions[l].born <= Len(sessions[l].log)
  PROVE  /\ SeedSuffix(l, cursor) \in Seq(1 .. Len(sessions[l].log))
         /\ sessions[l].born <= cursor + Len(SeedSuffix(l, cursor))
         /\ SeedSuffix(l, cursor) = <<>> => sessions[l].born <= cursor
<1> DEFINE born == sessions[l].born
           n == Len(sessions[l].log)
           k == IF cursor < born THEN born - cursor ELSE 0
           seed == [i \in 1 .. k |-> cursor + i]
<1>0. born \in Nat /\ n \in Nat /\ born <= n OBVIOUS
<1>1. SeedSuffix(l, cursor) = [i \in 1 .. born - cursor |-> cursor + i]
  BY DEF SeedSuffix
<1> HIDE DEF born, n
<1>2. k \in Nat /\ 1 .. k = 1 .. (born - cursor) /\ born <= cursor + k
      /\ (k = 0 => born <= cursor) /\ \A i \in 1 .. k : cursor + i \in 1 .. n
  BY <1>0
<1>3. SeedSuffix(l, cursor) = seed BY <1>1, <1>2
<1> HIDE DEF k
<1>4. seed \in [1 .. k -> 1 .. n] BY <1>2
<1>5. seed \in Seq(1 .. n) BY <1>2, <1>4, SeqDef
<1>6. DOMAIN seed = 1 .. k OBVIOUS
<1> HIDE DEF seed
<1>7. Len(seed) = k BY <1>2, <1>5, <1>6, LenProperties
<1>8. seed = <<>> => k = 0 BY <1>7
<1> QED BY <1>2, <1>3, <1>5, <1>7, <1>8 DEF born, n

\* What is left of a batch is its end; if nothing is, all of it is stored.
LEMMA UnstoredFields ==
  ASSUME NEW ns \in Seq(Nat), NEW cursor \in Nat
  PROVE  LET u == Unstored(ns, cursor)
         IN  /\ u \in Seq(Nat) /\ Len(u) \in Nat /\ Len(u) <= Len(ns)
             /\ \A i \in 1 .. Len(u) :
                  /\ Len(ns) - Len(u) + i \in 1 .. Len(ns)
                  /\ u[i] = ns[Len(ns) - Len(u) + i]
             /\ u = <<>> => \A i \in 1 .. Len(ns) : ns[i] <= cursor
<1> DEFINE n == Len(ns)
           S == {i \in DOMAIN ns : ns[i] <= cursor}
           k == Cardinality(S)
           u == SubSeq(ns, k + 1, n)
<1>1. n \in Nat /\ DOMAIN ns = 1 .. n BY LenProperties
<1>2. IsFiniteSet(1 .. n) /\ Cardinality(1 .. n) = n
  <2> HIDE DEF n
  <2>1. 1 \in Int /\ n \in Int /\ (1 > n => n = 0) /\ n - 1 + 1 = n BY <1>1
  <2> QED BY <2>1, FS_Interval
<1>3. S \in SUBSET (1 .. n) BY <1>1
<1>4. k \in Nat /\ k <= n /\ (k = n => S = 1 .. n)
  <2> HIDE DEF n, S
  <2>1. IsFiniteSet(S) /\ Cardinality(S) <= Cardinality(1 .. n)
        /\ (Cardinality(1 .. n) = Cardinality(S) => 1 .. n = S)
    BY <1>2, <1>3, FS_Subset
  <2>2. Cardinality(S) \in Nat BY <2>1, FS_CardinalityType
  <2> QED BY <1>2, <2>1, <2>2
<1>5. /\ u \in Seq(Nat) /\ Len(u) = n - k
      /\ \A i \in 1 .. n - k : u[i] = ns[k + i]
  <2> HIDE DEF k
  <2>1. \A i \in 1 .. n : ns[i] \in Nat BY <1>1, ElementOfSeq
  <2> HIDE DEF n, u
  <2>2. k + 1 \in Int /\ n \in Int /\ \A i \in k + 1 .. n : ns[i] \in Nat
    BY <1>1, <1>4, <2>1
  <2>3. /\ SubSeq(ns, k + 1, n) \in Seq(Nat)
        /\ Len(SubSeq(ns, k + 1, n)) = IF k + 1 <= n THEN n - (k + 1) + 1 ELSE 0
        /\ \A i \in 1 .. n - (k + 1) + 1 : SubSeq(ns, k + 1, n)[i] = ns[k + 1 + i - 1]
    BY <2>2, SubSeqProperties
  <2>4. /\ (IF k + 1 <= n THEN n - (k + 1) + 1 ELSE 0) = n - k
        /\ n - (k + 1) + 1 = n - k
        /\ \A i \in 1 .. n - k : k + 1 + i - 1 = k + i
    BY <1>1, <1>4
  <2> QED BY <2>3, <2>4 DEF u
<1>6. Unstored(ns, cursor) = u BY DEF Unstored
<1> HIDE DEF u, k, n
<1>7. /\ n - Len(u) = k /\ Len(u) \in Nat /\ Len(u) <= n
      /\ \A i \in 1 .. Len(u) : n - Len(u) + i \in 1 .. n
  BY <1>1, <1>4, <1>5
<1>8. \A i \in 1 .. Len(u) : u[i] = ns[n - Len(u) + i] BY <1>5, <1>7
<1>9. ASSUME u = <<>> PROVE \A i \in 1 .. n : ns[i] <= cursor
  <2>1. Len(u) = 0 BY <1>9
  <2>2. k = n BY <1>1, <1>4, <1>5, <2>1
  <2> QED BY <1>4, <2>2
<1> QED BY <1>5, <1>6, <1>7, <1>8, <1>9 DEF n

\* A batch: what the initialization stored is dropped from it.
LEMMA StartLiveBatchInv ==
  ASSUME Inv, StartLiveBatch
  PROVE  Inv'
<1> DEFINE l == Head1.by
           a == live[l].w.active
           p == live[l].w.pending
           ns == Unstored(a, states.cursor)
           n == Len(sessions[l].log)
<1>1. chain # <<>> /\ job = NoJob /\ Head1.op = "write"
      /\ UNCHANGED <<disk, sessions, states, retirement, entry, readers, plugin, spent, acked>>
  BY DEF StartLiveBatch, Starts, Running
<1>2. /\ l \in Lives /\ live[l] \in LiveRecs
      /\ Queues(live[l], sessions[l], plugin = "on")
      /\ Stages(live[l], sessions[l], plugin = "on", Len(disk.log))
      /\ Stands(Head1, live, sessions, readers) /\ sessions[l].at # "unborn"
      /\ n \in Nat /\ states \in StateRecs /\ states.cursor \in Nat
      /\ states.cursor <= Len(disk.log)
      /\ entry \in Entries /\ readers \in [Readers -> CallRecs]
      /\ retirement \in Lives \cup {None} /\ spent \in [reads : Nat, incidents : Nat]
  BY <1>1, HeadLife DEF LifeOps
<1>3. live[l].init = "ok" BY <1>1, <1>2 DEF Stands
<1>4. /\ a \in Seq(Nat) /\ p \in Seq(Nat) /\ Len(a) \in Nat /\ Len(p) \in Nat
  BY <1>2, LiveParts, LenProperties
<1>5. Len(disk.log) \in Nat BY DiskParts
<1> HIDE DEF l, a, p, n
<1>6. /\ Held(live[l].w) = a \o p /\ Len(a \o p) = Len(a) + Len(p)
      /\ \A i \in 1 .. Len(a) : i \in 1 .. Len(a) + Len(p) /\ (a \o p)[i] = a[i]
  <2>1. Held(live[l].w) = a \o p BY DEF Held, a, p
  <2> QED BY <1>4, <2>1, ConcatProperties
<1>7. \A i \in 1 .. Len(a) : a[i] \in 1 .. n BY <1>2, <1>6 DEF Queues, n
<1>8. plugin = "on" => \A i \in 1 .. Len(a) : a[i] = n - (Len(a) + Len(p)) + i
  BY <1>2, <1>6 DEF Queues, n
<1>9. /\ ns \in Seq(Nat) /\ Len(ns) \in Nat /\ Len(ns) <= Len(a)
      /\ \A i \in 1 .. Len(ns) : /\ Len(a) - Len(ns) + i \in 1 .. Len(a)
                                 /\ ns[i] = a[Len(a) - Len(ns) + i]
      /\ ns = <<>> => \A i \in 1 .. Len(a) : a[i] <= states.cursor
  BY <1>2, <1>4, UnstoredFields
<1> HIDE DEF ns
<1>10. CASE ns = <<>> /\ live' = With(l, Landed(live[l].w))
            /\ chain' = Enlist(l, live', Pop) /\ UNCHANGED job
  <2> DEFINE v == [live[l] EXCEPT !.w = Landed(live[l].w)]
  <2>1. live' = [live EXCEPT ![l] = v] BY <1>10 DEF With
  <2>2. plugin = "on" => n <= Len(disk.log) + Len(p)
    <3>1. CASE Len(a) = 0
      <4>1. plugin = "on" => n <= Len(disk.log) + (Len(a) + Len(p))
        BY <1>2, <1>3, <1>6 DEF Stages, n
      <4> QED BY <1>4, <3>1, <4>1
    <3>2. CASE Len(a) # 0
      <4>1. Len(a) \in 1 .. Len(a) BY <1>4, <3>2
      <4>2. a[Len(a)] <= states.cursor BY <1>9, <1>10, <4>1
      <4>3. plugin = "on" => a[Len(a)] = n - (Len(a) + Len(p)) + Len(a)
        BY <1>8, <4>1
      <4>4. n - (Len(a) + Len(p)) + Len(a) = n - Len(p) BY <1>2, <1>4
      <4>5. plugin = "on" => n - Len(p) <= states.cursor BY <4>2, <4>3, <4>4
      <4> QED BY <1>2, <1>4, <1>5, <4>5
    <3> QED BY <3>1, <3>2
  <2>3. v = [live[l] EXCEPT !.w = Landed(live[l].w)] OBVIOUS
  <2>4. /\ live[l] \in LiveRecs /\ sessions[l].at # "unborn" /\ Len(sessions[l].log) \in Nat
        /\ Queues(live[l], sessions[l], plugin = "on")
        /\ Stages(live[l], sessions[l], plugin = "on", Len(disk.log))
    BY <1>2 DEF n
  <2>5. plugin = "on" => Len(sessions[l].log) <= Len(disk.log) + Len(live[l].w.pending)
    BY <2>2 DEF n, p
  <2>6. /\ v \in LiveRecs /\ Queues(v, sessions[l], plugin = "on")
        /\ Stages(v, sessions[l], plugin = "on", Len(disk.log))
    BY <1>3, <2>4, <2>5, BatchLands
  <2> HIDE DEF v
  <2> QED BY <1>1, <1>2, <1>10, <2>1, <2>6, LifeOver DEF LifeOps, l
<1>11. CASE ns # <<>> /\ Contiguous(ns) /\ job' = AppendJob(l, ns) /\ UNCHANGED <<chain, live>>
  <2>1. ns \in Seq(1 .. n)
    <3> DEFINE S == 1 .. n
               k == Len(ns)
    <3>1. \A i \in 1 .. k : ns[i] \in S BY <1>7, <1>9
    <3>2. DOMAIN ns = 1 .. k /\ k \in Nat BY <1>9, LenProperties
    <3>3. ns \in [1 .. k -> Nat] BY <1>9, LenProperties
    <3> HIDE DEF S, k
    <3>4. ns \in [1 .. k -> S] BY <3>1, <3>2, <3>3
    <3>5. ns \in Seq(S) BY <3>2, <3>4, SeqDef
    <3> QED BY <3>5 DEF S
  <2>2. plugin = "on" => n <= states.cursor + Len(ns) + Len(p)
    <3>1. Len(ns) # 0 /\ DOMAIN ns = 1 .. Len(ns) BY <1>9, <1>11, EmptySeq, LenProperties
    <3>2. Len(ns) \in 1 .. Len(ns) /\ Len(a) \in 1 .. Len(a) /\ Len(a) - Len(ns) + Len(ns) = Len(a)
      BY <1>4, <1>9, <3>1
    <3>3. ns[Len(ns)] = a[Len(a)] BY <1>9, <3>2
    <3>4. ns[Len(ns)] = states.cursor + Len(ns) BY <1>11, <3>1, <3>2 DEF Contiguous
    <3>5. plugin = "on" => a[Len(a)] = n - (Len(a) + Len(p)) + Len(a)
      BY <1>8, <3>2
    <3>6. n - (Len(a) + Len(p)) + Len(a) = n - Len(p) BY <1>2, <1>4
    <3>7. plugin = "on" => n - Len(p) = states.cursor + Len(ns) BY <3>3, <3>4, <3>5, <3>6
    <3> QED BY <1>2, <1>4, <1>9, <3>7
  <2>3. Covers(Head1, states.cursor + Len(ns), live, sessions, plugin = "on")
    BY <1>1, <2>2 DEF Covers, n, p, l
  <2> QED BY <1>1, <1>2, <1>11, <2>1, <2>3, JobStarts DEF n, l
<1>12. CASE chain' = Pop /\ live' = With(l, Failed(live[l].w)) /\ UNCHANGED job
  <2> DEFINE v == [live[l] EXCEPT !.w = Failed(live[l].w)]
  <2>1. live' = [live EXCEPT ![l] = v] BY <1>12 DEF With
  <2>2. /\ v \in LiveRecs /\ Queues(v, sessions[l], plugin = "on")
        /\ Stages(v, sessions[l], plugin = "on", Len(disk.log))
    BY <1>2, BatchFails
  <2> HIDE DEF v
  <2> QED BY <1>1, <1>2, <1>12, <2>1, <2>2, LifeOver DEF LifeOps, l
<1> QED BY <1>10, <1>11, <1>12 DEF StartLiveBatch, ns, a, l

\* A life whose initialization ends at once.
LEMMA InitOver ==
  ASSUME Inv, chain # <<>>, job = NoJob, Head1.op \in {"create", "suffix"},
         NEW init \in {"ok", "broken", "refused"}, live' = Initialized(Head1.by, init),
         init = "ok" => sessions[Head1.by].born <= states'.cursor,
         \/ chain' = Pop
         \/ chain' = Enlist(Head1.by, live', Pop),
         states' \in StateRecs, states'.cursor <= Len(disk.log),
         UNCHANGED <<disk, sessions, retirement, job, entry, readers, plugin, spent, acked>>
  PROVE  Inv'
<1> DEFINE l == Head1.by
           v == [live[l] EXCEPT !.init = init]
<1>1. /\ l \in Lives /\ live[l] \in LiveRecs
      /\ Queues(live[l], sessions[l], plugin = "on")
      /\ Stages(live[l], sessions[l], plugin = "on", Len(disk.log))
      /\ Stands(Head1, live, sessions, readers) /\ sessions[l].at # "unborn"
  BY HeadLife DEF LifeOps
<1>2. live[l].init = "pending" BY <1>1 DEF Stands
<1>3. ASSUME plugin = "on", init = "ok" PROVE Reached(live[l], sessions[l], Len(disk.log))
  <2> DEFINE n == Len(sessions[l].log)
             b == sessions[l].born
             c == states'.cursor
             h == Len(Held(live[l].w))
             d == Len(disk.log)
  <2>1. n \in Nat /\ b \in Nat /\ c \in Nat /\ h \in Nat /\ d \in Nat
    <3>1. n \in Nat /\ b \in Nat BY HeadLife DEF LifeOps
    <3>2. c \in Nat BY DEF StateRecs
    <3>3. h \in Nat BY <1>1, LiveParts
    <3>4. d \in Nat BY DiskParts
    <3> QED BY <3>1, <3>2, <3>3, <3>4
  <2>2. n <= b + h BY <1>1, <1>2, <1>3 DEF Stages
  <2>3. b <= c /\ c <= d BY <1>3
  <2> HIDE DEF n, b, c, h, d
  <2>4. n <= d + h BY <2>1, <2>2, <2>3
  <2> QED BY <2>4 DEF Reached, n, d, h
<1>4. live' = [live EXCEPT ![l] = v] BY DEF Initialized
<1>5. v = [live[l] EXCEPT !.init = init] OBVIOUS
<1> HIDE DEF v, l
<1>6. /\ v \in LiveRecs /\ Queues(v, sessions[l], plugin = "on")
      /\ Stages(v, sessions[l], plugin = "on", Len(disk.log))
  <2>1. /\ live[l] \in LiveRecs /\ sessions[l].at # "unborn"
        /\ Queues(live[l], sessions[l], plugin = "on")
        /\ Stages(live[l], sessions[l], plugin = "on", Len(disk.log))
    BY <1>1
  <2>2. plugin = "on" /\ init = "ok" => Reached(live[l], sessions[l], Len(disk.log))
    BY <1>3
  <2> DEFINE on == plugin = "on"
             stored == Len(disk.log)
             s == sessions[l]
             x == live[l]
  <2> HIDE DEF on, stored, s, x
  <2>3. /\ x \in LiveRecs /\ s.at # "unborn" /\ Queues(x, s, on) /\ Stages(x, s, on, stored)
        /\ (on /\ init = "ok" => Reached(x, s, stored)) /\ x.init = "pending"
        /\ v = [x EXCEPT !.init = init]
    BY <1>2, <1>5, <2>1, <2>2 DEF on, stored, s, x
  <2>4. v \in LiveRecs /\ Queues(v, s, on) /\ Stages(v, s, on, stored)
    BY <2>3, InitEnds
  <2> QED BY <2>4 DEF on, stored, s
<1>7. /\ entry' \in Entries /\ readers' \in [Readers -> CallRecs]
      /\ retirement' \in Lives \cup {None} /\ spent' \in [reads : Nat, incidents : Nat]
  BY DEF Inv, TypeInv
<1> QED BY <1>4, <1>6, <1>7, LifeOver DEF LifeOps, l

LEMMA StartSuffixInv ==
  ASSUME Inv, StartSuffix
  PROVE  Inv'
<1> DEFINE l == Head1.by
<1>1. chain # <<>> /\ job = NoJob /\ Head1.op = "suffix"
      /\ UNCHANGED <<disk, sessions, states, retirement, entry, readers, plugin, spent, acked>>
  BY DEF StartSuffix, Starts, Running
<1>2. /\ l \in Lives /\ sessions[l].born \in Nat /\ Len(sessions[l].log) \in Nat
      /\ sessions[l].born <= Len(sessions[l].log)
      /\ states \in StateRecs /\ states.cursor \in Nat /\ states.cursor <= Len(disk.log)
  BY <1>1, HeadLife DEF LifeOps, Stages
<1>3. CASE job' = AppendJob(l, SeedSuffix(l, states.cursor)) /\ UNCHANGED <<chain, live>>
  <2>1. /\ SeedSuffix(l, states.cursor) \in Seq(1 .. Len(sessions[l].log))
        /\ sessions[l].born <= states.cursor + Len(SeedSuffix(l, states.cursor))
    BY <1>2, SeedSuffixFields
  <2>2. Covers(Head1, states.cursor + Len(SeedSuffix(l, states.cursor)), live, sessions,
               plugin = "on")
    BY <1>1, <2>1 DEF Covers
  <2> HIDE DEF l
  <2> QED BY <1>1, <1>2, <1>3, <2>1, <2>2, JobStarts DEF l
<1>4. CASE chain' = Pop /\ live' = Initialized(l, "broken") /\ UNCHANGED job
  BY <1>1, <1>2, <1>4, InitOver
<1> QED BY <1>3, <1>4 DEF StartSuffix

\* A new session meets what is known and stored of its id.
LEMMA OnCreatedInv ==
  ASSUME Inv, OnCreated
  PROVE  Inv'
<1> DEFINE l == Head1.by
<1>1. chain # <<>> /\ job = NoJob /\ Head1.op = "create"
      /\ UNCHANGED <<disk, sessions, retirement, entry, readers, plugin, spent, acked>>
  BY DEF OnCreated, Starts, Running
<1>2. /\ l \in Lives /\ sessions[l].born \in Nat /\ Len(sessions[l].log) \in Nat
      /\ sessions[l].born <= Len(sessions[l].log)
      /\ states \in StateRecs /\ states.cursor \in Nat /\ states.cursor <= Len(disk.log)
  BY <1>1, HeadLife DEF LifeOps, Stages
<1>3. ASSUME NEW s \in StateRecs, s.cursor <= Len(disk.log), Bind(l, s)
      PROVE  Inv'
  <2>1. states' = s /\ s.cursor \in Nat BY <1>3 DEF Bind, StateRecs
  <2>2. /\ SeedSuffix(l, s.cursor) \in Seq(1 .. Len(sessions[l].log))
        /\ sessions[l].born <= s.cursor + Len(SeedSuffix(l, s.cursor))
        /\ SeedSuffix(l, s.cursor) = <<>> => sessions[l].born <= s.cursor
    BY <1>2, <2>1, SeedSuffixFields
  <2>3. CASE SeedSuffix(l, s.cursor) = <<>>
    <3>1. live' = Initialized(l, "ok") /\ job' = job /\ chain' = Enlist(l, live', Pop)
      BY <1>1, <1>3, <2>3 DEF Bind
    <3> QED BY <1>1, <1>3, <2>1, <2>2, <2>3, <3>1, InitOver
  <2>4. CASE SeedSuffix(l, s.cursor) # <<>>
    <3>1. job' = AppendJob(l, SeedSuffix(l, s.cursor)) /\ UNCHANGED <<chain, live>>
      BY <1>3, <2>4 DEF Bind
    <3>2. Covers(Head1, s.cursor + Len(SeedSuffix(l, s.cursor)), live, sessions,
                 plugin = "on")
      BY <1>1, <2>2 DEF Covers
    <3> HIDE DEF l
    <3> QED BY <1>1, <1>3, <2>1, <2>2, <3>1, <3>2, JobStarts DEF l
  <2> QED BY <2>3, <2>4
<1>4. ASSUME NEW s \in StateRecs, s.cursor <= Len(disk.log), Refuse(l, s)
      PROVE  Inv'
  BY <1>1, <1>4, InitOver DEF Refuse
<1>5. /\ Untracked \in StateRecs /\ Untracked.cursor <= Len(disk.log)
      /\ Tracked(l, 0, FALSE) \in StateRecs /\ Tracked(l, 0, FALSE).cursor <= Len(disk.log)
      /\ Tracked(l, Len(disk.log), TRUE) \in StateRecs
      /\ Tracked(l, Len(disk.log), TRUE).cursor <= Len(disk.log)
  <2> DEFINE n == Len(disk.log)
  <2>1. n \in Nat BY DiskParts
  <2> HIDE DEF n, l
  <2>2. /\ Untracked \in StateRecs /\ Untracked.cursor <= n
        /\ Tracked(l, 0, FALSE) \in StateRecs /\ Tracked(l, 0, FALSE).cursor <= n
        /\ Tracked(l, n, TRUE) \in StateRecs /\ Tracked(l, n, TRUE).cursor <= n
    BY <1>2, <2>1 DEF Untracked, Tracked, StateRecs
  <2> QED BY <2>2 DEF n
<1>6. [states EXCEPT !.owner = l] \in StateRecs
      /\ [states EXCEPT !.owner = l].cursor <= Len(disk.log)
  BY <1>2 DEF StateRecs
<1> HIDE DEF l
<1>7. \/ \E s \in StateRecs : s.cursor <= Len(disk.log) /\ Bind(l, s)
      \/ \E s \in StateRecs : s.cursor <= Len(disk.log) /\ Refuse(l, s)
  BY <1>2, <1>5, <1>6 DEF OnCreated, l
<1> QED BY <1>3, <1>4, <1>7

\* A retirement ends: the coordinator forgets the life.
LEMMA RetireInv ==
  ASSUME Inv, Retire
  PROVE  Inv'
<1> DEFINE l == Head1.by
<1>1. /\ chain # <<>> /\ job = NoJob /\ Head1.op = "retire"
      /\ live' = [live EXCEPT ![l] = NoLive]
      /\ states' = IF Owned(l) THEN Untracked ELSE states
      /\ retirement' = IF retirement = l THEN None ELSE retirement
      /\ chain' = Pop
      /\ UNCHANGED <<disk, sessions, job, entry, readers, plugin, spent, acked>>
  BY DEF Retire, Starts, Running
<1>2. /\ l \in Lives /\ sessions[l].at # "unborn"
      /\ Stages(live[l], sessions[l], plugin = "on", Len(disk.log))
      /\ states \in StateRecs /\ states.cursor <= Len(disk.log)
      /\ entry \in Entries /\ readers \in [Readers -> CallRecs]
      /\ retirement \in Lives \cup {None} /\ spent \in [reads : Nat, incidents : Nat]
  BY <1>1, HeadLife DEF LifeOps
<1>3. /\ NoLive \in LiveRecs /\ Queues(NoLive, sessions[l], plugin = "on")
      /\ Stages(NoLive, sessions[l], plugin = "on", Len(disk.log))
  <2>1. Len(Held(NoLive.w)) = 0 /\ WellFormed(NoLive.w)
    BY NoLiveFields, FreshHolds, EmptySeq
  <2>2. Queues(NoLive, sessions[l], plugin = "on") BY <2>1 DEF Queues
  <2> QED BY <1>2, <2>2, NoLiveFields DEF Stages
<1>4. states' \in StateRecs /\ states'.cursor <= Len(disk.log)
  <2>1. Untracked \in StateRecs /\ Untracked.cursor <= Len(disk.log)
    <3> DEFINE n == Len(disk.log)
    <3>1. n \in Nat BY DiskParts
    <3> HIDE DEF n
    <3>2. Untracked \in StateRecs /\ Untracked.cursor <= n
      BY <3>1 DEF Untracked, StateRecs
    <3> QED BY <3>2 DEF n
  <2> QED BY <1>1, <1>2, <2>1
<1>5. retirement' \in Lives \cup {None} BY <1>1, <1>2
<1> HIDE DEF l
<1> QED BY <1>1, <1>2, <1>3, <1>4, <1>5, LifeOver DEF LifeOps, l

-----------------------------------------------------------------------------
(* The steps of the sessions and of the plugin.                            *)

LEMMA Place ==
  ASSUME NEW n \in Nat, NEW h \in Nat
  PROVE  /\ \A i \in 1 .. h : n - h + i = (n + 1) - (h + 1) + i
         /\ (n + 1) - (h + 1) + (h + 1) = n + 1
         /\ \A i \in 1 .. h + 1 : i \in 1 .. h \/ i = h + 1
OBVIOUS

LEMMA EnqueuedFields ==
  ASSUME NEW v \in LiveRecs, NEW s, NEW t, NEW on, NEW stored \in Nat,
         Len(s.log) \in Nat, s.born \in Nat,
         Len(t.log) = Len(s.log) + 1, t.born = s.born, t.at = "open",
         Queues(v, s, on), Stages(v, s, on, stored)
  PROVE  LET u == [v EXCEPT !.w = Enqueue(v.w, Len(s.log) + 1)]
         IN  /\ u \in LiveRecs /\ Queues(u, t, on) /\ Stages(u, t, on, stored)
             /\ u.init = v.init /\ u.w.writing = v.w.writing
             /\ Len(u.w.pending) = Len(v.w.pending) + 1
<1> DEFINE u == [v EXCEPT !.w = Enqueue(v.w, Len(s.log) + 1)]
           n == Len(s.log)
           h == Len(Held(v.w))
           e == n + 1
           w == Enqueue(v.w, e)
<1>1. /\ v.w \in Controllers(Nat) /\ Held(v.w) \in Seq(Nat) /\ h \in Nat
      /\ v.w.pending \in Seq(Nat)
  BY LiveParts
<1>2. e \in Nat /\ WellFormed(v.w) BY DEF Queues
<1>3. /\ w \in Controllers(Nat) /\ WellFormed(w) /\ w.writing = v.w.writing
      /\ w.pending = Append(v.w.pending, e) /\ Held(w) = Append(Held(v.w), e)
  BY <1>1, <1>2, EnqueueHolds
<1>4. u = [v EXCEPT !.w = w] OBVIOUS
<1> HIDE DEF w
<1>5. u \in LiveRecs /\ u.w = w /\ u.init = v.init /\ u.flush = v.flush
  BY <1>3, <1>4, SetW, ZenonT(60)
<1>6. Len(Append(v.w.pending, e)) = Len(v.w.pending) + 1
  BY <1>1, <1>2, AppendProperties
<1>7. /\ Len(Held(w)) = h + 1
      /\ \A i \in 1 .. h : Held(w)[i] = Held(v.w)[i]
      /\ Held(w)[h + 1] = e
  BY <1>1, <1>2, <1>3, AppendProperties
<1>8. Queues(u, t, on)
  <2>1. ASSUME NEW i \in 1 .. h + 1 PROVE Held(w)[i] \in 1 .. e
    <3>1. CASE i \in 1 .. h
      <4>1. Held(v.w)[i] \in 1 .. n BY <3>1 DEF Queues
      <4> QED BY <1>7, <3>1, <4>1
    <3>2. CASE i = h + 1 BY <1>2, <1>7, <3>2
    <3> QED BY <1>1, <3>1, <3>2
  <2>2. ASSUME on, NEW i \in 1 .. h + 1 PROVE Held(w)[i] = e - (h + 1) + i
    <3>1. n \in Nat OBVIOUS
    <3>2. \A j \in 1 .. h : Held(v.w)[j] = n - h + j BY <2>2 DEF Queues
    <3> HIDE DEF n, h
    <3>3. /\ \A j \in 1 .. h : n - h + j = e - (h + 1) + j
          /\ e - (h + 1) + (h + 1) = e
          /\ i \in 1 .. h \/ i = h + 1
      BY <1>1, <3>1, Place
    <3> HIDE DEF e
    <3> QED BY <1>7, <3>2, <3>3
  <2>3. Len(t.log) = e OBVIOUS
  <2> HIDE DEF e, h
  <2> QED BY <1>3, <1>5, <1>7, <2>1, <2>2, <2>3 DEF Queues
<1>9. Stages(u, t, on, stored)
  <2> DEFINE b == s.born
  <2>1. v.flush = "draining" => v.init = "ok" BY DEF Stages
  <2>2. /\ b <= n
        /\ on /\ v.init = "pending" => n <= b + h
        /\ on /\ v.init = "ok" => n <= stored + h
    BY DEF Stages
  <2>3. n \in Nat /\ b \in Nat /\ t.born = b /\ Len(t.log) = n + 1 OBVIOUS
  <2> HIDE DEF n, b, h
  <2>4. /\ b <= n + 1
        /\ on /\ v.init = "pending" => n + 1 <= b + (h + 1)
        /\ on /\ v.init = "ok" => n + 1 <= stored + (h + 1)
    BY <1>1, <2>2, <2>3
  <2> QED BY <1>5, <1>7, <2>1, <2>3, <2>4 DEF Stages
<1> QED BY <1>3, <1>5, <1>6, <1>8, <1>9

\* An event is queued while the plugin listens; what is being written still
\* reaches up to what is queued behind it.
LEMMA EmitInv ==
  ASSUME Inv, NEW l \in Lives, NEW kind \in Kinds, Emit(l, kind)
  PROVE  Inv'
<1> DEFINE log == Append(sessions[l].log, [kind |-> kind, by |-> l])
           t == [sessions[l] EXCEPT !.log = log]
           on == plugin = "on"
           u == IF on THEN [live[l] EXCEPT !.w = Enqueue(live[l].w, Len(log))] ELSE live[l]
           stored == Len(disk.log)
<1>1. /\ sessions[l].at = "open"
      /\ sessions' = [sessions EXCEPT ![l] = t]
      /\ live' = IF plugin = "on" THEN With(l, Enqueue(live[l].w, Len(log))) ELSE live
      /\ UNCHANGED <<disk, states, retirement, chain, job, entry, readers, plugin, spent, acked>>
  BY DEF Emit, Open
<1>2. /\ live \in [Lives -> LiveRecs] /\ sessions \in [Lives -> SessionRecs]
      /\ live[l] \in LiveRecs /\ sessions[l] \in SessionRecs
      /\ Queues(live[l], sessions[l], on) /\ Stages(live[l], sessions[l], on, stored)
  BY DEF Inv, TypeInv, LivesInv
<1>3. /\ sessions[l].log \in Seq(Events) /\ sessions[l].born \in Nat
      /\ Len(sessions[l].log) \in Nat /\ stored \in Nat
  BY <1>2, DiskParts, LenProperties DEF SessionRecs, Logs
<1>4. log \in Seq(Events) /\ Len(log) = Len(sessions[l].log) + 1
  <2>1. [kind |-> kind, by |-> l] \in Events BY DEF Events
  <2> QED BY <1>3, <2>1, AppendProperties
<1> HIDE DEF log, stored
<1>5. t \in SessionRecs /\ t.log = log /\ t.born = sessions[l].born /\ t.at = "open"
  BY <1>1, <1>2, <1>4 DEF SessionRecs, Logs
<1> HIDE DEF t
<1>6. /\ u \in LiveRecs /\ Queues(u, t, on) /\ Stages(u, t, on, stored)
      /\ u.init = live[l].init /\ u.w.writing = live[l].w.writing
      /\ on => Len(u.w.pending) = Len(live[l].w.pending) + 1
  <2>1. CASE on
    <3>1. u = [live[l] EXCEPT !.w = Enqueue(live[l].w, Len(t.log))] BY <1>5, <2>1
    <3> DEFINE x == live[l]
               s == sessions[l]
    <3> HIDE DEF u, x, s
    <3>2. /\ x \in LiveRecs /\ stored \in Nat /\ Len(s.log) \in Nat /\ s.born \in Nat
          /\ Len(t.log) = Len(s.log) + 1 /\ t.born = s.born /\ t.at = "open"
          /\ Queues(x, s, on) /\ Stages(x, s, on, stored)
          /\ u = [x EXCEPT !.w = Enqueue(x.w, Len(s.log) + 1)]
      BY <1>2, <1>3, <1>4, <1>5, <3>1 DEF x, s
    <3>3. /\ u \in LiveRecs /\ Queues(u, t, on) /\ Stages(u, t, on, stored)
          /\ u.init = x.init /\ u.w.writing = x.w.writing
          /\ Len(u.w.pending) = Len(x.w.pending) + 1
      BY <3>2, EnqueuedFields, ZenonT(60)
    <3> QED BY <3>3 DEF x
  <2>2. CASE ~on
    <3>1. u = live[l] BY <2>2
    <3>2. \A i \in 1 .. Len(sessions[l].log) : i \in 1 .. Len(t.log)
      BY <1>3, <1>4, <1>5
    <3>3. Queues(live[l], t, on) BY <1>2, <2>2, <3>2 DEF Queues
    <3>4. Stages(live[l], t, on, stored)
      <4>1. sessions[l].born <= Len(sessions[l].log) BY <1>2 DEF Stages
      <4>2. t.born <= Len(t.log) BY <1>3, <1>4, <1>5, <4>1
      <4> QED BY <1>2, <1>5, <2>2, <4>2 DEF Stages
    <3> QED BY <1>2, <2>2, <3>1, <3>3, <3>4
  <2> QED BY <2>1, <2>2
<1>7. live' = [live EXCEPT ![l] = u]
  <2>1. live = [live EXCEPT ![l] = live[l]] BY <1>2
  <2> QED BY <1>1, <2>1 DEF With
<1> HIDE DEF u
<1>8. /\ live' \in [Lives -> LiveRecs] /\ sessions' \in [Lives -> SessionRecs]
      /\ live'[l] = u /\ sessions'[l] = t
      /\ \A k \in Lives : k # l => live'[k] = live[k] /\ sessions'[k] = sessions[k]
  BY <1>1, <1>2, <1>5, <1>6, <1>7
<1>9. LivesInv'
  <2>1. \A k \in Lives : Queues(live[k], sessions[k], on) /\ Stages(live[k], sessions[k], on, stored)
    BY DEF Inv, LivesInv, stored
  <2>2. plugin' = plugin /\ Len(disk'.log) = stored BY <1>1 DEF stored
  <2> QED BY <1>6, <1>8, <2>1, <2>2 DEF LivesInv
<1>10. ChainInv'
  <2>1. \A k \in Lives : Keeps(live[k], sessions[k], live'[k], sessions'[k])
    BY <1>1, <1>6, <1>8 DEF Keeps
  <2>2. \A i \in DOMAIN chain : chain[i].op \in LifeOps => chain[i].by \in Lives
    BY DEF Inv, ChainInv, Sound, Stands
  <2> QED BY <1>1, <2>1, <2>2, KeepsSound DEF Inv, ChainInv
<1>11. JobInv'
  <2>1. ASSUME job.does \in {"append", "appended"}
        PROVE  Covers(Head1, states.cursor + Len(job.batch), live', sessions', on)
    <3> DEFINE n == states.cursor + Len(job.batch)
               m == Len(sessions[l].log)
               p == Len(live[l].w.pending)
    <3>1. /\ chain # <<>> /\ Head1.op \in {"create", "suffix", "write"}
          /\ Covers(Head1, n, live, sessions, on)
      BY <2>1 DEF Inv, JobInv
    <3>2. Head1.by \in Lives
      <4>1. Stands(Head1, live, sessions, readers)
        BY <3>1, PopSound DEF Inv, ChainInv, TypeInv, Head1
      <4> QED BY <3>1, <4>1 DEF Stands, LifeOps
    <3>3. n \in Nat /\ m \in Nat /\ p \in Nat
      <4>1. n \in Nat
        <5>1. states.cursor \in Nat /\ Len(job.batch) \in Nat BY DiskParts
        <5> QED BY <5>1
      <4>2. p \in Nat
        <5>1. live[l].w.pending \in Seq(Nat) BY <1>2, LiveParts
        <5> QED BY <5>1, LenProperties
      <4>3. m \in Nat BY <1>3
      <4> QED BY <4>1, <4>2, <4>3
    <3>4. sessions'[l].log = log /\ Len(log) = m + 1 /\ sessions'[l].born = sessions[l].born
      BY <1>4, <1>5, <1>8
    <3>5. on => Len(live'[l].w.pending) = p + 1 BY <1>6, <1>8
    <3>6. on /\ Head1.op = "write" => Len(sessions[Head1.by].log) <= n + Len(live[Head1.by].w.pending)
      BY <3>1 DEF Covers
    <3>7. Head1.op \in {"create", "suffix"} => sessions[Head1.by].born <= n
      BY <3>1 DEF Covers
    <3>8. CASE Head1.by # l
      BY <1>8, <3>1, <3>2, <3>8 DEF Covers
    <3>9. CASE Head1.by = l
      <4>1. on /\ Head1.op = "write" => m <= n + p BY <3>6, <3>9
      <4> HIDE DEF n, m, p
      <4>2. on /\ Head1.op = "write" => m + 1 <= n + (p + 1) BY <3>3, <4>1
      <4>3. Covers(Head1, n, live', sessions', on)
        BY <3>4, <3>5, <3>7, <3>9, <4>2 DEF Covers
      <4> QED BY <4>3 DEF n
    <3> QED BY <3>8, <3>9
  <2>2. JobInv BY DEF Inv
  <2> QED BY <1>1, <2>1, <2>2, JobKept
<1>12. PluginInv'
  <2>1. plugin = "off" => live' = live BY <1>1
  <2> QED BY <1>1, <2>1 DEF Inv, PluginInv
<1> QED BY <1>1, <1>8, <1>9, <1>10, <1>11, <1>12 DEF Inv, TypeInv, DiskInv, CursorInv

\* A life that was unborn has no operation in the chain.
LEMMA LifeStarts ==
  ASSUME Inv, NEW l \in Unborn, NEW v \in LiveRecs, NEW s \in SessionRecs,
         live' = [live EXCEPT ![l] = v], sessions' = [sessions EXCEPT ![l] = s],
         Queues(v, s, plugin = "on"), Stages(v, s, plugin = "on", Len(disk.log)),
         UNCHANGED <<disk, plugin>>
  PROVE  /\ l \in Lives
         /\ live' \in [Lives -> LiveRecs] /\ sessions' \in [Lives -> SessionRecs]
         /\ live'[l] = v /\ sessions'[l] = s
         /\ LivesInv' /\ Sound(chain, live', sessions', readers)
         /\ \A i \in DOMAIN chain : ~(chain[i].op \in LifeOps /\ chain[i].by = l)
         /\ job.does \in {"append", "appended"} =>
              Covers(Head1, states.cursor + Len(job.batch), live', sessions', plugin = "on")
<1>1. l \in Lives /\ sessions[l].at = "unborn" BY DEF Unborn
<1>2. live[l] = NoLive BY <1>1 DEF Inv, LivesInv, Stages
<1>3. live[l].init = "none" BY <1>2, NoLiveFields
<1>4. ASSUME NEW i \in DOMAIN chain PROVE ~(chain[i].op \in LifeOps /\ chain[i].by = l)
  <2>1. Stands(chain[i], live, sessions, readers) BY DEF Inv, ChainInv, Sound
  <2> QED BY <1>3, <2>1 DEF Stands, LifeOps
<1>5. live \in [Lives -> LiveRecs] /\ sessions \in [Lives -> SessionRecs] /\ chain \in Seq(OpRecs)
  BY DEF Inv, TypeInv
<1>6. /\ live' \in [Lives -> LiveRecs] /\ sessions' \in [Lives -> SessionRecs]
      /\ live'[l] = v /\ sessions'[l] = s
      /\ \A k \in Lives : k # l => live'[k] = live[k] /\ sessions'[k] = sessions[k]
  BY <1>1, <1>5
<1>7. LivesInv' BY <1>6 DEF Inv, LivesInv
<1>8. \A i \in DOMAIN chain : chain[i].op \in LifeOps => chain[i].by \in Lives
  BY DEF Inv, ChainInv, Sound, Stands
<1>9. Sound(chain, live', sessions', readers)
  <2>1. \A k \in Lives : k # l => Keeps(live[k], sessions[k], live'[k], sessions'[k])
    BY <1>6 DEF Keeps
  <2> QED BY <1>4, <1>8, <2>1, KeepsSound DEF Inv, ChainInv
<1>10. ASSUME job.does \in {"append", "appended"}
       PROVE  Covers(Head1, states.cursor + Len(job.batch), live', sessions', plugin = "on")
  <2>1. /\ chain # <<>> /\ Head1.op \in {"create", "suffix", "write"}
        /\ Covers(Head1, states.cursor + Len(job.batch), live, sessions, plugin = "on")
    BY <1>10 DEF Inv, JobInv
  <2>2. 1 \in DOMAIN chain BY <1>5, <2>1, EmptySeq, LenProperties
  <2>3. Head1.by \in Lives /\ Head1.by # l BY <1>4, <1>8, <2>1, <2>2 DEF Head1, LifeOps
  <2> QED BY <1>6, <2>1, <2>3 DEF Covers
<1> QED BY <1>1, <1>4, <1>6, <1>7, <1>9, <1>10

\* Who is bound to nothing is in nobody's way.
LEMMA LifePushed ==
  ASSUME NEW c \in Seq(OpRecs), NEW lv, NEW ss, NEW rd, Sound(c, lv, ss, rd),
         NEW l \in Lives, NEW op \in {"create", "suffix"}, lv[l].init = "pending",
         \A i \in DOMAIN c : ~(c[i].op \in LifeOps /\ c[i].by = l)
  PROVE  /\ c \o Op(op, l) \in Seq(OpRecs) /\ Sound(c \o Op(op, l), lv, ss, rd)
         /\ c \o Op(op, l) # <<>> /\ (c # <<>> => (c \o Op(op, l))[1] = c[1])
<1> DEFINE o == Op(op, l)[1]
<1>1. op \in LifeOps BY DEF LifeOps
<1>2. o \in OpRecs /\ o.op = op /\ o.by = l /\ Op(op, l) = <<o>> BY <1>1, OpFields
<1> HIDE DEF o
<1>3. Stands(o, lv, ss, rd) BY <1>2 DEF Stands, ReaderOps
<1>4. \A i \in DOMAIN c : ~Kin(c[i], o)
  BY <1>1, <1>2 DEF Kin, LifeOps, ReaderOps
<1> QED BY <1>2, <1>3, <1>4, PushSound

LEMMA CreateInv ==
  ASSUME Inv, Create
  PROVE  Inv'
<1> DEFINE l == NextLife
           s == [sessions[l] EXCEPT !.at = "open"]
<1>1. /\ plugin = "on" /\ Unborn # {}
      /\ sessions' = [sessions EXCEPT ![l] = s]
      /\ live' = [live EXCEPT ![l] = Starting]
      /\ chain' = chain \o Op("create", l)
      /\ UNCHANGED <<disk, states, retirement, job, entry, readers, plugin, spent, acked>>
  BY DEF Create
<1>2. l \in Unborn BY <1>1, NextLifeUnborn
<1> HIDE DEF l
<1>3. l \in Lives /\ sessions[l] \in SessionRecs /\ sessions[l].at = "unborn"
      /\ sessions[l].log = <<>> /\ sessions[l].born \in Nat /\ sessions[l].born <= 0
  <2>1. l \in Lives /\ sessions[l].at = "unborn" BY <1>2 DEF Unborn
  <2>2. sessions[l] \in SessionRecs BY <2>1 DEF Inv, TypeInv
  <2>3. sessions[l].log = <<>> /\ sessions[l].born <= Len(sessions[l].log)
    BY <2>1 DEF Inv, LivesInv, Stages
  <2> QED BY <2>1, <2>2, <2>3, EmptySeq DEF SessionRecs
<1>4. s \in SessionRecs /\ s.log = <<>> /\ s.born = sessions[l].born /\ s.at = "open"
  BY <1>3 DEF SessionRecs
<1> HIDE DEF s
<1>5. Len(s.log) = 0 /\ Len(Held(Starting.w)) = 0 /\ WellFormed(Starting.w)
  BY <1>4, StartingFields, FreshHolds, EmptySeq
<1>6. Queues(Starting, s, plugin = "on") BY <1>5 DEF Queues
<1>7. Stages(Starting, s, plugin = "on", Len(disk.log))
  <2>1. Starting.init = "pending" /\ Starting.flush = "no" BY StartingFields
  <2> QED BY <1>3, <1>4, <1>5, <2>1 DEF Stages
<1>8. /\ l \in Lives
      /\ live' \in [Lives -> LiveRecs] /\ sessions' \in [Lives -> SessionRecs]
      /\ live'[l] = Starting
      /\ LivesInv' /\ Sound(chain, live', sessions', readers)
      /\ \A i \in DOMAIN chain : ~(chain[i].op \in LifeOps /\ chain[i].by = l)
      /\ job.does \in {"append", "appended"} =>
           Covers(Head1, states.cursor + Len(job.batch), live', sessions', plugin = "on")
  <2>1. Starting \in LiveRecs BY StartingFields
  <2> QED BY <1>1, <1>2, <1>4, <1>6, <1>7, <2>1, LifeStarts
<1>9. /\ chain' \in Seq(OpRecs) /\ Sound(chain', live', sessions', readers)
      /\ chain' # <<>> /\ (chain # <<>> => chain'[1] = chain[1])
  <2>1. live'[l].init = "pending" BY <1>8, StartingFields
  <2>2. chain \in Seq(OpRecs) BY DEF Inv, TypeInv
  <2> DEFINE d == chain \o Op("create", l)
  <2>3. /\ d \in Seq(OpRecs) /\ Sound(d, live', sessions', readers)
        /\ d # <<>> /\ (chain # <<>> => d[1] = chain[1])
    BY <1>8, <2>1, <2>2, LifePushed
  <2>4. chain' = d BY <1>1
  <2> HIDE DEF d
  <2> QED BY <2>3, <2>4
<1>10. JobInv'
  <2>1. JobInv BY DEF Inv
  <2> QED BY <1>1, <1>8, <1>9, <2>1, JobKept
<1> QED BY <1>1, <1>8, <1>9, <1>10
     DEF Inv, TypeInv, DiskInv, ChainInv, CursorInv, PluginInv

LEMMA PublishInv ==
  ASSUME Inv, NEW r \in Readers, NEW setup \in BOOLEAN, Publish(r, setup)
  PROVE  Inv'
<1> DEFINE l == NextLife
           log == Published(r, setup)
           s == [at |-> "open", log |-> log, born |-> Len(log)]
           init == IF setup THEN "pending" ELSE "ok"
           v == [NoLive EXCEPT !.init = init]
           rd == Over(Released(readers), r)
<1>1. /\ readers[r].at = "held" /\ Unborn # {}
      /\ states.cursor = Len(readers[r].source.log)
      /\ sessions' = [sessions EXCEPT ![l] = s]
      /\ live' = [live EXCEPT ![l] = v]
      /\ states' = [states EXCEPT !.owner = l]
      /\ entry' = NoEntry /\ readers' = rd
      /\ chain' = IF setup THEN Orphan(chain) \o Op("suffix", l) ELSE Orphan(chain)
      /\ UNCHANGED <<disk, retirement, job, plugin, spent, acked>>
  BY DEF Publish, Matches
<1>2. l \in Unborn /\ l \in Lives BY <1>1, NextLifeUnborn DEF Unborn
<1>3. plugin = "on" BY <1>1 DEF Inv, PluginInv
<1>4. /\ readers \in [Readers -> CallRecs] /\ readers[r].source.log \in Seq(Events)
      /\ states \in StateRecs /\ states.cursor \in Nat /\ states.cursor <= Len(disk.log)
  <2>1. readers \in [Readers -> CallRecs] BY DEF Inv, TypeInv
  <2>2. readers[r].source.log \in Seq(Events) BY <2>1, CallFields DEF Logs
  <2> QED BY <2>1, <2>2, DiskParts DEF Inv, CursorInv
<1>5. /\ log \in Seq(Events) /\ Len(log) \in Nat
      /\ ~setup => Len(log) = states.cursor
  <2> DEFINE note == IF setup THEN <<[kind |-> "note", by |-> l]>> ELSE <<>>
  <2>1. note \in Seq(Events)
    <3>1. [kind |-> "note", by |-> l] \in Events BY <1>2 DEF Events, Kinds
    <3> HIDE DEF l
    <3> DEFINE e == [kind |-> "note", by |-> l]
    <3> HIDE DEF e
    <3>2. <<e>> \in Seq(Events) /\ <<>> \in Seq(Events) BY <3>1, EmptySeq DEF e
    <3> QED BY <3>2 DEF e
  <2>2. log = readers[r].source.log \o note BY DEF Published
  <2> HIDE DEF note
  <2>3. log \in Seq(Events) BY <1>4, <2>1, <2>2, ConcatProperties
  <2>4. ~setup => log = readers[r].source.log
    BY <1>4, <2>2, ConcatEmptySeq DEF note
  <2> HIDE DEF log
  <2> QED BY <1>1, <2>3, <2>4, LenProperties
<1> HIDE DEF l, log
<1>6. s \in SessionRecs /\ s.log = log /\ s.born = Len(log) /\ s.at = "open"
  BY <1>5 DEF SessionRecs, Logs
<1> HIDE DEF s
<1>7. /\ init \in {"ok", "pending"} /\ (init = "pending" <=> setup)
  OBVIOUS
<1> HIDE DEF init
<1>8. v \in LiveRecs /\ v.init = init /\ v.w = Fresh /\ v.flush = "no"
  <2> DEFINE x == NoLive
  <2>1. x \in LiveRecs /\ x.w = Fresh /\ x.flush = "no" BY NoLiveFields
  <2>2. v = [x EXCEPT !.init = init] OBVIOUS
  <2> HIDE DEF x, v
  <2>3. init \in {"none", "pending", "ok", "broken", "refused"} BY <1>7
  <2>4. /\ [x EXCEPT !.init = init] \in LiveRecs /\ [x EXCEPT !.init = init].init = init
        /\ [x EXCEPT !.init = init].w = x.w /\ [x EXCEPT !.init = init].flush = x.flush
    BY <2>1, <2>3, SetInit
  <2>5. v \in LiveRecs /\ v.init = init /\ v.w = x.w /\ v.flush = x.flush
    BY <2>2, <2>4
  <2> QED BY <2>1, <2>5
<1> HIDE DEF v
<1>9. Len(Held(v.w)) = 0 /\ WellFormed(v.w) BY <1>8, FreshHolds, EmptySeq
<1>10. Queues(v, s, plugin = "on") BY <1>9 DEF Queues
<1>11. Stages(v, s, plugin = "on", Len(disk.log))
  <2> DEFINE n == Len(log)
             stored == Len(disk.log)
  <2>1. n \in Nat /\ stored \in Nat BY <1>5, DiskParts
  <2>2. ~setup => n <= stored BY <1>4, <1>5
  <2>3. Len(s.log) = n /\ s.born = n BY <1>6
  <2> HIDE DEF n, stored
  <2>4. n <= n /\ n <= n + 0 /\ (~setup => n <= stored + 0) BY <2>1, <2>2
  <2>5. Stages(v, s, plugin = "on", stored)
    BY <1>6, <1>7, <1>8, <1>9, <2>3, <2>4 DEF Stages
  <2> QED BY <2>5 DEF stored
<1>12. /\ live' \in [Lives -> LiveRecs] /\ sessions' \in [Lives -> SessionRecs]
       /\ live'[l] = v
       /\ LivesInv' /\ Sound(chain, live', sessions', readers)
       /\ \A i \in DOMAIN chain : ~(chain[i].op \in LifeOps /\ chain[i].by = l)
       /\ job.does \in {"append", "appended"} =>
            Covers(Head1, states.cursor + Len(job.batch), live', sessions', plugin = "on")
  BY <1>1, <1>2, <1>6, <1>8, <1>10, <1>11, LifeStarts
<1>13. rd \in [Readers -> CallRecs]
       /\ \A q \in Readers : readers[q].at \in ReaderOps => rd[q].at = readers[q].at
  <2>1. /\ Released(readers) \in [Readers -> CallRecs]
        /\ \A q \in Readers : Released(readers)[q].at = readers[q].at
    BY <1>4, ReleasedFields
  <2>2. /\ rd \in [Readers -> CallRecs]
        /\ \A q \in Readers : q # r => rd[q] = Released(readers)[q]
    BY <2>1, OverFields
  <2> HIDE DEF rd
  <2> QED BY <1>1, <2>1, <2>2 DEF ReaderOps
<1> HIDE DEF rd
<1>14. Sound(chain, live', sessions', rd) BY <1>12, <1>13, ReadersSound
<1>15. /\ Orphan(chain) \in Seq(OpRecs) /\ Sound(Orphan(chain), live', sessions', rd)
       /\ \A i \in DOMAIN Orphan(chain) :
            ~(Orphan(chain)[i].op \in LifeOps /\ Orphan(chain)[i].by = l)
       /\ job # NoJob => Orphan(chain) # <<>> /\ Orphan(chain)[1] = chain[1]
  <2>1. chain \in Seq(OpRecs) BY DEF Inv, TypeInv
  <2> HIDE DEF Inv
  <2>2. /\ Orphan(chain) \in Seq(OpRecs) /\ Sound(Orphan(chain), live', sessions', rd)
        /\ DOMAIN Orphan(chain) = DOMAIN chain
        /\ \A i \in DOMAIN chain : \/ Orphan(chain)[i] = chain[i]
                                   \/ chain[i].op = "read" /\ Orphan(chain)[i].op = "read"
    BY <1>14, <2>1, OrphanSound
  <2>3. job # NoJob => Orphan(chain) # <<>> /\ Orphan(chain)[1] = chain[1]
    BY OrphanKeeps
  <2> QED BY <1>12, <2>2, <2>3 DEF LifeOps
<1>16. /\ chain' \in Seq(OpRecs) /\ Sound(chain', live', sessions', rd)
       /\ job # NoJob => chain' # <<>> /\ chain'[1] = chain[1]
  <2>1. CASE setup
    <3>1. live'[l].init = "pending" BY <1>7, <1>8, <1>12, <2>1
    <3>2. chain' = Orphan(chain) \o Op("suffix", l) BY <1>1, <2>1
    <3> QED BY <1>2, <1>12, <1>15, <3>1, <3>2, LifePushed
  <2>2. CASE ~setup BY <1>1, <1>15, <2>2
  <2> QED BY <2>1, <2>2
<1>17. states' \in StateRecs /\ states'.cursor = states.cursor
  BY <1>1, <1>2, <1>4 DEF StateRecs
<1>18. JobInv'
  <2>1. JobInv BY DEF Inv
  <2>2. CASE job = NoJob
    <3>1. job' = NoJob BY <1>1, <2>2
    <3> QED BY <3>1 DEF JobInv, NoJob
  <2>3. CASE job # NoJob
    <3>1. chain' # <<>> /\ Head1' = Head1 BY <1>16, <2>3 DEF Head1
    <3>2. job.does \in {"append", "appended"} =>
            Covers(Head1, states.cursor + Len(job.batch), live, sessions, plugin = "on")
      BY <2>1 DEF JobInv
    <3> QED BY <1>1, <1>12, <1>17, <2>1, <2>3, <3>1 DEF JobInv
  <2> QED BY <2>2, <2>3
<1>19. /\ retirement' \in Lives \cup {None} /\ spent' \in [reads : Nat, incidents : Nat]
       /\ disk' \in Disks /\ acked' \in Logs /\ job' \in Jobs
       /\ entry' \in Entries /\ plugin' = "on"
  BY <1>1, <1>3, EntryFields DEF Inv, TypeInv
<1>20. TypeInv' BY <1>1, <1>12, <1>13, <1>16, <1>17, <1>19 DEF TypeInv
<1>21. ChainInv' BY <1>1, <1>16 DEF ChainInv
<1>22. DiskInv' BY <1>1 DEF Inv, DiskInv
<1>23. CursorInv' BY <1>1, <1>4, <1>17 DEF CursorInv
<1>24. PluginInv' BY <1>19 DEF PluginInv
<1> QED BY <1>12, <1>18, <1>20, <1>21, <1>22, <1>23, <1>24 DEF Inv

\* A life that no coordinator knows.
LEMMA Forgotten ==
  ASSUME NEW s \in SessionRecs, NEW on, NEW stored, s.born <= Len(s.log),
         s.at = "unborn" => s.log = <<>>
  PROVE  Queues(NoLive, s, on) /\ Stages(NoLive, s, on, stored)
<1>1. Len(Held(NoLive.w)) = 0 /\ WellFormed(NoLive.w)
  BY NoLiveFields, FreshHolds, EmptySeq
<1>2. Queues(NoLive, s, on) BY <1>1 DEF Queues
<1> QED BY <1>2, NoLiveFields DEF Stages

\* ... and one a new coordinator adopts.
LEMMA Adopted ==
  ASSUME NEW s, NEW on, NEW stored, Len(s.log) \in Nat, s.born = Len(s.log), s.at = "open"
  PROVE  Queues(Starting, s, on) /\ Stages(Starting, s, on, stored)
<1>1. Len(Held(Starting.w)) = 0 /\ WellFormed(Starting.w)
  BY StartingFields, FreshHolds, EmptySeq
<1>2. Queues(Starting, s, on) BY <1>1 DEF Queues
<1>3. Starting.init = "pending" /\ Starting.flush = "no" BY StartingFields
<1>4. s.born <= Len(s.log) /\ Len(s.log) <= s.born + 0 OBVIOUS
<1> QED BY <1>1, <1>2, <1>3, <1>4 DEF Stages

LEMMA SessionParts ==
  ASSUME Inv, NEW l \in Lives
  PROVE  /\ sessions[l] \in SessionRecs /\ live[l] \in LiveRecs
         /\ sessions[l].log \in Seq(Events) /\ Len(sessions[l].log) \in Nat
         /\ sessions[l].born \in Nat /\ sessions[l].born <= Len(sessions[l].log)
         /\ sessions[l].at = "unborn" => sessions[l].log = <<>> /\ live[l] = NoLive
<1>1. sessions[l] \in SessionRecs /\ live[l] \in LiveRecs BY DEF Inv, TypeInv
<1>2. sessions[l].log \in Seq(Events) /\ sessions[l].born \in Nat
  BY <1>1 DEF SessionRecs, Logs
<1>3. Len(sessions[l].log) \in Nat BY <1>2, LenProperties
<1>4. /\ sessions[l].born <= Len(sessions[l].log)
      /\ sessions[l].at = "unborn" => live[l] = NoLive /\ sessions[l].log = <<>>
  BY DEF Inv, LivesInv, Stages
<1> QED BY <1>1, <1>2, <1>3, <1>4

LEMMA UntrackedFields ==
  /\ Untracked \in StateRecs /\ Untracked.cursor = 0
  /\ \A d : Len(d) \in Nat => Untracked.cursor <= Len(d)
<1>1. Untracked \in StateRecs /\ Untracked.cursor = 0 BY DEF Untracked, StateRecs
<1>2. \A n \in Nat : Untracked.cursor <= n BY <1>1
<1> QED BY <1>1, <1>2

LEMMA JobIdle ==
  ASSUME Inv, chain = <<>>
  PROVE  job = NoJob
BY DEF Inv, JobInv, TypeInv, Jobs

LEMMA UnloadedInv ==
  ASSUME Inv, Unloaded
  PROVE  Inv'
<1>1. /\ plugin = "closing" /\ plugin' = "off" /\ chain = <<>> /\ chain' = <<>>
      /\ sessions' = Ended(sessions) /\ live' = [l \in Lives |-> NoLive]
      /\ states' = Untracked /\ retirement' = None /\ entry' = NoEntry
      /\ UNCHANGED <<disk, job, readers, spent, acked>>
  BY DEF Unloaded
<1>2. ASSUME NEW l \in Lives
      PROVE  /\ sessions'[l] \in SessionRecs
             /\ sessions'[l].born <= Len(sessions'[l].log)
             /\ sessions'[l].at = "unborn" => sessions'[l].log = <<>>
  <2> DEFINE s == sessions[l]
  <2>1. /\ s \in SessionRecs /\ s.born <= Len(s.log) /\ (s.at = "unborn" => s.log = <<>>)
    BY SessionParts
  <2>2. sessions'[l] = IF s.at = "gone" THEN [s EXCEPT !.at = "dead"] ELSE s
    BY <1>1 DEF Ended
  <2> HIDE DEF s
  <2> DEFINE t == [s EXCEPT !.at = "dead"]
  <2>3. t \in SessionRecs /\ t.log = s.log /\ t.born = s.born /\ t.at = "dead"
    BY <2>1 DEF SessionRecs
  <2> HIDE DEF t
  <2>4. sessions'[l] = t \/ sessions'[l] = s BY <2>2 DEF t
  <2> QED BY <2>1, <2>3, <2>4
<1>3. sessions' \in [Lives -> SessionRecs]
  <2>1. sessions' = [l \in Lives |-> sessions'[l]] BY <1>1 DEF Ended
  <2> QED BY <1>2, <2>1
<1>4. live' \in [Lives -> LiveRecs] BY <1>1, NoLiveFields
<1>5. LivesInv'
  <2>1. \A l \in Lives : live'[l] = NoLive BY <1>1
  <2> QED BY <1>2, <2>1, Forgotten DEF LivesInv
<1>6. job' = NoJob BY <1>1, JobIdle
<1>7. JobInv' BY <1>6 DEF JobInv, NoJob
<1>8. ChainInv' BY <1>1, EmptySeq DEF ChainInv, Sound
<1>9. CursorInv' BY <1>1, DiskParts, UntrackedFields DEF CursorInv
<1>10. PluginInv'
  <2>1. \A r \in Readers : readers[r].at \in {"idle", "done"} BY <1>1 DEF Inv, PluginInv
  <2> QED BY <1>1, <2>1 DEF PluginInv
<1>11. TypeInv'
  <2>1. chain' \in Seq(OpRecs) BY <1>1, EmptySeq
  <2> QED BY <1>1, <1>3, <1>4, <2>1, EntryFields, UntrackedFields DEF Inv, TypeInv
<1>12. DiskInv' BY <1>1 DEF Inv, DiskInv
<1> QED BY <1>5, <1>7, <1>8, <1>9, <1>10, <1>11, <1>12 DEF Inv

LEMMA MountInv ==
  ASSUME Inv, Mount
  PROVE  Inv'
<1> DEFINE adopted == CHOOSE l \in Open : TRUE
<1>1. /\ plugin = "off" /\ plugin' = "on"
      /\ sessions' = [l \in Lives |->
           IF l \in Open THEN [sessions[l] EXCEPT !.born = Len(sessions[l].log)]
           ELSE sessions[l]]
      /\ live' = [l \in Lives |-> IF l \in Open THEN Starting ELSE NoLive]
      /\ chain' = IF Open = {} THEN <<>> ELSE Op("create", adopted)
      /\ UNCHANGED <<disk, states, retirement, job, entry, readers, spent, acked>>
  BY DEF Mount
<1>2. chain = <<>> BY <1>1 DEF Inv, PluginInv
<1>3. Open # {} => adopted \in Open /\ adopted \in Lives BY DEF Open
<1> HIDE DEF adopted
<1>4. ASSUME NEW l \in Lives
      PROVE  /\ sessions'[l] \in SessionRecs
             /\ Queues(live'[l], sessions'[l], plugin' = "on")
             /\ Stages(live'[l], sessions'[l], plugin' = "on", Len(disk'.log))
  <2> DEFINE s == sessions[l]
             t == [s EXCEPT !.born = Len(s.log)]
  <2>1. /\ s \in SessionRecs /\ s.born <= Len(s.log) /\ (s.at = "unborn" => s.log = <<>>)
        /\ Len(s.log) \in Nat
    BY SessionParts
  <2>2. CASE l \in Open
    <3>1. sessions'[l] = t /\ live'[l] = Starting /\ s.at = "open" BY <1>1, <2>2 DEF Open
    <3> HIDE DEF s
    <3>2. t \in SessionRecs /\ t.log = s.log /\ t.born = Len(s.log) /\ t.at = s.at
      BY <2>1 DEF SessionRecs
    <3> HIDE DEF t
    <3> QED BY <2>1, <3>1, <3>2, Adopted
  <2>3. CASE l \notin Open
    <3>1. sessions'[l] = s /\ live'[l] = NoLive BY <1>1, <2>3
    <3> HIDE DEF s
    <3> QED BY <2>1, <3>1, Forgotten
  <2> QED BY <2>2, <2>3
<1>5. sessions' \in [Lives -> SessionRecs]
  <2>1. sessions' = [l \in Lives |-> sessions'[l]] BY <1>1
  <2> QED BY <1>4, <2>1
<1>6. live' \in [Lives -> LiveRecs] BY <1>1, NoLiveFields, StartingFields
<1>7. LivesInv' BY <1>4 DEF LivesInv
<1>8. chain' \in Seq(OpRecs) /\ Sound(chain', live', sessions', readers)
  <2>1. <<>> \in Seq(OpRecs) /\ Sound(<<>>, live', sessions', readers) BY EmptySeq DEF Sound
  <2>2. ASSUME Open # {}
        PROVE  Op("create", adopted) \in Seq(OpRecs)
               /\ Sound(Op("create", adopted), live', sessions', readers)
    <3> DEFINE o == Op("create", adopted)[1]
    <3>1. adopted \in Open /\ adopted \in Lives BY <1>3, <2>2
    <3>2. /\ Op("create", adopted) = <<o>> /\ Op("create", adopted) \in Seq(OpRecs)
          /\ o.op = "create" /\ o.by = adopted
      BY <3>1, OpFields DEF LifeOps
    <3> HIDE DEF o
    <3>3. live'[adopted].init = "pending" BY <1>1, <3>1, StartingFields
    <3>4. Stands(o, live', sessions', readers)
      BY <3>1, <3>2, <3>3 DEF Stands, ReaderOps
    <3>5. Sound(<<o>>, live', sessions', readers) BY <3>4 DEF Sound
    <3> QED BY <3>2, <3>5
  <2> QED BY <1>1, <2>1, <2>2
<1>9. job' = NoJob BY <1>1, <1>2, JobIdle
<1>10. JobInv' BY <1>9 DEF JobInv, NoJob
<1>11. TypeInv' BY <1>1, <1>5, <1>6, <1>8 DEF Inv, TypeInv
<1>12. ChainInv' BY <1>1, <1>8 DEF ChainInv
<1>13. PluginInv' BY <1>1 DEF PluginInv
<1>14. DiskInv' /\ CursorInv' BY <1>1 DEF Inv, DiskInv, CursorInv
<1> QED BY <1>7, <1>10, <1>11, <1>12, <1>13, <1>14 DEF Inv

LEMMA JoinSound ==
  ASSUME NEW c \in Seq(OpRecs), NEW d \in Seq(OpRecs), NEW lv, NEW ss, NEW rd,
         Sound(c, lv, ss, rd), Sound(d, lv, ss, rd),
         \A i \in DOMAIN c, j \in DOMAIN d : ~Kin(c[i], d[j])
  PROVE  /\ c \o d \in Seq(OpRecs) /\ Sound(c \o d, lv, ss, rd)
         /\ c # <<>> => c \o d # <<>> /\ (c \o d)[1] = c[1]
<1> DEFINE e == c \o d
           m == Len(c)
           n == Len(d)
<1>1. m \in Nat /\ n \in Nat /\ DOMAIN c = 1 .. m /\ DOMAIN d = 1 .. n
  BY LenProperties
<1>2. /\ e \in Seq(OpRecs) /\ Len(e) = m + n
      /\ \A i \in 1 .. m + n : e[i] = IF i <= m THEN c[i] ELSE d[i - m]
  BY ConcatProperties
<1>3. DOMAIN e = 1 .. m + n BY <1>2, LenProperties
<1>4. (c # <<>> => m # 0) /\ (m + n # 0 => e # <<>>) BY <1>2, EmptySeq
<1> HIDE DEF e, m, n
<1>5. \A i \in DOMAIN e : \/ i \in DOMAIN c /\ e[i] = c[i]
                          \/ i \notin DOMAIN c /\ i - m \in DOMAIN d /\ e[i] = d[i - m]
  BY <1>1, <1>2, <1>3
<1>6. \A i, j \in DOMAIN e : i # j => i - m # j - m BY <1>1, <1>3
<1>7. \A o, p : Kin(o, p) => Kin(p, o) BY DEF Kin
<1>8. \A i \in DOMAIN e : Stands(e[i], lv, ss, rd) BY <1>5 DEF Sound
<1>9. ASSUME NEW i \in DOMAIN e, NEW j \in DOMAIN e, i # j PROVE ~Kin(e[i], e[j])
  <2>1. CASE i \in DOMAIN c /\ j \in DOMAIN c BY <1>5, <1>9, <2>1 DEF Sound
  <2>2. CASE i \in DOMAIN c /\ j \notin DOMAIN c BY <1>5, <2>2
  <2>3. CASE i \notin DOMAIN c /\ j \in DOMAIN c BY <1>5, <1>7, <2>3
  <2>4. CASE i \notin DOMAIN c /\ j \notin DOMAIN c
    <3>1. /\ i - m \in DOMAIN d /\ j - m \in DOMAIN d /\ i - m # j - m
          /\ e[i] = d[i - m] /\ e[j] = d[j - m]
      BY <1>5, <1>6, <1>9, <2>4
    <3> QED BY <3>1 DEF Sound
  <2> QED BY <2>1, <2>2, <2>3, <2>4
<1>10. Sound(e, lv, ss, rd) BY <1>8, <1>9 DEF Sound
<1>11. c # <<>> => e # <<>> /\ e[1] = c[1] BY <1>1, <1>2, <1>4
<1> QED BY <1>2, <1>10, <1>11 DEF e

\* A controller that is to write and is not in the chain is not waited for there.
LEMMA WriteDue ==
  ASSUME NEW c \in Seq(OpRecs), NEW lv, NEW ss, NEW rd, Sound(c, lv, ss, rd),
         NEW l \in Lives, Unqueued(l, lv, c), lv[l].init = "ok"
  PROVE  LET o == Op("write", l)[1]
         IN  /\ o \in OpRecs /\ o.op = "write" /\ o.by = l /\ Stands(o, lv, ss, rd)
             /\ \A i \in DOMAIN c : ~Kin(c[i], o)
<1> DEFINE o == Op("write", l)[1]
<1>1. o \in OpRecs /\ o.op = "write" /\ o.by = l BY OpFields DEF LifeOps
<1>2. Stands(o, lv, ss, rd) BY <1>1 DEF Stands, Unqueued, ReaderOps
<1>3. \A i \in DOMAIN c : c[i] \in OpRecs BY LenProperties, ElementOfSeq
<1>4. \A i \in DOMAIN c : c[i] # o BY DEF Unqueued
<1>5. ASSUME NEW i \in DOMAIN c, Kin(c[i], o) PROVE FALSE
  <2>1. c[i].by = l /\ c[i].op \in LifeOps BY <1>1, <1>5 DEF Kin, ReaderOps
  <2>2. Stands(c[i], lv, ss, rd) BY DEF Sound
  <2>3. HasWork(lv[l].w) BY DEF HasWork, Unqueued
  <2>4. c[i].op = "write" BY <2>1, <2>2, <2>3 DEF Stands, LifeOps
  <2>5. c[i] = o BY <1>1, <1>3, <2>1, <2>4 DEF OpRecs
  <2> QED BY <1>4, <2>5
<1> HIDE DEF o
<1>6. o \in OpRecs /\ o.op = "write" /\ o.by = l /\ Stands(o, lv, ss, rd)
      /\ \A i \in DOMAIN c : ~Kin(c[i], o)
  BY <1>1, <1>2, <1>5
<1> QED BY <1>6 DEF o

\* The disposal asks every attached life to flush; the writes that starts join
\* the chain in some order.
LEMMA UnloadInv ==
  ASSUME Inv, Unload
  PROVE  Inv'
<1> DEFINE S == {l \in Lives : Enlist(l, live', chain) # chain}
           n == Cardinality(S)
<1>1. /\ plugin = "on" /\ plugin' = "closing"
      /\ \A r \in Readers : readers[r].at \in {"idle", "done"}
      /\ live' = [l \in Lives |-> IF live[l].init = "none" THEN live[l] ELSE Asked(l)]
      /\ UNCHANGED <<disk, sessions, states, retirement, job, entry, readers, acked>>
      /\ spent' = [spent EXCEPT !.incidents = @ + 1]
  BY DEF Unload, Happens
<1>2. PICK flushed \in SetToSeqs(S) :
        chain' = chain \o [i \in DOMAIN flushed |-> Op("write", flushed[i])[1]]
  BY DEF Unload
<1> DEFINE d == [i \in DOMAIN flushed |-> Op("write", flushed[i])[1]]
<1>3. n \in Nat
  <2>1. IsFiniteSet(S) BY SessionConstants, FS_Subset
  <2> QED BY <2>1, FS_CardinalityType
<1>4. /\ flushed \in [1 .. n -> S]
      /\ \A i, j \in 1 .. n : i # j => flushed[i] # flushed[j]
  BY DEF SetToSeqs
<1>5. ASSUME NEW l \in Lives
      PROVE  /\ live'[l] \in LiveRecs
             /\ Queues(live'[l], sessions[l], plugin' = "on")
             /\ Stages(live'[l], sessions[l], plugin' = "on", Len(disk.log))
             /\ Keeps(live[l], sessions[l], live'[l], sessions[l])
  <2> DEFINE v == live[l]
             u == Asked(l)
             s == sessions[l]
             stored == Len(disk.log)
  <2>1. /\ v \in LiveRecs /\ Queues(v, s, plugin = "on") /\ Stages(v, s, plugin = "on", stored)
    BY DEF Inv, TypeInv, LivesInv
  <2>2. Queues(v, s, FALSE) /\ Stages(v, s, FALSE, stored)
    BY <2>1 DEF Queues, Stages
  <2>3. (plugin' = "on") = FALSE BY <1>1
  <2>4. CASE v.init = "none"
    <3>1. live'[l] = v BY <1>1, <2>4
    <3>2. Keeps(v, s, v, s) BY DEF Keeps
    <3> QED BY <2>1, <2>2, <2>3, <3>1, <3>2
  <2>5. CASE v.init # "none"
    <3>1. live'[l] = u BY <1>1, <2>5
    <3>2. s.at # "unborn" BY <2>5, SessionParts, NoLiveFields
    <3>3. /\ u \in LiveRecs /\ Holds(v.w, u.w) /\ u.init = v.init
          /\ u.flush = "draining" => u.init = "ok"
      BY AskedFields DEF Inv
    <3> HIDE DEF u, v, s, stored
    <3>4. Queues(u, s, FALSE) /\ Stages(u, s, FALSE, stored) /\ Keeps(v, s, u, s)
      BY <2>1, <2>2, <3>2, <3>3, HoldsLife
    <3> QED BY <2>3, <3>1, <3>3, <3>4 DEF v, s, stored
  <2> QED BY <2>4, <2>5
<1>6. live' \in [Lives -> LiveRecs]
  <2>1. live' = [l \in Lives |-> live'[l]] BY <1>1
  <2> QED BY <1>5, <2>1
<1>7. LivesInv' BY <1>1, <1>5 DEF LivesInv
<1>8. chain \in Seq(OpRecs) /\ Sound(chain, live', sessions, readers)
  <2>1. \A i \in DOMAIN chain : chain[i].op \in LifeOps => chain[i].by \in Lives
    BY DEF Inv, ChainInv, Sound, Stands
  <2> QED BY <1>5, <2>1, KeepsSound DEF Inv, TypeInv, ChainInv
<1>9. ASSUME NEW l \in S
      PROVE  /\ l \in Lives
             /\ Op("write", l)[1] \in OpRecs
             /\ Op("write", l)[1].op = "write" /\ Op("write", l)[1].by = l
             /\ Stands(Op("write", l)[1], live', sessions, readers)
             /\ \A i \in DOMAIN chain : ~Kin(chain[i], Op("write", l)[1])
  <2>1. l \in Lives /\ Unqueued(l, live', chain) /\ live'[l].init = "ok"
    BY DEF Enlist
  <2> QED BY <1>8, <2>1, WriteDue
<1> HIDE DEF S, n
<1>10. /\ d \in Seq(OpRecs) /\ DOMAIN d = 1 .. n
       /\ \A i \in 1 .. n : d[i] = Op("write", flushed[i])[1] /\ flushed[i] \in S
  <2>1. DOMAIN flushed = 1 .. n /\ \A i \in 1 .. n : flushed[i] \in S BY <1>4
  <2>2. d \in [1 .. n -> OpRecs] BY <1>9, <2>1
  <2>3. \A i \in 1 .. n : d[i] = Op("write", flushed[i])[1] BY <2>1
  <2> HIDE DEF d
  <2>4. d \in Seq(OpRecs) BY <1>3, <2>2, SeqDef
  <2> QED BY <2>1, <2>2, <2>3, <2>4
<1>11. chain' = chain \o d BY <1>2
<1> HIDE DEF d
<1>12. Sound(d, live', sessions, readers)
  <2>1. \A i \in DOMAIN d : /\ Stands(d[i], live', sessions, readers)
                            /\ d[i].by = flushed[i]
    BY <1>9, <1>10
  <2>2. \A i, j \in DOMAIN d : i # j => d[i].by # d[j].by BY <1>4, <1>10, <2>1
  <2> QED BY <2>1, <2>2 DEF Sound, Kin
<1>13. \A i \in DOMAIN chain, j \in DOMAIN d : ~Kin(chain[i], d[j]) BY <1>9, <1>10
<1>14. /\ chain' \in Seq(OpRecs) /\ Sound(chain', live', sessions, readers)
       /\ chain # <<>> => chain' # <<>> /\ chain'[1] = chain[1]
  BY <1>8, <1>10, <1>11, <1>12, <1>13, JoinSound
<1>15. JobInv'
  <2>1. JobInv BY DEF Inv
  <2>2. chain # <<>> => chain' # <<>> /\ Head1' = Head1 BY <1>14 DEF Head1
  <2>3. ~(plugin' = "on") BY <1>1
  <2>4. job.does \in {"append", "appended"} =>
          Covers(Head1, states.cursor + Len(job.batch), live', sessions, plugin' = "on")
    BY <2>1, <2>3 DEF JobInv, Covers
  <2> QED BY <1>1, <2>1, <2>2, <2>4 DEF JobInv
<1>16. spent' \in [reads : Nat, incidents : Nat] BY <1>1 DEF Inv, TypeInv
<1>17. TypeInv' BY <1>1, <1>6, <1>14, <1>16 DEF Inv, TypeInv
<1>18. ChainInv' BY <1>1, <1>14 DEF ChainInv
<1>19. PluginInv' BY <1>1 DEF PluginInv
<1>20. DiskInv' /\ CursorInv' BY <1>1 DEF Inv, DiskInv, CursorInv
<1> QED BY <1>7, <1>15, <1>17, <1>18, <1>19, <1>20 DEF Inv

\* What a crash leaves begins with what was there.
LEMMA RemainsFields ==
  ASSUME Inv, NEW d \in Remains
  PROVE  /\ d \in Disks /\ Begins(acked, d.log)
         /\ ~d.made => d.log = <<>> /\ d.tail = <<>>
         /\ d.tail # <<>> => d.torn
<1> DEFINE Good(e) == /\ e \in Disks /\ Begins(acked, e.log)
                      /\ ~e.made => e.log = <<>> /\ e.tail = <<>>
                      /\ e.tail # <<>> => e.torn
           batch == job.batch
           part(n) == SubSeq(batch, 1, n)
<1>1. /\ disk \in Disks /\ disk.made \in BOOLEAN /\ disk.torn \in BOOLEAN
      /\ disk.log \in Seq(Events) /\ disk.tail \in Seq(Events) /\ acked \in Seq(Events)
      /\ batch \in Seq(Events) /\ Len(batch) \in Nat
  BY DiskParts
<1>2. Good(disk) BY <1>1 DEF Inv, DiskInv
<1>3. ASSUME ~disk.made PROVE Good([disk EXCEPT !.made = TRUE, !.log = batch])
  <2> DEFINE e == [disk EXCEPT !.made = TRUE, !.log = batch]
  <2>1. e \in Disks /\ e.made = TRUE /\ e.log = batch /\ e.tail = disk.tail /\ e.torn = disk.torn
    BY <1>1 DEF Disks, Logs
  <2>2. disk.log = <<>> BY <1>2, <1>3
  <2>3. Len(acked) <= 0 BY <1>2, <2>2, EmptySeq DEF Begins
  <2>4. Len(acked) \in Nat BY <1>1, LenProperties
  <2>5. Begins(acked, batch) BY <1>1, <2>3, <2>4 DEF Begins
  <2> HIDE DEF e, batch
  <2>6. Good(e) BY <1>2, <2>1, <2>5
  <2> QED BY <2>6 DEF e
<1>4. ASSUME disk.made, NEW p \in Seq(Events)
      PROVE  /\ Good([disk EXCEPT !.log = disk.log \o p])
             /\ Good([disk EXCEPT !.log = disk.log \o p, !.torn = TRUE])
  <2> DEFINE log == disk.log \o p
             e == [disk EXCEPT !.log = log]
             f == [disk EXCEPT !.log = log, !.torn = TRUE]
  <2>1. log \in Seq(Events) BY <1>1, ConcatProperties
  <2>2. Begins(acked, log) BY <1>1, <1>2, BeginsConcat
  <2> HIDE DEF log
  <2>3. /\ e \in Disks /\ e.made = disk.made /\ e.log = log /\ e.tail = disk.tail
        /\ e.torn = disk.torn
        /\ f \in Disks /\ f.made = disk.made /\ f.log = log /\ f.tail = disk.tail
        /\ f.torn = TRUE
    BY <1>1, <2>1 DEF Disks, Logs
  <2> HIDE DEF e, f
  <2>4. Good(e) /\ Good(f) BY <1>2, <1>4, <2>2, <2>3
  <2> QED BY <2>4 DEF e, f, log
<1>5. ASSUME disk.made, NEW p \in Seq(Events)
      PROVE  Good([disk EXCEPT !.tail = p, !.torn = TRUE])
  <2> DEFINE e == [disk EXCEPT !.tail = p, !.torn = TRUE]
  <2>1. e \in Disks /\ e.made = disk.made /\ e.log = disk.log /\ e.tail = p /\ e.torn = TRUE
    BY <1>1 DEF Disks, Logs
  <2> HIDE DEF e
  <2>2. Good(e) BY <1>2, <1>5, <2>1
  <2> QED BY <2>2 DEF e
<1>6. \A n \in 0 .. Len(batch) : part(n) \in Seq(Events)
  BY <1>1, SubSeqType
<1>7. \/ d = disk
      \/ ~disk.made /\ d = [disk EXCEPT !.made = TRUE, !.log = batch]
      \/ disk.made /\ \E p \in Seq(Events) :
           \/ d = [disk EXCEPT !.log = disk.log \o p]
           \/ d = [disk EXCEPT !.log = disk.log \o p, !.torn = TRUE]
           \/ d = [disk EXCEPT !.tail = p, !.torn = TRUE]
  <2> DEFINE whole == {[disk EXCEPT !.log = @ \o part(n)] : n \in 0 .. Len(batch)}
             torn == {[disk EXCEPT !.log = @ \o part(n), !.torn = TRUE] : n \in 0 .. Len(batch)}
             frame == [disk EXCEPT !.log = @ \o batch]
             tails == {[disk EXCEPT !.tail = part(n), !.torn = TRUE] : n \in 0 .. Len(batch)}
             parted == {disk} \cup (IF "lines" \in Codecs THEN whole \cup torn ELSE {})
                       \cup (IF "zstd" \in Codecs THEN {frame} \cup tails ELSE {})
             fresh == [disk EXCEPT !.made = TRUE, !.log = batch]
             same == \/ job.does \notin {"append", "repair"} \/ job.cut \/ Clobbers
                     \/ job.batch = <<>>
  <2>0. Remains = IF same THEN {disk} ELSE IF ~disk.made THEN {disk, fresh} ELSE parted
    BY DEF Remains
  <2>1. d = disk \/ (~disk.made /\ d = fresh) \/ (disk.made /\ d \in parted)
    <3> HIDE DEF parted, fresh, same
    <3> QED BY <1>1, <2>0
  <2>2. d \in whole => \E p \in Seq(Events) : d = [disk EXCEPT !.log = disk.log \o p]
    BY <1>6
  <2>3. d \in torn => \E p \in Seq(Events) :
                        d = [disk EXCEPT !.log = disk.log \o p, !.torn = TRUE]
    BY <1>6
  <2>4. d = frame => \E p \in Seq(Events) : d = [disk EXCEPT !.log = disk.log \o p]
    BY <1>1
  <2>5. d \in tails => \E p \in Seq(Events) : d = [disk EXCEPT !.tail = p, !.torn = TRUE]
    BY <1>6
  <2> HIDE DEF whole, torn, frame, tails
  <2>6. d \in parted => d = disk \/ d \in whole \/ d \in torn \/ d = frame \/ d \in tails
    OBVIOUS
  <2> HIDE DEF parted
  <2> QED BY <2>1, <2>2, <2>3, <2>4, <2>5, <2>6
<1> HIDE DEF Good, batch
<1>8. Good(d) BY <1>2, <1>3, <1>4, <1>5, <1>7
<1> QED BY <1>8 DEF Good

LEMMA CrashInv ==
  ASSUME Inv, Crash
  PROVE  Inv'
<1>1. /\ disk' \in Remains /\ chain' = <<>> /\ job' = NoJob /\ plugin' = "on"
      /\ sessions' = [l \in Lives |->
           IF sessions[l].at = "unborn" THEN sessions[l] ELSE [sessions[l] EXCEPT !.at = "dead"]]
      /\ live' = [l \in Lives |-> NoLive]
      /\ states' = Untracked /\ retirement' = None /\ entry' = NoEntry
      /\ readers' = [r \in Readers |-> NoCall]
      /\ spent' = [spent EXCEPT !.incidents = @ + 1] /\ acked' = acked
  BY DEF Crash, Happens
<1>2. /\ disk' \in Disks /\ Begins(acked, disk'.log)
      /\ ~disk'.made => disk'.log = <<>> /\ disk'.tail = <<>>
      /\ disk'.tail # <<>> => disk'.torn
  BY <1>1, RemainsFields
<1>3. ASSUME NEW l \in Lives
      PROVE  /\ sessions'[l] \in SessionRecs
             /\ sessions'[l].born <= Len(sessions'[l].log)
             /\ sessions'[l].at = "unborn" => sessions'[l].log = <<>>
  <2> DEFINE s == sessions[l]
             t == [s EXCEPT !.at = "dead"]
  <2>1. /\ s \in SessionRecs /\ s.born <= Len(s.log) /\ (s.at = "unborn" => s.log = <<>>)
    BY SessionParts
  <2>2. sessions'[l] = IF s.at = "unborn" THEN s ELSE t BY <1>1
  <2> HIDE DEF s
  <2>3. t \in SessionRecs /\ t.log = s.log /\ t.born = s.born /\ t.at = "dead"
    BY <2>1 DEF SessionRecs
  <2> HIDE DEF t
  <2>4. sessions'[l] = t \/ sessions'[l] = s BY <2>2
  <2> QED BY <2>1, <2>3, <2>4
<1>4. sessions' \in [Lives -> SessionRecs]
  <2>1. sessions' = [l \in Lives |-> sessions'[l]] BY <1>1
  <2> QED BY <1>3, <2>1
<1>5. live' \in [Lives -> LiveRecs] BY <1>1, NoLiveFields
<1>6. LivesInv'
  <2>1. \A l \in Lives : live'[l] = NoLive BY <1>1
  <2> QED BY <1>3, <2>1, Forgotten DEF LivesInv
<1>7. JobInv' BY <1>1 DEF JobInv, NoJob
<1>8. ChainInv' BY <1>1, EmptySeq DEF ChainInv, Sound
<1>9. CursorInv'
  <2>1. disk'.log \in Seq(Events) BY <1>2 DEF Disks, Logs
  <2>2. Len(disk'.log) \in Nat BY <2>1, LenProperties
  <2> QED BY <1>1, <2>2, UntrackedFields DEF CursorInv
<1>10. PluginInv' BY <1>1 DEF PluginInv
<1>11. TypeInv'
  <2>1. chain' \in Seq(OpRecs) BY <1>1, EmptySeq
  <2>2. readers' \in [Readers -> CallRecs] BY <1>1, NoCallFields
  <2>3. NoJob \in Jobs
    <3>1. <<>> \in Logs BY EmptySeq DEF Logs
    <3> QED BY <3>1 DEF NoJob, Jobs
  <2>4. spent' \in [reads : Nat, incidents : Nat] BY <1>1 DEF Inv, TypeInv
  <2> QED BY <1>1, <1>2, <1>4, <1>5, <2>1, <2>2, <2>3, <2>4, EntryFields, UntrackedFields
       DEF Inv, TypeInv
<1>12. DiskInv' BY <1>1, <1>2 DEF DiskInv
<1> QED BY <1>6, <1>7, <1>8, <1>9, <1>10, <1>11, <1>12 DEF Inv

-----------------------------------------------------------------------------
(* The invariant holds in every reachable state.                           *)

LEMMA InitInv ==
  ASSUME Init
  PROVE  Inv
<1>1. /\ disk = NoDisk /\ acked = <<>>
      /\ sessions = [l \in Lives |-> [at |-> "unborn", log |-> <<>>, born |-> 0]]
      /\ live = [l \in Lives |-> NoLive]
      /\ states = Untracked /\ retirement = None
      /\ chain = <<>> /\ job = NoJob /\ entry = NoEntry
      /\ readers = [r \in Readers |-> NoCall]
      /\ plugin = "on" /\ spent = [reads |-> 0, incidents |-> 0]
  BY DEF Init
<1>2. <<>> \in Logs /\ Len(<<>>) = 0 BY EmptySeq DEF Logs
<1>3. /\ NoDisk \in Disks /\ NoDisk.log = <<>> /\ NoDisk.tail = <<>>
      /\ [at |-> "unborn", log |-> <<>>, born |-> 0] \in SessionRecs /\ NoJob \in Jobs
  BY <1>2 DEF NoDisk, Disks, SessionRecs, NoJob, Jobs
<1>4. TypeInv
  <2>1. live \in [Lives -> LiveRecs] BY <1>1, NoLiveFields
  <2>2. readers \in [Readers -> CallRecs] BY <1>1, NoCallFields
  <2>3. sessions \in [Lives -> SessionRecs] BY <1>1, <1>3
  <2>4. chain \in Seq(OpRecs) BY <1>1, EmptySeq
  <2>5. spent \in [reads : Nat, incidents : Nat] BY <1>1
  <2> QED BY <1>1, <1>2, <1>3, <2>1, <2>2, <2>3, <2>4, <2>5, EntryFields, UntrackedFields
       DEF TypeInv
<1>5. LivesInv
  <2>1. ASSUME NEW l \in Lives
        PROVE  /\ live[l] = NoLive /\ sessions[l] \in SessionRecs
               /\ sessions[l].born <= Len(sessions[l].log) /\ sessions[l].log = <<>>
    <3>1. live[l] = NoLive /\ sessions[l].born = 0 /\ sessions[l].log = <<>> BY <1>1
    <3> QED BY <1>2, <1>4, <3>1 DEF TypeInv
  <2> QED BY <2>1, Forgotten DEF LivesInv
<1>6. JobInv BY <1>1 DEF JobInv, NoJob
<1>7. ChainInv BY <1>1, EmptySeq DEF ChainInv, Sound
<1>8. CursorInv
  <2>1. Len(disk.log) \in Nat BY <1>1, <1>2, <1>3
  <2> QED BY <1>1, <2>1, UntrackedFields DEF CursorInv
<1>9. DiskInv BY <1>1, <1>2, <1>3 DEF DiskInv, Begins
<1>10. PluginInv BY <1>1 DEF PluginInv
<1> QED BY <1>4, <1>5, <1>6, <1>7, <1>8, <1>9, <1>10 DEF Inv

LEMMA InvStep ==
  ASSUME Inv, [Next]_vars
  PROVE  Inv'
<1>1. CASE UNCHANGED vars
  BY <1>1 DEF vars, Inv, TypeInv, DiskInv, ChainInv, LivesInv, JobInv, CursorInv, PluginInv, Head1
<1>2. CASE StorageStep
  <2>1. CASE OnCreated BY <2>1, OnCreatedInv
  <2>2. CASE StartLiveBatch BY <2>2, StartLiveBatchInv
  <2>3. CASE StartSuffix BY <2>3, StartSuffixInv
  <2>4. CASE Retire BY <2>4, RetireInv
  <2>5. CASE Read BY <2>5, ReadInv
  <2>6. CASE Check BY <2>6, CheckInv
  <2>7. CASE Commit BY <2>7, CommitInv
  <2>8. CASE CutTail BY <2>8, CutTailInv
  <2>9. CASE WriteBatch BY <2>9, WriteBatchInv
  <2>10. CASE JobFails BY <2>10, JobFailsInv
  <2>11. CASE Appended BY <2>11, AppendedInv
  <2>12. CASE CommitRepaired BY <2>12, CommitRepairedInv
  <2> QED BY <1>2, <2>1, <2>2, <2>3, <2>4, <2>5, <2>6, <2>7, <2>8, <2>9, <2>10, <2>11, <2>12
       DEF StorageStep
<1>3. ASSUME NEW l \in Lives, ControllerStep(l) \/ Window(l) PROVE Inv'
  <2>1. CASE FlushGo(l) BY <2>1, FlushInv
  <2>2. CASE FlushOver(l) BY <2>2, FlushOverInv
  <2>3. CASE FlushFails(l) BY <2>3, FlushFailsInv
  <2>4. CASE DrainStep(l) \/ Window(l) BY <2>4, ControllerInv
  <2>5. CASE WriteRefused(l) BY <2>5, WriteRefusedInv
  <2> QED BY <1>3, <2>1, <2>2, <2>3, <2>4, <2>5 DEF ControllerStep
<1>4. ASSUME NEW r \in Readers, ReaderStep(r) PROVE Inv'
  <2>1. CASE LookAtLive(r) BY <2>1, LookAtLiveInv
  <2>2. CASE Join(r) BY <2>2, JoinInv
  <2>3. CASE AskCheck(r) BY <2>3, AskCheckInv
  <2>4. CASE Reserve(r) BY <2>4, ReserveInv
  <2>5. ASSUME NEW setup \in BOOLEAN, Publish(r, setup) PROVE Inv' BY <2>5, PublishInv
  <2>6. CASE Release(r) BY <2>6, ReleaseInv
  <2> QED BY <1>4, <2>1, <2>2, <2>3, <2>4, <2>5, <2>6 DEF ReaderStep
<1>5. CASE Unloaded BY <1>5, UnloadedInv
<1>6. CASE Environment
  <2>1. CASE Create BY <2>1, CreateInv
  <2>2. ASSUME NEW l \in Lives, (\E k \in Kinds : Emit(l, k)) \/ Flush(l) \/ Dispose(l)
        PROVE  Inv'
    <3>1. ASSUME NEW k \in Kinds, Emit(l, k) PROVE Inv' BY <3>1, EmitInv
    <3>2. CASE Flush(l) BY <3>2, FlushInv
    <3>3. CASE Dispose(l) BY <3>3, DisposeInv
    <3> QED BY <2>2, <3>1, <3>2, <3>3
  <2>3. ASSUME NEW r \in Readers, NEW c \in Calls, StartCall(r, c) PROVE Inv'
    BY <2>3, StartCallInv
  <2>4. CASE Evict BY <2>4, EvictInv
  <2>5. CASE Unload BY <2>5, UnloadInv
  <2>6. CASE Mount BY <2>6, MountInv
  <2>7. CASE Crash BY <2>7, CrashInv
  <2> QED BY <1>6, <2>1, <2>2, <2>3, <2>4, <2>5, <2>6, <2>7 DEF Environment
<1> QED BY <1>1, <1>2, <1>3, <1>4, <1>5, <1>6 DEF Next

\* The chain, the queues of the lives, the job in progress, the cursor and the
\* file agree in every reachable state.
THEOREM Invariance == Spec => []Inv
<1>1. Init => Inv BY InitInv
<1>2. Inv /\ [Next]_vars => Inv' BY InvStep
<1> QED BY <1>1, <1>2, PTL DEF Spec

\* Every variable has its type and the cursor never passes the log (the
\* coordinator's states entry, the artifact and the queues).
THEOREM TypeCorrect == Spec => []TypeOK
<1>1. ASSUME Inv PROVE TypeOK
  <2>1. TypeInv BY <1>1 DEF Inv
  <2>2. /\ disk.log \in Logs /\ disk.tail \in Logs
        /\ disk.made \in BOOLEAN /\ disk.torn \in BOOLEAN
    BY <2>1 DEF TypeInv, Disks
  <2>3. ASSUME NEW l \in Lives
        PROVE  /\ sessions[l].at \in {"unborn", "open", "gone", "dead"}
               /\ sessions[l].log \in Logs
               /\ live[l].w \in Controllers(Nat)
               /\ live[l].init \in {"none", "pending", "ok", "broken", "refused"}
               /\ live[l].flush \in {"no", "asked", "draining", "failed"}
    <3>1. sessions[l] \in SessionRecs /\ live[l] \in LiveRecs BY <2>1 DEF TypeInv
    <3> QED BY <3>1, LiveParts DEF SessionRecs
  <2>4. states.owner \in Lives \cup {None} /\ states.cursor \in 0 .. Len(disk.log)
    <3>1. states.owner \in Lives \cup {None} BY <2>1 DEF TypeInv, StateRecs
    <3>2. states.cursor \in Nat /\ Len(disk.log) \in Nat /\ states.cursor <= Len(disk.log)
      BY <1>1, DiskParts DEF Inv, CursorInv
    <3> QED BY <3>1, <3>2
  <2>5. entry.phase \in {"none", "loading", "ready", "committing", "reserved"}
    BY <2>1 DEF TypeInv, Entries
  <2>6. \A r \in Readers : readers[r].at \in
          {"idle", "wait", "join", "check", "commit", "held", "live", "done"}
    BY <2>1, CallFields DEF TypeInv
  <2>7. retirement \in Lives \cup {None} /\ plugin \in {"on", "closing", "off"}
    BY <2>1 DEF TypeInv
  <2> QED BY <2>2, <2>3, <2>4, <2>5, <2>6, <2>7 DEF TypeOK
<1> QED BY <1>1, Invariance, PTL

\* What an append or a repair has reported durable is a prefix of the stored
\* log, through crashes, torn tails, failed and retried writes, repairs and
\* resumes.
THEOREM AckedAlwaysSurvives == Spec => []AckedSurvives
<1>1. ASSUME Inv PROVE AckedSurvives
  <2>1. acked \in Seq(Events) /\ disk.log \in Seq(Events) /\ disk.tail \in Seq(Events)
    BY <1>1, DiskParts
  <2>2. Begins(acked, disk.log) BY <1>1 DEF Inv, DiskInv
  <2>3. Begins(acked, disk.log \o disk.tail) BY <2>1, <2>2, BeginsConcat
  <2>4. disk.log \o disk.tail \in Seq(Events) BY <2>1, ConcatProperties
  <2> QED BY <2>1, <2>3, <2>4, PrefixBegins DEF AckedSurvives, Stored
<1> QED BY <1>1, Invariance, PTL

\* What the owner's controller holds are the last events of its session, in
\* order, and everything in front of them is in the log.
THEOREM QueueAlwaysContinues == Spec => []QueueContinuesLog
<1>1. ASSUME Inv PROVE QueueContinuesLog
  <2> SUFFICES ASSUME NEW l \in Lives, Owned(l), plugin = "on"
               PROVE  LET held == live[l].w.active \o live[l].w.pending
                          last == Len(sessions[l].log)
                      IN  /\ \A i \in DOMAIN held : held[i] = last - Len(held) + i
                          /\ live[l].init = "ok" => last - Len(held) <= Len(disk.log)
    BY DEF QueueContinuesLog
  <2> DEFINE h == Held(live[l].w)
             last == Len(sessions[l].log)
             stored == Len(disk.log)
  <2>1. /\ Queues(live[l], sessions[l], plugin = "on")
        /\ Stages(live[l], sessions[l], plugin = "on", stored)
    BY <1>1 DEF Inv, LivesInv
  <2>2. last \in Nat /\ stored \in Nat /\ h \in Seq(Nat) /\ Len(h) \in Nat
    BY <1>1, SessionParts, DiskParts, LiveParts
  <2>3. \A i \in 1 .. Len(h) : h[i] = last - Len(h) + i BY <2>1 DEF Queues
  <2>4. DOMAIN h = 1 .. Len(h) BY <2>2, LenProperties
  <2>5. live[l].init = "ok" => last <= stored + Len(h) BY <2>1 DEF Stages
  <2>6. h = live[l].w.active \o live[l].w.pending BY DEF Held
  <2> HIDE DEF h, last, stored
  <2>7. live[l].init = "ok" => last - Len(h) <= stored BY <2>2, <2>5
  <2> QED BY <2>3, <2>4, <2>6, <2>7 DEF last, stored
<1> QED BY <1>1, Invariance, PTL
=============================================================================
