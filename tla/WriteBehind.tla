----------------------------- MODULE WriteBehind -----------------------------
(***************************************************************************)
(* The batching controller of one live session's events: the class         *)
(* SessionWriteBehind of src/deepseek-harness/packages/session/            *)
(* session-persistence/src/write-behind.ts, as functions on its fields.    *)
(* SessionLog keeps one controller per live session and applies them.      *)
(***************************************************************************)
EXTENDS Naturals, Sequences

(***************************************************************************)
(* pending, active: the queued events and the batch being written;         *)
(* writing: who started that write, if any; timer, expired, paused: the    *)
(* batching deadline, deadlineExpired and automaticPaused; barrier: the    *)
(* promise joined by flush, "rejecting" between the failure of its write   *)
(* and the continuation that clears it.                                    *)
(***************************************************************************)
Fresh == [pending |-> <<>>, active |-> <<>>, writing |-> "no", timer |-> FALSE,
          expired |-> FALSE, paused |-> FALSE, barrier |-> "none"]

Controllers(E) ==
  [pending : Seq(E), active : Seq(E), writing : {"no", "background", "drain"},
   timer : BOOLEAN, expired : BOOLEAN, paused : BOOLEAN,
   barrier : {"none", "on", "rejecting"}]

HasWork(w) == w.pending # <<>> \/ w.writing # "no"

(* A barrier drains what comes; a paused queue and an empty one get a window. *)
Enqueue(w, e) ==
  LET q == [w EXCEPT !.pending = Append(@, e)]
  IN  CASE w.barrier # "none" -> q
        [] w.barrier = "none" /\ w.paused ->
             [q EXCEPT !.paused = FALSE, !.expired = FALSE, !.timer = TRUE]
        [] w.barrier = "none" /\ ~w.paused /\ w.pending = <<>> ->
             [q EXCEPT !.timer = TRUE]
        [] OTHER -> q

CancelWait(w) == [w EXCEPT !.timer = FALSE, !.expired = FALSE]

StartWrite(w, by) ==
  [w EXCEPT !.active = w.pending, !.pending = <<>>, !.writing = by,
            !.timer = FALSE, !.expired = FALSE]

(***************************************************************************)
(* flush: join the barrier, or raise one; drainBarrier starts its write in *)
(* the same job unless it has to await an overlapping one first.           *)
(***************************************************************************)
Drain(w) ==
  LET raised == [w EXCEPT !.timer = FALSE, !.expired = FALSE, !.paused = FALSE,
                          !.barrier = "on"]
  IN  IF w.barrier # "none" THEN w
      ELSE IF HasWork(w) /\ w.writing = "no" THEN StartWrite(raised, "drain")
      ELSE raised

(* The window is over; an active write remembers it. *)
Deadline(w) ==
  IF w.writing # "no" THEN [w EXCEPT !.timer = FALSE, !.expired = TRUE]
  ELSE StartWrite(w, "background")

(* drainBarrier's loop and its end in the job that sees the empty queue. *)
DrainMore(w) == w.barrier = "on" /\ w.writing = "no" /\ w.pending # <<>>
\* Mutant of Drained: a batch on its way counts as written.
DrainedQueue(w) == w.barrier = "on" /\ w.pending = <<>>

Drained(w) == w.barrier = "on" /\ ~HasWork(w)

BarrierGone(w) == [w EXCEPT !.barrier = "none"]

(***************************************************************************)
(* The write is durable; a deadline that passed meanwhile starts the next  *)
(* one, unless a barrier drains the queue.                                 *)
(***************************************************************************)
Landed(w) ==
  LET idle == [w EXCEPT !.active = <<>>, !.writing = "no"]
  IN  IF w.barrier = "none" /\ w.pending # <<>> /\ w.expired
      THEN StartWrite(idle, "background")
      ELSE idle

\* Mutants of Failed: the batch is queued behind what came since; it is lost.
FailedBehind(w) ==
  [w EXCEPT !.pending = w.pending \o w.active, !.active = <<>>, !.writing = "no",
            !.timer = FALSE, !.expired = FALSE,
            !.paused = ~(w.writing = "background" /\ w.barrier = "on"),
            !.barrier = IF w.writing = "drain" THEN "rejecting" ELSE @]
FailedLost(w) ==
  [w EXCEPT !.active = <<>>, !.writing = "no", !.timer = FALSE, !.expired = FALSE,
            !.paused = ~(w.writing = "background" /\ w.barrier = "on"),
            !.barrier = IF w.writing = "drain" THEN "rejecting" ELSE @]

(***************************************************************************)
(* The write failed: its events go back in front of those that came since. *)
(* A barrier that overlapped a background write retries; its own write     *)
(* rejects it.                                                             *)
(***************************************************************************)
Failed(w) ==
  [w EXCEPT !.pending = w.active \o w.pending, !.active = <<>>, !.writing = "no",
            !.timer = FALSE, !.expired = FALSE,
            !.paused = ~(w.writing = "background" /\ w.barrier = "on"),
            !.barrier = IF w.writing = "drain" THEN "rejecting" ELSE @]
=============================================================================
