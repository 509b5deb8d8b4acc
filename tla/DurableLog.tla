----------------------------- MODULE DurableLog -----------------------------
(***************************************************************************)
(* What session persistence promises of one session id, whatever fails:    *)
(* the durable log only grows; while a session owns the id it grows by the *)
(* events of that session, in their order, and while none does by crash    *)
(* repair, which leaves a balanced log; what is reported durable is the    *)
(* log as it stands; and who claims the id continues the log.              *)
(***************************************************************************)
EXTENDS Naturals, Sequences, SequencesExt

CONSTANT Balanced(_)   \* no turn of the log is open

VARIABLES
  log,     \* the durable events
  acked,   \* the log when it was last reported durable
  owned,   \* a session owns the id
  bound,   \* ... and the log is known to be its log
  own      \* the events of that session; <<>> without one

vars == <<log, acked, owned, bound, own>>

Init == log = <<>> /\ acked = <<>> /\ ~owned /\ ~bound /\ own = <<>>

\* The owner has one more event.
Emit ==
  /\ owned /\ IsPrefix(own, own') /\ Len(own') = Len(own) + 1
  /\ UNCHANGED <<log, acked, owned, bound>>

\* The next events of the owner become durable.
Store ==
  /\ owned /\ IsPrefix(log, log') /\ IsPrefix(log', own)
  /\ UNCHANGED <<acked, owned, bound, own>>

\* Crash repair closes the log of a session that nobody owns.
Repair ==
  /\ ~owned /\ IsPrefix(log, log') /\ Balanced(log')
  /\ UNCHANGED <<acked, owned, bound, own>>

\* A write or a repair is reported durable.
Report ==
  /\ owned \/ Balanced(log)
  /\ acked' = log /\ bound' = owned
  /\ UNCHANGED <<log, owned, own>>

\* A session claims the id: nobody has it, or one of whom nothing is known to
\* be stored.
Claim ==
  /\ ~owned \/ ~bound
  /\ owned' /\ IsPrefix(log, own') /\ bound' = (log # <<>>)
  /\ UNCHANGED <<log, acked>>

\* The id is nobody's.
Lost == ~owned' /\ ~bound' /\ own' = <<>> /\ UNCHANGED acked

Forget == Lost /\ UNCHANGED log

\* The process dies; of a write or a repair in progress a part may be durable.
Crash ==
  /\ Lost /\ IsPrefix(log, log')
  /\ owned => IsPrefix(log', own)

Next == Emit \/ Store \/ Repair \/ Report \/ Claim \/ Forget \/ Crash

Spec == Init /\ [][Next]_vars
=============================================================================
