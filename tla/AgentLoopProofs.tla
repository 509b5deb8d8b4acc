--------------------------- MODULE AgentLoopProofs ---------------------------
(***************************************************************************)
(* Theorems about AgentLoop, for every set of messages and every bound on  *)
(* steps, retries, tool calls and the pool.                                *)
(*                                                                         *)
(* The safety properties follow from one invariant, LoopInv for the driver *)
(* and P!Inv of ToolCallsProofs for the calls of the running step.         *)
(* LateWakesOpenATurn speaks only of a settled agent; between, the wake    *)
(* that a late message is owed moves from the send that waits for its      *)
(* listeners to the latch of the phase, to the replay of the latch and to  *)
(* the driver that it starts (Owed); a clear that waits for listeners has  *)
(* yet to discard the message before it drops the latch (ClearInv).        *)
(* WorkAccountedFor speaks only of the time between turns; inside one, the *)
(* work of the turn is covered by its entered step, and what it claimed is *)
(* still in the batch (AccountInv).                                        *)
(***************************************************************************)
EXTENDS AgentLoop, SequenceTheorems, TLAPS

P == INSTANCE ToolCallsProofs WITH aborted <- phase.abort # "live"

InTurn == {"claim", "proposing", "request", "tools", "stepped", "stopping", "failing"}

\* The open turn of the log is the driver's, and an idle agent holds nothing back.
TurnInv ==
  /\ pc \in InTurn <=> openTurn # 0
  /\ openTurn # 0 => openTurn = phase.turn
  /\ IsIdle => ~phase.wake /\ phase.abort = "live"

\* A pending message is in the inbox.
QueueInv ==
  \A m \in Messages :
    Pending(m) => m \in Inputs(inbox.nextTurn) \cup Inputs(inbox.nextStep)

SentInv == \A m \in Messages : sent[m].turn <= phase.turn

\* Waking input that came behind a cancelled activity or maintenance.
Late(m) == Pending(m) /\ sent[m].woke /\ sent[m].to \in {"aborted", "maintenance"}

\* Disposal clears the inbox, and what comes after it is owed nothing.
DisposedInv == phase.abort = "disposed" => \A m \in Messages : ~Late(m)

\* Some call of a stack waits to go on with op, or with the wake of a late message.
On(stack, op) == \E i \in DOMAIN stack : stack[i].op = op
OnLate(stack) == \E i \in DOMAIN stack : stack[i].op = "wake" /\ stack[i].late

\* What a clear has still before it is not owed to a late message, or is yet to drop it.
ClearInv ==
  \A m \in Messages :
    Late(m) => /\ ~On(calls, "latch")
               /\ On(calls, "turns") => m \in Inputs(inbox.nextTurn)

\* The wake of a send that waits for its listeners will find what latches it.
Framed ==
  \/ phase.kind = "maintenance" /\ On(calls, "wake")
  \/ phase.kind = "running" /\ OnLate(calls)

\* Where the wake of a late message is, until its turn begins or is cancelled.
Owed(m) ==
  \/ phase.turn > sent[m].turn
  \/ phase.wake
  \/ Framed
  \/ pc = "opening"
  \/ exit = "unopened" /\ pc \in {"none", "leaving"}
  \/ replay /\ phase.kind # "running"

OwedInv == \A m \in Messages : Late(m) => Owed(m)

\* What covers the work of a message, in a turn and between turns.
Covered(m) ==
  /\ fateTurn[m] <= ThisTurn
  /\ fate[m] \in {"logged", "withdrawn"} =>
       account.end >= fateTurn[m] \/ (openTurn # 0 /\ account.stepped)
  /\ fate[m] = "discarded" => account.dropped \/ account.end >= fateTurn[m]
  /\ fate[m] = "claimed" =>
       m \in Inputs(batch) /\ account.claimed /\ pc \in {"proposing", "failing"}

AccountInv == \A m \in Messages : Covered(m)

LoopInv ==
  /\ LoopTypeOK /\ TurnInv /\ QueueInv /\ SentInv /\ AccountInv
  /\ DisposedInv /\ ClearInv /\ OwedInv

\* The scheduler of tool calls is at work exactly while the driver waits for it,
\* and listeners of a call never run in between two starts of the pool.
ToolsInv ==
  /\ pc = "tools" <=> at # "off"
  /\ calls # <<>> => at # "fill"

Inv == LoopInv /\ ToolsInv /\ P!Inv

-----------------------------------------------------------------------------
(* Lemmas about the inbox: a list as the set of its inputs.                 *)

LEMMA InputsEmpty == Inputs(<<>>) = {}
BY DEF Inputs

\* Appending adds at most the message appended.
LEMMA InputsAppend ==
  ASSUME NEW S, NEW list \in Seq(S), NEW x \in S
  PROVE  /\ Append(list, x) \in Seq(S)
         /\ Inputs(Append(list, x)) = Inputs(list) \cup ({x} \cap Messages)
<1>1. Append(list, x) \in Seq(S)
  OBVIOUS
<1>2. /\ DOMAIN Append(list, x) = 1 .. (Len(list) + 1)
      /\ \A i \in 1 .. Len(list) : Append(list, x)[i] = list[i]
      /\ Append(list, x)[Len(list) + 1] = x
      /\ DOMAIN list = 1 .. Len(list) /\ Len(list) \in Nat
  OBVIOUS
<1>3. {Append(list, x)[i] : i \in DOMAIN Append(list, x)}
        = {list[i] : i \in DOMAIN list} \cup {x}
  <2> DEFINE new == Append(list, x)
  <2>1. ASSUME NEW y, y \in {new[i] : i \in 1 .. (Len(list) + 1)}
        PROVE  y \in {list[i] : i \in 1 .. Len(list)} \cup {x}
    <3>1. PICK i \in 1 .. (Len(list) + 1) : y = new[i]
      BY <2>1
    <3>2. i \in 1 .. Len(list) \/ i = Len(list) + 1
      BY <1>2
    <3> QED
      BY <1>2, <3>1, <3>2
  <2>2. ASSUME NEW y, y \in {list[i] : i \in 1 .. Len(list)} \cup {x}
        PROVE  y \in {new[i] : i \in 1 .. (Len(list) + 1)}
    <3>1. CASE y = x
      <4>1. Len(list) + 1 \in 1 .. (Len(list) + 1)
        BY <1>2
      <4> QED
        BY <1>2, <3>1, <4>1
    <3>2. CASE y \in {list[i] : i \in 1 .. Len(list)}
      <4>1. PICK i \in 1 .. Len(list) : y = list[i]
        BY <3>2
      <4>2. i \in 1 .. (Len(list) + 1)
        BY <1>2
      <4> QED
        BY <1>2, <4>1, <4>2
    <3> QED
      BY <2>2, <3>1, <3>2
  <2> QED
    BY <1>2, <2>1, <2>2, Zenon
<1> QED
  BY <1>1, <1>3 DEF Inputs

\* A list cut in two loses nothing.
LEMMA InputsCut ==
  ASSUME NEW S, NEW list \in Seq(S), NEW k \in 0 .. Len(list)
  PROVE  /\ SubSeq(list, 1, k) \in Seq(S)
         /\ SubSeq(list, k + 1, Len(list)) \in Seq(S)
         /\ Inputs(list) \subseteq Inputs(SubSeq(list, 1, k))
                                     \cup Inputs(SubSeq(list, k + 1, Len(list)))
<1> DEFINE front == SubSeq(list, 1, k)
           back == SubSeq(list, k + 1, Len(list))
<1>1. front \in Seq(S) /\ back \in Seq(S)
  OBVIOUS
<1>2. /\ DOMAIN front = 1 .. k /\ \A i \in 1 .. k : front[i] = list[i]
      /\ DOMAIN back = 1 .. (Len(list) - k)
      /\ \A i \in 1 .. (Len(list) - k) : back[i] = list[k + i]
      /\ DOMAIN list = 1 .. Len(list) /\ Len(list) \in Nat /\ k \in Nat
  OBVIOUS
<1>3. ASSUME NEW m \in Inputs(list)
      PROVE  m \in Inputs(front) \cup Inputs(back)
  <2>1. PICK i \in 1 .. Len(list) : m = list[i] /\ m \in Messages
    BY <1>2 DEF Inputs
  <2>2. CASE i <= k
    <3>1. i \in DOMAIN front /\ m = front[i]
      BY <1>2, <2>1, <2>2
    <3> QED
      BY <2>1, <3>1 DEF Inputs
  <2>3. CASE i > k
    <3>1. i - k \in DOMAIN back /\ m = back[i - k]
      BY <1>2, <2>1, <2>3
    <3> QED
      BY <2>1, <3>1 DEF Inputs
  <2> QED
    BY <1>2, <2>2, <2>3
<1> QED
  BY <1>1, <1>3

\* A joined list holds the inputs of both.
LEMMA InputsJoin ==
  ASSUME NEW S, NEW a \in Seq(S), NEW b \in Seq(S)
  PROVE  /\ a \o b \in Seq(S)
         /\ Inputs(a) \cup Inputs(b) \subseteq Inputs(a \o b)
<1>1. a \o b \in Seq(S)
  OBVIOUS
<1>2. /\ DOMAIN (a \o b) = 1 .. (Len(a) + Len(b))
      /\ \A i \in 1 .. Len(a) : (a \o b)[i] = a[i]
      /\ \A i \in 1 .. Len(b) : (a \o b)[Len(a) + i] = b[i]
      /\ DOMAIN a = 1 .. Len(a) /\ DOMAIN b = 1 .. Len(b)
      /\ Len(a) \in Nat /\ Len(b) \in Nat
  OBVIOUS
<1>3. ASSUME NEW m \in Inputs(a)
      PROVE  m \in Inputs(a \o b)
  <2>1. PICK i \in 1 .. Len(a) : m = a[i] /\ m \in Messages
    BY <1>2 DEF Inputs
  <2>2. i \in DOMAIN (a \o b) /\ m = (a \o b)[i]
    BY <1>2, <2>1
  <2> QED
    BY <2>1, <2>2 DEF Inputs
<1>4. ASSUME NEW m \in Inputs(b)
      PROVE  m \in Inputs(a \o b)
  <2>1. PICK i \in 1 .. Len(b) : m = b[i] /\ m \in Messages
    BY <1>2 DEF Inputs
  <2>2. Len(a) + i \in DOMAIN (a \o b) /\ m = (a \o b)[Len(a) + i]
    BY <1>2, <2>1
  <2> QED
    BY <2>1, <2>2 DEF Inputs
<1> QED
  BY <1>1, <1>3, <1>4

\* remove() takes out no message but its own.
LEMMA InputsWithout ==
  ASSUME NEW S, NEW list \in Seq(S), NEW m
  PROVE  /\ Without(list, m) \in Seq(S)
         /\ \A o \in Inputs(list) : o # m => o \in Inputs(Without(list, m))
<1>1. CASE m \notin Inputs(list)
  BY <1>1 DEF Without
<1>2. CASE m \in Inputs(list)
  <2> DEFINE i == Located(list, m)
             front == SubSeq(list, 1, i - 1)
             back == SubSeq(list, i + 1, Len(list))
  <2>1. i \in DOMAIN list /\ list[i] = m
    BY <1>2 DEF Inputs, Located
  <2>2. i \in 1 .. Len(list) /\ Len(list) \in Nat
    BY <2>1
  <2> HIDE DEF i
  <2>3. front \in Seq(S) /\ back \in Seq(S)
    BY <2>2
  <2>4. /\ DOMAIN front = 1 .. (i - 1) /\ \A j \in 1 .. (i - 1) : front[j] = list[j]
        /\ DOMAIN back = 1 .. (Len(list) - i)
        /\ \A j \in 1 .. (Len(list) - i) : back[j] = list[i + j]
    BY <2>2
  <2>5. ASSUME NEW o \in Inputs(list), o # m
        PROVE  o \in Inputs(front) \cup Inputs(back)
    <3>1. PICK j \in 1 .. Len(list) : o = list[j] /\ o \in Messages
      BY <2>2 DEF Inputs
    <3>2. j # i
      BY <2>1, <2>5, <3>1
    <3>3. CASE j < i
      <4>1. j \in DOMAIN front /\ o = front[j]
        BY <2>2, <2>4, <3>1, <3>3
      <4> QED
        BY <3>1, <4>1 DEF Inputs
    <3>4. CASE j > i
      <4>1. j - i \in DOMAIN back /\ o = back[j - i]
        BY <2>2, <2>4, <3>1, <3>4
      <4> QED
        BY <3>1, <4>1 DEF Inputs
    <3> QED
      BY <2>2, <3>2, <3>3, <3>4
  <2>6. Without(list, m) = front \o back
    BY <1>2 DEF Without, i
  <2> HIDE DEF front, back
  <2>7. front \o back \in Seq(S) /\ Inputs(front) \cup Inputs(back) \subseteq Inputs(front \o back)
    BY <2>3, InputsJoin
  <2> QED
    BY <2>5, <2>6, <2>7
<1> QED
  BY <1>1, <1>2

-----------------------------------------------------------------------------
(* Lemmas about the stack of calls that wait for listeners.                 *)

LEMMA CallFrames ==
  ASSUME NEW op \in {"wake", "turns", "latch"}, NEW cause \in Causes, NEW late \in BOOLEAN
  PROVE  Frame(op, cause, late) \in Frames /\ Frame(op, cause, late).op = op
         /\ Frame(op, cause, late).late = late
BY DEF Frame, Frames, Starting

\* A call pushed is the only one added.
LEMMA Pushed ==
  ASSUME NEW stack \in Seq(Frames), NEW f \in Frames
  PROVE  /\ Append(stack, f) \in Seq(Frames)
         /\ \A op : On(Append(stack, f), op) <=> On(stack, op) \/ f.op = op
         /\ OnLate(Append(stack, f)) <=> OnLate(stack) \/ (f.op = "wake" /\ f.late)
<1> DEFINE new == Append(stack, f)
<1>1. new \in Seq(Frames)
  OBVIOUS
<1>2. /\ DOMAIN new = 1 .. (Len(stack) + 1) /\ DOMAIN stack = 1 .. Len(stack)
      /\ Len(stack) \in Nat
      /\ \A i \in 1 .. Len(stack) : new[i] = stack[i]
      /\ new[Len(stack) + 1] = f
  OBVIOUS
<1> HIDE DEF new
<1>3. /\ \A i \in DOMAIN stack : i \in DOMAIN new /\ new[i] = stack[i]
      /\ Len(stack) + 1 \in DOMAIN new
      /\ \A i \in DOMAIN new : i \in DOMAIN stack \/ i = Len(stack) + 1
  BY <1>2
<1>4. \A op : On(new, op) <=> On(stack, op) \/ f.op = op
  BY <1>2, <1>3, Zenon DEF On
<1>5. OnLate(new) <=> OnLate(stack) \/ (f.op = "wake" /\ f.late)
  BY <1>2, <1>3, Zenon DEF OnLate
<1> QED
  BY <1>1, <1>4, <1>5 DEF new

\* The innermost call popped is the only one removed.
LEMMA Popped ==
  ASSUME calls \in Seq(Frames), calls # <<>>
  PROVE  /\ Rest \in Seq(Frames) /\ Top \in Frames
         /\ \A op : On(calls, op) <=> On(Rest, op) \/ Top.op = op
         /\ OnLate(calls) <=> OnLate(Rest) \/ (Top.op = "wake" /\ Top.late)
<1>1. /\ Rest \in Seq(Frames) /\ Top \in Frames
      /\ DOMAIN calls = 1 .. Len(calls) /\ Len(calls) \in Nat \ {0}
      /\ DOMAIN Rest = 1 .. (Len(calls) - 1)
      /\ \A i \in 1 .. (Len(calls) - 1) : Rest[i] = calls[i]
      /\ Top = calls[Len(calls)]
  BY DEF Rest, Top
<1>2. /\ \A i \in DOMAIN Rest : i \in DOMAIN calls /\ Rest[i] = calls[i]
      /\ Len(calls) \in DOMAIN calls
      /\ \A i \in DOMAIN calls : i \in DOMAIN Rest \/ i = Len(calls)
  BY <1>1
<1>3. \A op : On(calls, op) <=> On(Rest, op) \/ Top.op = op
  BY <1>1, <1>2, Zenon DEF On
<1>4. OnLate(calls) <=> OnLate(Rest) \/ (Top.op = "wake" /\ Top.late)
  BY <1>1, <1>2, Zenon DEF OnLate
<1> QED
  BY <1>1, <1>3, <1>4

LEMMA NoCallsOn ==
  ASSUME calls = <<>>
  PROVE  ~OnLate(calls) /\ \A op : ~On(calls, op)
BY DEF On, OnLate

\* An event of a clear is one of a call that is not a wake.
LEMMA ClearsOn == On(calls, "turns") \/ On(calls, "latch") => Clearing
BY DEF On, Clearing

-----------------------------------------------------------------------------
(* What the actions share.                                                  *)

\* A pending message keeps the inbox from being empty.
LEMMA PendingIsQueued ==
  ASSUME LoopInv, NEW m \in Messages, Pending(m)
  PROVE  HasPending
<1>1. m \in Inputs(inbox.nextTurn) \cup Inputs(inbox.nextStep)
  BY DEF LoopInv, QueueInv
<1> QED
  BY <1>1, InputsEmpty DEF HasPending

Phases ==
  [kind : {"idle", "maintenance", "running"}, turn : Nat, step : Nat, wake : BOOLEAN,
   abort : Causes]

\* The phases that the driver's steps enter.
LEMMA PhaseShapes ==
  ASSUME LoopInv
  PROVE  /\ phase \in Phases
         /\ Busy("running", phase.turn) \in Phases
         /\ Busy("maintenance", phase.turn) \in Phases
         /\ Idle(phase.turn) \in Phases
         /\ Latched \in Phases
BY DEF LoopInv, LoopTypeOK, Phases, Busy, Idle, Latched, Causes

\* Nothing changes but the calls of a step.
LEMMA OnlyToolsKeeps ==
  ASSUME LoopInv, OnlyTools
  PROVE  LoopInv'
<1> USE DEF LoopInv, OnlyTools, inputVars, turnVars, closing
<1>1. LoopTypeOK' /\ TurnInv'
  BY DEF LoopTypeOK, TurnInv, IsIdle
<1>2. QueueInv' /\ SentInv' /\ DisposedInv' /\ ClearInv'
  BY DEF QueueInv, SentInv, DisposedInv, ClearInv, Late, Pending
<1>3. OwedInv' /\ AccountInv'
  BY DEF OwedInv, Owed, Framed, Late, Pending, AccountInv, Covered, ThisTurn
<1> QED
  BY <1>1, <1>2, <1>3

\* The messages of a set change their fate, and are no longer pending.
LEMMA BecomeFacts ==
  ASSUME LoopInv, NEW ms, NEW f \in Fates, f # "pending", Become(ms, f)
  PROVE  /\ fate' \in [Messages -> Fates] /\ fateTurn' \in [Messages -> Nat]
         /\ sent' \in [Messages -> [to : Activities, woke : BOOLEAN, turn : Nat]]
         /\ \A m \in Messages :
              IF m \in ms
              THEN fate'[m] = f /\ fateTurn'[m] = ThisTurn /\ sent'[m].turn = 0
              ELSE fate'[m] = fate[m] /\ fateTurn'[m] = fateTurn[m] /\ sent'[m] = sent[m]
<1>1. ThisTurn \in Nat
  BY DEF LoopInv, LoopTypeOK, ThisTurn
<1>2. NotPending \in [to : Activities, woke : BOOLEAN, turn : Nat] /\ NotPending.turn = 0
  BY DEF NotPending, Activities
<1>3. fate' \in [Messages -> Fates]
  BY DEF LoopInv, LoopTypeOK, Become
<1>4. fateTurn' \in [Messages -> Nat]
  BY <1>1 DEF LoopInv, LoopTypeOK, Become
<1>5. sent' \in [Messages -> [to : Activities, woke : BOOLEAN, turn : Nat]]
  BY <1>2 DEF LoopInv, LoopTypeOK, Become
<1>6. ASSUME NEW m \in Messages, m \in ms
      PROVE  fate'[m] = f /\ fateTurn'[m] = ThisTurn /\ sent'[m].turn = 0
  BY <1>2, <1>6 DEF Become
<1>7. ASSUME NEW m \in Messages, m \notin ms
      PROVE  fate'[m] = fate[m] /\ fateTurn'[m] = fateTurn[m] /\ sent'[m] = sent[m]
  BY <1>7 DEF Become
<1> QED
  BY <1>3, <1>4, <1>5, <1>6, <1>7

(***************************************************************************)
(* Messages are discarded: what stays pending stays queued, and what a     *)
(* late one among it is owed stays where it is.                            *)
(***************************************************************************)
LEMMA DiscardKeeps ==
  ASSUME LoopInv, NEW ms, Become(ms, "discarded"), Discarded,
         UNCHANGED <<pc, replay, turnVars, exit>>,
         teardown' \in {"no", "waiting", "done"}, calls' \in Seq(Frames),
         inbox' \in [nextTurn : Seq(Messages), nextStep : Seq(Messages \cup {Context})],
         \A m \in Messages : Pending(m) /\ m \notin ms =>
           m \in Inputs(inbox'.nextTurn) \cup Inputs(inbox'.nextStep),
         \A m \in Messages : Late(m) /\ m \notin ms =>
           /\ ~On(calls', "latch")
           /\ On(calls', "turns") => m \in Inputs(inbox'.nextTurn),
         Framed => Framed'
  PROVE  LoopInv'
<1> USE DEF LoopInv
<1>1. /\ account' = [stepped |-> account.stepped, claimed |-> account.claimed,
                     end |-> account.end, dropped |-> TRUE]
      /\ phase' = phase
  BY DEF Discarded
<1>2. "discarded" \in Fates /\ "discarded" # "pending"
  BY DEF Fates
<1>3. /\ fate' \in [Messages -> Fates] /\ fateTurn' \in [Messages -> Nat]
      /\ sent' \in [Messages -> [to : Activities, woke : BOOLEAN, turn : Nat]]
      /\ \A m \in Messages :
           IF m \in ms
           THEN fate'[m] = "discarded" /\ fateTurn'[m] = ThisTurn /\ sent'[m].turn = 0
           ELSE fate'[m] = fate[m] /\ fateTurn'[m] = fateTurn[m] /\ sent'[m] = sent[m]
  BY <1>2, BecomeFacts
<1>4. LoopTypeOK'
  BY <1>1, <1>3 DEF LoopTypeOK, turnVars
<1>5. TurnInv'
  BY <1>1 DEF TurnInv, IsIdle, turnVars
<1>6. QueueInv'
  BY <1>3 DEF QueueInv, Pending
<1>7. SentInv'
  <2>1. \A m \in Messages : sent'[m].turn = 0 \/ sent'[m] = sent[m]
    BY <1>3
  <2>2. phase.turn \in Nat /\ phase' = phase
    BY <1>1 DEF LoopTypeOK
  <2> QED
    BY <2>1, <2>2 DEF SentInv
<1>8. \A m \in Messages : Late(m)' => Late(m) /\ m \notin ms /\ sent'[m] = sent[m]
  BY <1>3 DEF Late, Pending
<1>9. DisposedInv'
  BY <1>1, <1>8 DEF DisposedInv
<1>10. ClearInv'
  BY <1>8 DEF ClearInv
<1>11. OwedInv'
  BY <1>1, <1>8 DEF OwedInv, Owed
<1>12. AccountInv'
  <2> SUFFICES ASSUME NEW m \in Messages PROVE Covered(m)'
    BY DEF AccountInv
  <2>1. Covered(m) /\ ThisTurn' = ThisTurn /\ ThisTurn \in Nat
    BY <1>1 DEF AccountInv, ThisTurn, turnVars, LoopTypeOK
  <2> QED
    BY <1>1, <1>3, <2>1 DEF Covered, turnVars, LoopTypeOK
<1> QED
  BY <1>4, <1>5, <1>6, <1>7, <1>9, <1>10, <1>11, <1>12

\* Cancelling touches only the latch and the signal of an activity.
LEMMA AbortFacts ==
  ASSUME LoopInv, NEW cause \in Causes, NEW keep \in BOOLEAN,
         phase' = Abort(cause, keep)
  PROVE  /\ phase' \in Phases
         /\ phase'.kind = phase.kind /\ phase'.turn = phase.turn
         /\ phase'.wake => phase.wake
         /\ keep /\ phase.wake => phase'.wake
         /\ IsIdle => phase' = phase
         /\ phase'.abort = phase.abort \/ phase'.abort = cause
BY DEF LoopInv, LoopTypeOK, Abort, Phases, Causes, IsIdle, Aborted

\* The latch is dropped when no late message is left to be woken for.
LEMMA DropLatchKeeps ==
  ASSUME LoopInv, NEW cause \in Causes, NEW outer \in Seq(Frames), DropLatch(cause, outer),
         UNCHANGED <<pc, replay, turnVars, exit>>, teardown' \in {"no", "waiting", "done"},
         \A m \in Messages : ~Late(m)
  PROVE  LoopInv'
<1> USE DEF LoopInv
<1>1. phase' = Abort(cause, FALSE) /\ calls' = outer /\ UNCHANGED <<inbox, inputVars, account>>
  BY DEF DropLatch
<1>2. /\ phase' \in Phases
      /\ phase'.kind = phase.kind /\ phase'.turn = phase.turn
      /\ phase'.wake => phase.wake
      /\ IsIdle => phase' = phase
  BY <1>1, AbortFacts
<1>3. LoopTypeOK'
  BY <1>1, <1>2 DEF LoopTypeOK, Phases, turnVars, inputVars
<1>4. TurnInv'
  BY <1>1, <1>2 DEF TurnInv, IsIdle, turnVars, LoopTypeOK
<1>5. QueueInv' /\ SentInv'
  BY <1>1, <1>2 DEF QueueInv, SentInv, Pending, inputVars
<1>6. \A m \in Messages : ~Late(m)'
  BY <1>1 DEF Late, Pending, inputVars
<1>7. DisposedInv' /\ ClearInv' /\ OwedInv'
  BY <1>6 DEF DisposedInv, ClearInv, OwedInv
<1>8. AccountInv'
  BY <1>1, <1>2 DEF AccountInv, Covered, ThisTurn, inputVars, turnVars
<1> QED
  BY <1>3, <1>4, <1>5, <1>7, <1>8

\* Only calls that wake nobody are popped from the stack by a clear.
LEMMA FramedStays ==
  ASSUME LoopInv, NEW outer, phase' = phase,
         \/ outer = calls
         \/ calls # <<>> /\ outer = Rest /\ Top.op # "wake"
  PROVE  /\ outer \in Seq(Frames)
         /\ \A f \in Frames : calls' = Append(outer, f) => (Framed => Framed')
         /\ \A op : On(outer, op) => On(calls, op)
<1> USE DEF LoopInv, LoopTypeOK
<1>1. /\ outer \in Seq(Frames)
      /\ \A op : On(outer, op) => On(calls, op)
      /\ On(calls, "wake") => On(outer, "wake")
      /\ OnLate(calls) => OnLate(outer)
  BY Popped
<1>2. ASSUME NEW f \in Frames, calls' = Append(outer, f)
      PROVE  Framed => Framed'
  <2>1. /\ On(outer, "wake") => On(Append(outer, f), "wake")
        /\ OnLate(outer) => OnLate(Append(outer, f))
    BY <1>1, Pushed
  <2> QED
    BY <1>1, <1>2, <2>1 DEF Framed
<1> QED
  BY <1>1, <1>2

LEMMA ClearTurnsKeeps ==
  ASSUME LoopInv, NEW cause \in Causes, NEW outer, ClearTurns(cause, outer),
         UNCHANGED <<pc, replay, turnVars, exit>>, teardown' \in {"no", "waiting", "done"},
         \A m \in Messages : Late(m) => m \in Inputs(inbox.nextTurn),
         \/ outer = calls
         \/ calls # <<>> /\ outer = Rest /\ Top.op # "wake"
  PROVE  LoopInv'
<1> USE DEF LoopInv
<1>1. CASE inbox.nextTurn # <<>>
  <2> DEFINE f == Frame("latch", cause, FALSE)
             ms == Inputs(inbox.nextTurn)
  <2>1. /\ inbox' = [nextTurn |-> <<>>, nextStep |-> inbox.nextStep]
        /\ Become(ms, "discarded") /\ Discarded
        /\ calls' = Append(outer, f) /\ phase' = phase
    BY <1>1 DEF ClearTurns, DiscardTurns, Discarded
  <2>2. f \in Frames
    BY CallFrames
  <2> HIDE DEF f
  <2>3. outer \in Seq(Frames) /\ (Framed => Framed')
    BY <2>1, <2>2, FramedStays
  <2>4. calls' \in Seq(Frames)
    BY <2>1, <2>2, <2>3, Pushed
  <2>5. inbox' \in [nextTurn : Seq(Messages), nextStep : Seq(Messages \cup {Context})]
    BY <2>1 DEF LoopTypeOK
  <2>6. \A m \in Messages : Pending(m) /\ m \notin ms =>
          m \in Inputs(inbox'.nextTurn) \cup Inputs(inbox'.nextStep)
    BY <2>1 DEF QueueInv
  <2>7. \A m \in Messages : Late(m) => m \in ms
    OBVIOUS
  <2> HIDE DEF ms
  <2> QED
    BY <2>1, <2>3, <2>4, <2>5, <2>6, <2>7, DiscardKeeps
<1>2. CASE inbox.nextTurn = <<>>
  <2>1. DropLatch(cause, outer)
    BY <1>2 DEF ClearTurns
  <2>2. \A m \in Messages : ~Late(m)
    BY <1>2, InputsEmpty
  <2>3. outer \in Seq(Frames)
    BY Popped DEF LoopTypeOK
  <2> QED
    BY <2>1, <2>2, <2>3, DropLatchKeeps
<1> QED
  BY <1>1, <1>2

LEMMA ClearKeeps ==
  ASSUME LoopInv, NEW cause \in Causes, Clear(cause, calls),
         UNCHANGED <<pc, replay, turnVars, exit>>, teardown' \in {"no", "waiting", "done"}
  PROVE  LoopInv'
<1> USE DEF LoopInv
<1>1. CASE inbox.nextStep # <<>>
  <2> DEFINE f == Frame("turns", cause, FALSE)
             ms == Inputs(inbox.nextStep)
  <2>1. /\ inbox' = [nextTurn |-> inbox.nextTurn, nextStep |-> <<>>]
        /\ Become(ms, "discarded") /\ Discarded
        /\ calls' = Append(calls, f) /\ phase' = phase
    BY <1>1 DEF Clear, DiscardSteps, Discarded
  <2>2. f \in Frames /\ f.op = "turns"
    BY CallFrames
  <2> HIDE DEF f
  <2>3. Framed => Framed'
    BY <2>1, <2>2, FramedStays
  <2>4. calls' \in Seq(Frames) /\ (On(calls', "latch") => On(calls, "latch"))
    BY <2>1, <2>2, Pushed DEF LoopTypeOK
  <2>5. inbox' \in [nextTurn : Seq(Messages), nextStep : Seq(Messages \cup {Context})]
    BY <2>1 DEF LoopTypeOK
  <2>6. \A m \in Messages : Pending(m) /\ m \notin ms => m \in Inputs(inbox'.nextTurn)
    BY <2>1 DEF QueueInv
  <2>7. \A m \in Messages : Late(m) /\ m \notin ms =>
          ~On(calls', "latch") /\ m \in Inputs(inbox'.nextTurn)
    BY <2>4, <2>6 DEF ClearInv, Late
  <2> HIDE DEF ms
  <2> QED
    BY <2>1, <2>3, <2>4, <2>5, <2>6, <2>7, DiscardKeeps
<1>2. CASE inbox.nextStep = <<>>
  <2>1. ClearTurns(cause, calls)
    BY <1>2 DEF Clear
  <2>2. \A m \in Messages : Late(m) => m \in Inputs(inbox.nextTurn)
    BY <1>2, InputsEmpty DEF QueueInv, Late
  <2> QED
    BY <2>1, <2>2, ClearTurnsKeeps
<1> QED
  BY <1>1, <1>2

LEMMA CancelKeeps ==
  ASSUME LoopInv, Cancel
  PROVE  LoopInv'
<1>1. /\ Clear("user", calls) /\ UNCHANGED <<pc, replay, turnVars, exit, teardown>>
      /\ "user" \in Causes
  BY DEF Cancel, Causes
<1>2. teardown' \in {"no", "waiting", "done"}
  BY <1>1 DEF LoopInv, LoopTypeOK
<1> QED
  BY <1>1, <1>2, ClearKeeps

LEMMA DisposeKeeps ==
  ASSUME LoopInv, Dispose
  PROVE  LoopInv'
<1>1. /\ Clear("disposed", calls) /\ UNCHANGED <<pc, replay, turnVars, exit>>
      /\ teardown' = "waiting" /\ "disposed" \in Causes
  BY DEF Dispose, Causes
<1> QED
  BY <1>1, ClearKeeps

LEMMA GoOnClearingKeeps ==
  ASSUME LoopInv, GoOnClearing
  PROVE  LoopInv'
<1> USE DEF LoopInv
<1>1. /\ calls # <<>> /\ UNCHANGED <<pc, replay, turnVars, exit>>
      /\ teardown' \in {"no", "waiting", "done"}
      /\ calls \in Seq(Frames)
  BY DEF GoOnClearing, Returns, LoopTypeOK
<1>2. /\ Top \in Frames /\ Rest \in Seq(Frames)
      /\ \A op : On(calls, op) <=> On(Rest, op) \/ Top.op = op
  BY <1>1, Popped
<1>3. Top.cause \in Causes
  BY <1>2 DEF Frames
<1>4. CASE Returns("turns") /\ ClearTurns(Top.cause, Rest)
  <2>1. Top.op = "turns"
    BY <1>4 DEF Returns
  <2>2. \A m \in Messages : Late(m) => m \in Inputs(inbox.nextTurn)
    BY <1>2, <2>1 DEF ClearInv
  <2> QED
    BY <1>1, <1>3, <1>4, <2>1, <2>2, ClearTurnsKeeps
<1>5. CASE Returns("latch") /\ DropLatch(Top.cause, Rest)
  <2>1. \A m \in Messages : ~Late(m)
    BY <1>2, <1>5 DEF ClearInv, Returns
  <2> QED
    BY <1>1, <1>2, <1>3, <1>5, <2>1, DropLatchKeeps
<1> QED
  BY <1>4, <1>5 DEF GoOnClearing

LEMMA CancelKeptKeeps ==
  ASSUME LoopInv, CancelKept
  PROVE  LoopInv'
<1> USE DEF LoopInv
<1>1. /\ phase' = Abort("user", TRUE) /\ "user" \in Causes
      /\ UNCHANGED <<inbox, pc, replay, turnVars, account, exit, inputVars, closing>>
  BY DEF CancelKept, Causes
<1>2. /\ phase' \in Phases
      /\ phase'.kind = phase.kind /\ phase'.turn = phase.turn
      /\ phase'.wake = phase.wake
      /\ IsIdle => phase' = phase
      /\ phase'.abort = phase.abort \/ phase'.abort = "user"
  BY <1>1, AbortFacts DEF LoopTypeOK, Phases
<1>3. LoopTypeOK' /\ TurnInv'
  BY <1>1, <1>2 DEF LoopTypeOK, TurnInv, Phases, IsIdle, turnVars, inputVars, closing
<1>4. QueueInv' /\ SentInv' /\ DisposedInv' /\ ClearInv'
  BY <1>1, <1>2
     DEF QueueInv, SentInv, DisposedInv, ClearInv, Late, Pending, inputVars, closing
<1>5. OwedInv'
  BY <1>1, <1>2 DEF OwedInv, Owed, Framed, Late, Pending, inputVars, closing
<1>6. AccountInv'
  BY <1>1, <1>2 DEF AccountInv, Covered, ThisTurn, inputVars, turnVars
<1> QED
  BY <1>3, <1>4, <1>5, <1>6

\* What is owed when maintenance ends: the latch is left to its replay.
LEMMA EndMaintenanceKeeps ==
  ASSUME LoopInv, EndMaintenance
  PROVE  LoopInv'
<1> USE DEF LoopInv
<1>1. /\ phase.kind = "maintenance" /\ pc = "none" /\ openTurn = 0 /\ ~replay
      /\ ~OnLate(calls) /\ \A op : ~On(calls, op)
      /\ phase' = Idle(phase.turn) /\ replay' = phase.wake
      /\ UNCHANGED <<inbox, pc, turnVars, account, exit, inputVars, closing>>
  BY NoCallsOn DEF EndMaintenance, LoopTypeOK, TurnInv, InTurn
<1>2. LoopTypeOK'
  <2>1. phase' \in Phases /\ phase'.kind = "idle"
    BY <1>1, PhaseShapes DEF Idle
  <2> QED
    BY <1>1, <2>1 DEF LoopTypeOK, Phases, turnVars, inputVars, closing
<1>3. TurnInv'
  BY <1>1 DEF TurnInv, InTurn, IsIdle, Idle, turnVars
<1>4. QueueInv' /\ SentInv' /\ DisposedInv' /\ ClearInv'
  BY <1>1
     DEF QueueInv, SentInv, DisposedInv, ClearInv, Late, Pending, inputVars, closing, Idle
<1>5. OwedInv'
  BY <1>1 DEF OwedInv, Owed, Framed, Late, Pending, Idle, inputVars, closing
<1>6. AccountInv'
  BY <1>1 DEF AccountInv, Covered, ThisTurn, inputVars, turnVars, Idle
<1> QED
  BY <1>2, <1>3, <1>4, <1>5, <1>6

\* The look at the latch behind the idle transition starts the driver it owes.
LEMMA ReplayKeeps ==
  ASSUME LoopInv, Replay
  PROVE  LoopInv'
<1> USE DEF LoopInv
<1>1. /\ replay /\ ~replay'
      /\ UNCHANGED <<inbox, turnVars, account, exit, inputVars, closing>>
  BY DEF Replay
<1>2. \/ /\ phase.kind = "idle" /\ phase' = Busy("running", phase.turn)
         /\ pc' = "opening"
      \/ /\ phase.kind = "maintenance" /\ phase.abort # "disposed"
         /\ phase' = Latched /\ pc' = pc
      \/ /\ UNCHANGED <<phase, pc>>
         /\ phase.kind = "running" \/ phase.abort = "disposed" \/ ~HasPending
  BY DEF Replay, WakeDriver, Latches, IsIdle, LoopTypeOK
<1>3. LoopTypeOK'
  <2>1. phase' \in Phases
    BY <1>2, PhaseShapes
  <2>2. pc' \in DriverPlaces \cup {"none"} /\ (pc' # "none" <=> phase'.kind = "running")
    BY <1>2 DEF LoopTypeOK, Busy, Latched, DriverPlaces
  <2>3. replay' \in BOOLEAN
    BY DEF Replay
  <2> QED
    BY <1>1, <2>1, <2>2, <2>3 DEF LoopTypeOK, Phases, turnVars, inputVars, closing
<1>4. TurnInv'
  BY <1>1, <1>2 DEF TurnInv, InTurn, IsIdle, Busy, Latched, turnVars, LoopTypeOK
<1>5. QueueInv' /\ SentInv' /\ DisposedInv' /\ ClearInv'
  BY <1>1, <1>2
     DEF QueueInv, SentInv, DisposedInv, ClearInv, Late, Pending, inputVars, closing, Busy, Latched
<1>6. OwedInv'
  <2> SUFFICES ASSUME NEW m \in Messages, Late(m)' PROVE Owed(m)'
    BY DEF OwedInv
  <2>1. Late(m) /\ Owed(m) /\ Pending(m)
    BY <1>1 DEF OwedInv, Late, Pending, inputVars
  <2>2. HasPending /\ phase.abort # "disposed"
    BY <2>1, PendingIsQueued DEF DisposedInv
  <2> QED
    BY <1>1, <1>2, <2>1, <2>2 DEF Owed, Framed, Busy, Latched, inputVars, closing
<1>7. AccountInv'
  BY <1>1, <1>2 DEF AccountInv, Covered, ThisTurn, inputVars, turnVars, Busy, Latched,
     LoopTypeOK, TurnInv, InTurn
<1> QED
  BY <1>3, <1>4, <1>5, <1>6, <1>7

\* One message is taken out of the inbox, and the log says so.
LEMMA RemoveKeeps ==
  ASSUME LoopInv, NEW o \in Messages, Remove(o)
  PROVE  LoopInv'
<1> USE DEF LoopInv
<1>1. /\ inbox' = [nextTurn |-> Without(inbox.nextTurn, o),
                   nextStep |-> Without(inbox.nextStep, o)]
      /\ Become({o}, "discarded") /\ Discarded
      /\ UNCHANGED <<pc, replay, turnVars, exit, closing>>
  BY DEF Remove
<1>2. /\ Without(inbox.nextTurn, o) \in Seq(Messages)
      /\ \A m \in Inputs(inbox.nextTurn) : m # o => m \in Inputs(Without(inbox.nextTurn, o))
  BY InputsWithout DEF LoopTypeOK
<1>3. /\ Without(inbox.nextStep, o) \in Seq(Messages \cup {Context})
      /\ \A m \in Inputs(inbox.nextStep) : m # o => m \in Inputs(Without(inbox.nextStep, o))
  BY InputsWithout DEF LoopTypeOK
<1>4. teardown' \in {"no", "waiting", "done"} /\ calls' \in Seq(Frames) /\ calls' = calls
  BY <1>1 DEF LoopTypeOK, closing
<1>5. inbox' \in [nextTurn : Seq(Messages), nextStep : Seq(Messages \cup {Context})]
  BY <1>1, <1>2, <1>3
<1>6. \A m \in Messages : Pending(m) /\ m \notin {o} =>
        m \in Inputs(inbox'.nextTurn) \cup Inputs(inbox'.nextStep)
  BY <1>1, <1>2, <1>3 DEF QueueInv
<1>7. \A m \in Messages : Late(m) /\ m \notin {o} =>
        /\ ~On(calls', "latch")
        /\ On(calls', "turns") => m \in Inputs(inbox'.nextTurn)
  BY <1>1, <1>2, <1>4 DEF ClearInv
<1>8. Framed => Framed'
  BY <1>1, <1>4 DEF Framed, Discarded
<1> QED
  BY <1>1, <1>4, <1>5, <1>6, <1>7, <1>8, DiscardKeeps

\* Sending: what comes behind a cancelled activity leaves its wake on the stack.
LEMMA SendKeeps ==
  ASSUME LoopInv, NEW m \in Messages, NEW list \in {"nextTurn", "nextStep"},
         NEW w \in BOOLEAN, Send(m, list, w)
  PROVE  LoopInv'
<1> USE DEF LoopInv
<1> DEFINE how == [to |-> Activity, woke |-> w, turn |-> phase.turn]
           late == ~IsIdle /\ Aborted
           f == Frame("wake", "live", late)
<1>1. /\ fate[m] = "unsent" /\ fate' = [fate EXCEPT ![m] = "pending"]
      /\ sent' = [sent EXCEPT ![m] = how]
      /\ UNCHANGED <<phase, pc, replay, turnVars, account, exit, fateTurn, teardown>>
      /\ calls' = IF w THEN Append(calls, f) ELSE calls
  BY DEF Send
<1>2. how \in [to : Activities, woke : BOOLEAN, turn : Nat]
      /\ how.to = Activity /\ how.woke = w /\ how.turn = phase.turn
  BY DEF Activity, Activities, LoopTypeOK
<1> HIDE DEF how
<1>3. /\ calls' \in Seq(Frames)
      /\ On(calls, "wake") => On(calls', "wake")
      /\ OnLate(calls) => OnLate(calls')
      /\ w => On(calls', "wake") /\ (late => OnLate(calls'))
      /\ On(calls', "latch") => On(calls, "latch")
      /\ On(calls', "turns") => On(calls, "turns")
  <2>1. f \in Frames /\ f.op = "wake" /\ f.late = late
    <3>1. "live" \in Causes /\ late \in BOOLEAN
      BY DEF Causes
    <3> HIDE DEF late
    <3> QED
      BY <3>1, CallFrames
  <2> HIDE DEF f, late
  <2>2. calls \in Seq(Frames)
    BY DEF LoopTypeOK
  <2>3. /\ Append(calls, f) \in Seq(Frames)
        /\ \A op : On(Append(calls, f), op) <=> On(calls, op) \/ f.op = op
        /\ OnLate(Append(calls, f)) <=> OnLate(calls) \/ (f.op = "wake" /\ f.late)
    BY <2>1, <2>2, Pushed
  <2> QED
    BY <1>1, <2>1, <2>2, <2>3
<1> HIDE DEF f
<1>4. /\ Append(inbox.nextTurn, m) \in Seq(Messages)
      /\ Inputs(Append(inbox.nextTurn, m)) = Inputs(inbox.nextTurn) \cup ({m} \cap Messages)
  BY InputsAppend DEF LoopTypeOK
<1>5. /\ Append(inbox.nextStep, m) \in Seq(Messages \cup {Context})
      /\ Inputs(Append(inbox.nextStep, m)) = Inputs(inbox.nextStep) \cup ({m} \cap Messages)
  <2>1. inbox.nextStep \in Seq(Messages \cup {Context}) /\ m \in Messages \cup {Context}
    BY DEF LoopTypeOK
  <2> QED
    BY <2>1, InputsAppend
<1>6. \/ inbox' = [nextTurn |-> Append(inbox.nextTurn, m), nextStep |-> inbox.nextStep]
      \/ inbox' = [nextTurn |-> inbox.nextTurn, nextStep |-> Append(inbox.nextStep, m)]
  BY DEF Send
<1>7. /\ inbox' \in [nextTurn : Seq(Messages), nextStep : Seq(Messages \cup {Context})]
      /\ Inputs(inbox.nextTurn) \subseteq Inputs(inbox'.nextTurn)
      /\ Inputs(inbox'.nextTurn) \cup Inputs(inbox'.nextStep)
           = Inputs(inbox.nextTurn) \cup Inputs(inbox.nextStep) \cup {m}
  <2>1. CASE inbox' = [nextTurn |-> Append(inbox.nextTurn, m), nextStep |-> inbox.nextStep]
    BY <1>4, <2>1 DEF LoopTypeOK
  <2>2. CASE inbox' = [nextTurn |-> inbox.nextTurn, nextStep |-> Append(inbox.nextStep, m)]
    BY <1>5, <2>2 DEF LoopTypeOK
  <2> QED
    BY <1>6, <2>1, <2>2
<1>8. LoopTypeOK'
  <2>1. fate' \in [Messages -> Fates] /\ fateTurn' \in [Messages -> Nat]
    BY <1>1 DEF LoopTypeOK, Fates
  <2>2. sent' \in [Messages -> [to : Activities, woke : BOOLEAN, turn : Nat]]
    BY <1>1, <1>2 DEF LoopTypeOK
  <2> QED
    BY <1>1, <1>3, <1>7, <2>1, <2>2 DEF LoopTypeOK, turnVars
<1>9. TurnInv'
  BY <1>1 DEF TurnInv, IsIdle, turnVars
<1>10. \A o \in Messages :
         /\ o # m => fate'[o] = fate[o] /\ sent'[o] = sent[o]
         /\ o = m => fate'[o] = "pending" /\ sent'[o] = how
         /\ fateTurn'[o] = fateTurn[o]
  BY <1>1 DEF LoopTypeOK
<1>11. QueueInv'
  BY <1>7, <1>10 DEF QueueInv, Pending
<1>12. SentInv'
  <2>1. \A o \in Messages : sent'[o].turn = sent[o].turn \/ sent'[o].turn = phase.turn
    BY <1>2, <1>10
  <2>2. phase.turn \in Nat /\ phase' = phase
    BY <1>1 DEF LoopTypeOK
  <2> QED
    BY <2>1, <2>2 DEF SentInv
<1>13. Late(m)' =>
         /\ w /\ ~Clearing /\ phase.kind # "idle" /\ phase.abort # "disposed"
         /\ phase.kind = "maintenance" \/ (phase.kind = "running" /\ late)
  <2>1. Late(m)' => w /\ Activity \in {"aborted", "maintenance"}
    BY <1>2, <1>10 DEF Late
  <2> QED
    BY <2>1 DEF Activity, IsIdle, LoopTypeOK
<1>14. \A o \in Messages : o # m /\ Late(o)' => Late(o) /\ sent'[o] = sent[o]
  BY <1>10 DEF Late, Pending
<1>15. DisposedInv'
  BY <1>1, <1>13, <1>14 DEF DisposedInv
<1>16. ClearInv'
  BY <1>3, <1>7, <1>13, <1>14, ClearsOn DEF ClearInv
<1>17. OwedInv'
  <2> SUFFICES ASSUME NEW o \in Messages, Late(o)' PROVE Owed(o)'
    BY DEF OwedInv
  <2>1. CASE o = m
    BY <1>1, <1>3, <1>13, <2>1 DEF Owed, Framed
  <2>2. CASE o # m
    BY <1>1, <1>3, <1>14, <2>2 DEF OwedInv, Owed, Framed
  <2> QED
    BY <2>1, <2>2
<1>18. AccountInv'
  <2> SUFFICES ASSUME NEW o \in Messages PROVE Covered(o)'
    BY DEF AccountInv
  <2>1. Covered(o) /\ ThisTurn' = ThisTurn
    BY <1>1 DEF AccountInv, ThisTurn, turnVars
  <2>2. fate'[o] = fate[o] \/ fate'[o] = "pending"
    BY <1>10
  <2> QED
    BY <1>1, <1>10, <2>1, <2>2 DEF Covered, turnVars
<1> QED
  BY <1>8, <1>9, <1>11, <1>12, <1>15, <1>16, <1>17, <1>18

\* The wake of a send behind its listeners: a late message's goes to the latch.
LEMMA WakeKeeps ==
  ASSUME LoopInv, Wake
  PROVE  LoopInv'
<1> USE DEF LoopInv
<1>1. /\ calls # <<>> /\ Top.op = "wake" /\ calls' = Rest /\ calls \in Seq(Frames)
      /\ UNCHANGED <<inbox, replay, turnVars, account, exit, inputVars, teardown>>
  BY DEF Wake, Returns, LoopTypeOK
<1>2. /\ Rest \in Seq(Frames)
      /\ \A op : On(calls, op) <=> On(Rest, op) \/ Top.op = op
      /\ OnLate(calls) <=> OnLate(Rest) \/ (Top.op = "wake" /\ Top.late)
  BY <1>1, Popped
<1>3. \/ /\ phase.kind = "idle" /\ phase' = Busy("running", phase.turn)
         /\ pc' = "opening"
      \/ /\ phase.kind # "idle" /\ phase' = Latched /\ pc' = pc
      \/ /\ phase.kind # "idle" /\ UNCHANGED <<phase, pc>>
         /\ phase.abort # "disposed" => phase.kind # "maintenance" /\ ~Top.late
  BY DEF Wake, WakeDriver, Latches, IsIdle
<1>4. /\ phase' \in Phases /\ phase'.turn = phase.turn
      /\ phase'.abort = phase.abort \/ phase'.abort = "live"
      /\ pc' \in DriverPlaces \cup {"none"} /\ (pc' # "none" <=> phase'.kind = "running")
  <2>1. phase' \in Phases
    BY <1>3, PhaseShapes
  <2> QED
    BY <1>3, <2>1 DEF LoopTypeOK, Busy, Latched, DriverPlaces
<1>5. LoopTypeOK'
  BY <1>1, <1>2, <1>4 DEF LoopTypeOK, Phases, turnVars, inputVars
<1>6. TurnInv'
  BY <1>1, <1>3 DEF TurnInv, InTurn, IsIdle, Busy, Latched, turnVars, LoopTypeOK
<1>7. QueueInv' /\ SentInv' /\ DisposedInv' /\ ClearInv'
  BY <1>1, <1>2, <1>3
     DEF QueueInv, SentInv, DisposedInv, ClearInv, Late, Pending, inputVars, Busy, Latched
<1>8. OwedInv'
  <2> SUFFICES ASSUME NEW m \in Messages, Late(m)' PROVE Owed(m)'
    BY DEF OwedInv
  <2>1. Late(m) /\ Owed(m) /\ phase.abort # "disposed" /\ sent'[m] = sent[m]
    BY <1>1 DEF OwedInv, DisposedInv, Late, Pending, inputVars
  <2>2. CASE phase.kind = "idle"
    BY <1>3, <2>2 DEF Owed
  <2>3. CASE phase.kind # "idle" /\ phase' = Latched
    BY <2>3 DEF Owed, Latched
  <2>4. CASE /\ phase.kind # "idle" /\ UNCHANGED <<phase, pc>>
             /\ phase.kind # "maintenance" /\ ~Top.late
    BY <1>1, <1>2, <2>1, <2>4 DEF Owed, Framed
  <2> QED
    BY <1>3, <2>1, <2>2, <2>3, <2>4
<1>9. AccountInv'
  BY <1>1, <1>3 DEF AccountInv, Covered, ThisTurn, inputVars, turnVars, Busy, Latched,
     LoopTypeOK, TurnInv, InTurn
<1> QED
  BY <1>5, <1>6, <1>7, <1>8, <1>9

\* Claiming moves the inputs of the next step into the batch.
LEMMA ClaimKeeps ==
  ASSUME LoopInv, Claim
  PROVE  LoopInv'
<1> USE DEF LoopInv
<1> DEFINE k == ClaimedTurns
           front == SubSeq(inbox.nextTurn, 1, k)
           back == SubSeq(inbox.nextTurn, k + 1, Len(inbox.nextTurn))
           ms == Inputs(batch')
<1>1. /\ pc = "claim" /\ pc' = "proposing"
      /\ batch' = inbox.nextStep \o front
      /\ inbox' = [nextTurn |-> back, nextStep |-> <<>>]
      /\ account' = [stepped |-> account.stepped,
                     claimed |-> account.claimed \/ batch' # <<>>,
                     end |-> account.end, dropped |-> account.dropped]
      /\ Become(ms, "claimed")
      /\ UNCHANGED <<phase, replay, target, turnEnds, retries, openTurn, openStep, exit,
                     closing>>
  BY DEF Claim
<1>2. inbox.nextTurn \in Seq(Messages) /\ inbox.nextStep \in Seq(Messages \cup {Context})
  BY DEF LoopTypeOK
<1>3. k \in 0 .. Len(inbox.nextTurn)
  BY <1>2 DEF ClaimedTurns
<1> HIDE DEF k
<1>4. /\ front \in Seq(Messages) /\ back \in Seq(Messages)
      /\ Inputs(inbox.nextTurn) \subseteq Inputs(front) \cup Inputs(back)
  BY <1>2, <1>3, InputsCut
<1> HIDE DEF front, back
<1>5. front \in Seq(Messages \cup {Context})
  BY <1>4
<1>6. /\ batch' \in Seq(Messages \cup {Context})
      /\ Inputs(inbox.nextStep) \cup Inputs(front) \subseteq ms
  BY <1>1, <1>2, <1>5, InputsJoin
<1>7. ms # {} => batch' # <<>>
  BY InputsEmpty
<1> HIDE DEF ms
<1>8. "claimed" \in Fates /\ "claimed" # "pending"
  BY DEF Fates
<1>9. /\ fate' \in [Messages -> Fates] /\ fateTurn' \in [Messages -> Nat]
      /\ sent' \in [Messages -> [to : Activities, woke : BOOLEAN, turn : Nat]]
      /\ \A m \in Messages :
           IF m \in ms
           THEN fate'[m] = "claimed" /\ fateTurn'[m] = ThisTurn /\ sent'[m].turn = 0
           ELSE fate'[m] = fate[m] /\ fateTurn'[m] = fateTurn[m] /\ sent'[m] = sent[m]
  BY <1>1, <1>8, BecomeFacts
<1>10. LoopTypeOK'
  <2>1. inbox' \in [nextTurn : Seq(Messages), nextStep : Seq(Messages \cup {Context})]
    BY <1>1, <1>4
  <2>2. account' \in [stepped : BOOLEAN, claimed : BOOLEAN, end : Nat, dropped : BOOLEAN]
    BY <1>1 DEF LoopTypeOK
  <2>3. pc' \in DriverPlaces \cup {"none"} /\ (pc' # "none" <=> phase'.kind = "running")
    BY <1>1 DEF LoopTypeOK, DriverPlaces
  <2> QED
    BY <1>1, <1>6, <1>9, <2>1, <2>2, <2>3 DEF LoopTypeOK, closing
<1>11. TurnInv'
  BY <1>1 DEF TurnInv, InTurn, IsIdle
<1>12. QueueInv'
  <2> SUFFICES ASSUME NEW m \in Messages, Pending(m)'
               PROVE  m \in Inputs(back)
    BY <1>1 DEF QueueInv
  <2>1. m \notin ms /\ Pending(m)
    BY <1>9 DEF Pending
  <2> QED
    BY <1>4, <1>6, <2>1 DEF QueueInv
<1>13. SentInv'
  <2>1. \A m \in Messages : sent'[m].turn = 0 \/ sent'[m] = sent[m]
    BY <1>9
  <2>2. phase.turn \in Nat /\ phase' = phase
    BY <1>1 DEF LoopTypeOK
  <2> QED
    BY <2>1, <2>2 DEF SentInv
<1>14. \A m \in Messages : Late(m)' => Late(m) /\ sent'[m] = sent[m]
  BY <1>9 DEF Late, Pending
<1>15. DisposedInv'
  BY <1>1, <1>14 DEF DisposedInv
<1>16. ClearInv'
  <2>1. \A m \in Messages : Pending(m)' => m \in Inputs(back)
    BY <1>1, <1>12, InputsEmpty DEF QueueInv
  <2>2. calls' = calls /\ inbox'.nextTurn = back
    BY <1>1 DEF closing
  <2> QED
    BY <1>14, <2>1, <2>2 DEF ClearInv, Late
<1>17. OwedInv'
  BY <1>1, <1>14 DEF OwedInv, Owed, Framed, closing
<1>18. AccountInv'
  <2> SUFFICES ASSUME NEW m \in Messages PROVE Covered(m)'
    BY DEF AccountInv
  <2>1. Covered(m) /\ ThisTurn' = ThisTurn /\ ThisTurn \in Nat
    BY <1>1 DEF AccountInv, ThisTurn, LoopTypeOK
  <2>2. /\ account'.stepped = account.stepped /\ account'.end = account.end
        /\ account'.dropped = account.dropped /\ (account.claimed => account'.claimed)
        /\ batch' # <<>> => account'.claimed
    BY <1>1
  <2>3. CASE m \in ms
    <3>1. fate'[m] = "claimed" /\ fateTurn'[m] = ThisTurn /\ account'.claimed
          /\ m \in Inputs(batch')
      BY <1>7, <1>9, <2>2, <2>3 DEF ms
    <3> QED
      BY <1>1, <2>1, <3>1 DEF Covered
  <2>4. CASE m \notin ms
    <3>1. fate'[m] = fate[m] /\ fateTurn'[m] = fateTurn[m] /\ fate[m] # "claimed"
      BY <1>1, <1>9, <2>1, <2>4 DEF Covered
    <3> QED
      BY <1>1, <2>1, <2>2, <3>1 DEF Covered
  <2> QED
    BY <2>3, <2>4
<1> QED
  BY <1>10, <1>11, <1>12, <1>13, <1>15, <1>16, <1>17, <1>18

\* Entering a step covers what was claimed: the turn will account for it.
LEMMA EnterStepKeeps ==
  ASSUME LoopInv, NEW kept \in BOOLEAN, EnterStep(kept)
  PROVE  LoopInv'
<1> USE DEF LoopInv
<1> DEFINE f == IF kept THEN "logged" ELSE "rewritten"
           ms == Inputs(batch)
<1>1. /\ pc = "proposing" /\ pc' = "request" /\ openStep' = TRUE /\ retries' = 0
      /\ batch' = <<>>
      /\ phase' = [kind |-> "running", turn |-> phase.turn, step |-> phase.step + 1,
                   wake |-> phase.wake, abort |-> phase.abort]
      /\ account' = [stepped |-> TRUE, claimed |-> account.claimed,
                     end |-> account.end, dropped |-> account.dropped]
      /\ Become(ms, f)
      /\ UNCHANGED <<inbox, replay, target, turnEnds, openTurn, exit, closing>>
  BY DEF EnterStep
<1>2. f \in {"logged", "rewritten"} /\ f \in Fates /\ f # "pending"
  BY DEF Fates
<1> HIDE DEF f, ms
<1>3. /\ fate' \in [Messages -> Fates] /\ fateTurn' \in [Messages -> Nat]
      /\ sent' \in [Messages -> [to : Activities, woke : BOOLEAN, turn : Nat]]
      /\ \A m \in Messages :
           IF m \in ms
           THEN fate'[m] = f /\ fateTurn'[m] = ThisTurn /\ sent'[m].turn = 0
           ELSE fate'[m] = fate[m] /\ fateTurn'[m] = fateTurn[m] /\ sent'[m] = sent[m]
  BY <1>1, <1>2, BecomeFacts
<1>4. /\ phase' \in Phases
      /\ phase'.kind = "running" /\ phase'.turn = phase.turn /\ phase'.wake = phase.wake
      /\ phase'.abort = phase.abort
  BY <1>1 DEF LoopTypeOK, Phases
<1>5. phase.kind = "running"
  BY <1>1 DEF LoopTypeOK
<1>6. LoopTypeOK'
  <2>1. account' \in [stepped : BOOLEAN, claimed : BOOLEAN, end : Nat, dropped : BOOLEAN]
    BY <1>1 DEF LoopTypeOK
  <2>2. pc' \in DriverPlaces \cup {"none"} /\ (pc' # "none" <=> phase'.kind = "running")
    BY <1>1, <1>4 DEF DriverPlaces
  <2>3. batch' \in Seq(Messages \cup {Context}) /\ retries' \in 0 .. MaxRetries
    BY <1>1, LoopConstants
  <2> QED
    BY <1>1, <1>3, <1>4, <2>1, <2>2, <2>3 DEF LoopTypeOK, Phases, closing
<1>7. TurnInv'
  BY <1>1, <1>4, <1>5 DEF TurnInv, InTurn, IsIdle
<1>8. QueueInv'
  BY <1>1, <1>2, <1>3 DEF QueueInv, Pending
<1>9. SentInv'
  <2>1. \A m \in Messages : sent'[m].turn = 0 \/ sent'[m] = sent[m]
    BY <1>3
  <2>2. phase.turn \in Nat /\ phase'.turn = phase.turn
    BY <1>4 DEF LoopTypeOK
  <2> QED
    BY <2>1, <2>2 DEF SentInv
<1>10. \A m \in Messages : Late(m)' => Late(m) /\ sent'[m] = sent[m]
  BY <1>2, <1>3 DEF Late, Pending
<1>11. DisposedInv'
  BY <1>4, <1>10 DEF DisposedInv
<1>12. ClearInv'
  BY <1>1, <1>10 DEF ClearInv, closing
<1>13. OwedInv'
  BY <1>1, <1>4, <1>5, <1>10 DEF OwedInv, Owed, Framed, closing
<1>14. AccountInv'
  <2> SUFFICES ASSUME NEW m \in Messages PROVE Covered(m)'
    BY DEF AccountInv
  <2>1. /\ Covered(m) /\ ThisTurn' = ThisTurn /\ ThisTurn \in Nat /\ openTurn # 0
        /\ openTurn' = openTurn
    BY <1>1, <1>4 DEF AccountInv, ThisTurn, LoopTypeOK, TurnInv, InTurn
  <2>2. account'.stepped /\ account'.end = account.end /\ account'.dropped = account.dropped
    BY <1>1
  <2>3. CASE m \in ms
    <3>1. fate'[m] \in {"logged", "rewritten"} /\ fateTurn'[m] = ThisTurn
      BY <1>2, <1>3, <2>3
    <3> QED
      BY <2>1, <2>2, <3>1 DEF Covered
  <2>4. CASE m \notin ms
    <3>1. fate'[m] = fate[m] /\ fateTurn'[m] = fateTurn[m] /\ fate[m] # "claimed"
      BY <1>3, <2>1, <2>4 DEF Covered, ms
    <3> QED
      BY <2>1, <2>2, <3>1 DEF Covered
  <2> QED
    BY <2>3, <2>4
<1> QED
  BY <1>6, <1>7, <1>8, <1>9, <1>11, <1>12, <1>13, <1>14

\* A result staged for the next step adds no message of a caller.
LEMMA CommitResultKeeps ==
  ASSUME LoopInv, NEW concludes \in BOOLEAN, NEW staged \in BOOLEAN,
         CommitResult(concludes, staged)
  PROVE  LoopInv'
<1> USE DEF LoopInv
<1>1. UNCHANGED <<phase, pc, replay, turnVars, account, exit, inputVars, closing>>
  BY DEF CommitResult
<1>2. /\ inbox.nextStep \in Seq(Messages \cup {Context})
      /\ Context \in Messages \cup {Context}
  BY DEF LoopTypeOK
<1>3. /\ Append(inbox.nextStep, Context) \in Seq(Messages \cup {Context})
      /\ Inputs(Append(inbox.nextStep, Context))
           = Inputs(inbox.nextStep) \cup ({Context} \cap Messages)
  BY <1>2, InputsAppend
<1>4. \/ inbox' = inbox
      \/ inbox' = [nextTurn |-> inbox.nextTurn, nextStep |-> Append(inbox.nextStep, Context)]
  BY DEF CommitResult
<1>5. /\ inbox' \in [nextTurn : Seq(Messages), nextStep : Seq(Messages \cup {Context})]
      /\ Inputs(inbox'.nextTurn) = Inputs(inbox.nextTurn)
      /\ Inputs(inbox'.nextStep) = Inputs(inbox.nextStep)
  <2>1. CASE inbox' = inbox
    BY <2>1 DEF LoopTypeOK
  <2>2. CASE inbox' = [nextTurn |-> inbox.nextTurn,
                       nextStep |-> Append(inbox.nextStep, Context)]
    <3>1. {Context} \cap Messages = {}
      BY LoopConstants
    <3> QED
      BY <1>3, <2>2, <3>1 DEF LoopTypeOK
  <2> QED
    BY <1>4, <2>1, <2>2
<1>6. LoopTypeOK' /\ TurnInv'
  BY <1>1, <1>5 DEF LoopTypeOK, TurnInv, IsIdle, turnVars, inputVars, closing
<1>7. QueueInv' /\ SentInv' /\ DisposedInv' /\ ClearInv'
  BY <1>1, <1>5 DEF QueueInv, SentInv, DisposedInv, ClearInv, Late, Pending, inputVars, closing
<1>8. OwedInv' /\ AccountInv'
  BY <1>1 DEF OwedInv, Owed, Framed, Late, Pending, AccountInv, Covered, ThisTurn,
     turnVars, inputVars, closing
<1> QED
  BY <1>6, <1>7, <1>8

LEMMA FailKeeps ==
  ASSUME LoopInv, Fail
  PROVE  LoopInv'
<1> USE DEF LoopInv
<1>1. /\ pc \in InTurn \ {"claim", "stepped", "failing"} /\ pc' = "failing"
      /\ openStep' = FALSE
      /\ UNCHANGED <<phase, inbox, replay, target, batch, turnEnds, retries, openTurn,
                     account, exit, inputVars, closing>>
  BY DEF Fail, Thrown, InTurn
<1>2. LoopTypeOK'
  BY <1>1 DEF LoopTypeOK, InTurn, DriverPlaces, inputVars, closing
<1>3. TurnInv'
  BY <1>1 DEF TurnInv, InTurn, IsIdle
<1>4. QueueInv' /\ SentInv' /\ DisposedInv' /\ ClearInv'
  BY <1>1 DEF QueueInv, SentInv, DisposedInv, ClearInv, Late, Pending, inputVars, closing
<1>5. OwedInv'
  BY <1>1 DEF LoopTypeOK, InTurn, OwedInv, Owed, Framed, Late, Pending, inputVars, closing
<1>6. AccountInv'
  BY <1>1 DEF AccountInv, Covered, ThisTurn, inputVars
<1> QED
  BY <1>2, <1>3, <1>4, <1>5, <1>6

(***************************************************************************)
(* turn/end: what the turn did is covered by it, when it entered a step,   *)
(* or is withdrawn with a reason that covers it, or has been rewritten.    *)
(***************************************************************************)
LEMMA EndTurnKeeps ==
  ASSUME LoopInv, pc \in InTurn, NEW reason \in Ends, EndTurn(reason), exit' \in Exits,
         fate' \in [Messages -> Fates], fateTurn' \in [Messages -> Nat],
         sent' \in [Messages -> [to : Activities, woke : BOOLEAN, turn : Nat]],
         \A m \in Messages :
           \/ /\ fate'[m] = fate[m] /\ fateTurn'[m] = fateTurn[m] /\ sent'[m] = sent[m]
              /\ fate[m] # "claimed"
           \/ /\ fate'[m] = "rewritten" /\ fateTurn'[m] = ThisTurn /\ sent'[m].turn = 0
           \/ /\ fate'[m] = "withdrawn" /\ fateTurn'[m] = ThisTurn /\ sent'[m].turn = 0
              /\ fate[m] = "claimed" /\ reason # "completed"
  PROVE  LoopInv'
<1> USE DEF LoopInv
<1> DEFINE covers == account.stepped \/ (account.claimed /\ reason # "completed")
<1>1. /\ openTurn' = 0 /\ openStep' = FALSE /\ turnEnds' = reason /\ pc' = "ended"
      /\ batch' = <<>> /\ retries' = 0
      /\ UNCHANGED <<phase, inbox, replay, target, closing>>
  BY DEF EndTurn
<1>2. /\ ThisTurn = openTurn /\ openTurn # 0 /\ openTurn = phase.turn /\ openTurn \in Nat
      /\ ThisTurn' = phase.turn + 1 /\ phase.turn \in Nat
      /\ phase.kind = "running"
  BY <1>1 DEF TurnInv, InTurn, ThisTurn, LoopTypeOK
<1>3. /\ covers => account'.end = openTurn
      /\ ~covers => account'.end = account.end /\ account'.dropped = account.dropped
      /\ account' \in [stepped : BOOLEAN, claimed : BOOLEAN, end : Nat, dropped : BOOLEAN]
  <2>1. CASE covers
    <3>1. account' = [stepped |-> FALSE, claimed |-> FALSE, end |-> openTurn,
                      dropped |-> FALSE]
      BY <2>1 DEF EndTurn
    <3> QED
      BY <1>2, <2>1, <3>1
  <2>2. CASE ~covers
    <3>1. account' = [stepped |-> FALSE, claimed |-> FALSE, end |-> account.end,
                      dropped |-> account.dropped]
      BY <2>2 DEF EndTurn
    <3> QED
      BY <2>2, <3>1 DEF LoopTypeOK
  <2> QED
    BY <2>1, <2>2
<1>4. LoopTypeOK'
  <2>1. batch' \in Seq(Messages \cup {Context}) /\ retries' \in 0 .. MaxRetries
    BY <1>1, LoopConstants
  <2>2. /\ pc' \in DriverPlaces \cup {"none"} /\ (pc' # "none" <=> phase'.kind = "running")
        /\ turnEnds' \in Ends /\ openTurn' \in Nat /\ openStep' \in BOOLEAN
    BY <1>1, <1>2 DEF DriverPlaces
  <2> QED
    BY <1>1, <1>3, <2>1, <2>2 DEF LoopTypeOK, closing
<1>5. TurnInv'
  BY <1>1, <1>2 DEF TurnInv, InTurn, IsIdle
<1>6. QueueInv'
  BY <1>1 DEF QueueInv, Pending
<1>7. SentInv'
  <2>1. \A m \in Messages : sent'[m].turn = 0 \/ sent'[m] = sent[m]
    OBVIOUS
  <2> QED
    BY <1>1, <1>2, <2>1 DEF SentInv
<1>8. \A m \in Messages : Late(m)' => Late(m) /\ sent'[m] = sent[m]
  BY DEF Late, Pending
<1>9. DisposedInv'
  BY <1>1, <1>8 DEF DisposedInv
<1>10. ClearInv'
  BY <1>1, <1>8 DEF ClearInv, closing
<1>11. OwedInv'
  BY <1>1, <1>2, <1>8 DEF OwedInv, Owed, Framed, InTurn, closing
<1>12. AccountInv'
  <2> SUFFICES ASSUME NEW m \in Messages PROVE Covered(m)'
    BY DEF AccountInv
  <2>1. /\ Covered(m) /\ fateTurn[m] \in Nat /\ fateTurn'[m] \in Nat
        /\ account.end \in Nat
    BY DEF AccountInv, LoopTypeOK
  <2>2. CASE fate'[m] = fate[m] /\ fateTurn'[m] = fateTurn[m] /\ fate[m] # "claimed"
    <3>1. fateTurn[m] <= openTurn
      BY <1>2, <2>1 DEF Covered
    <3>2. CASE covers
      BY <1>1, <1>2, <1>3, <2>1, <2>2, <3>1, <3>2 DEF Covered
    <3>3. CASE ~covers
      BY <1>1, <1>2, <1>3, <2>1, <2>2, <3>1, <3>3 DEF Covered
    <3> QED
      BY <3>2, <3>3
  <2>3. CASE fate'[m] = "rewritten" /\ fateTurn'[m] = ThisTurn
    BY <1>1, <1>2, <2>3 DEF Covered
  <2>4. CASE /\ fate'[m] = "withdrawn" /\ fateTurn'[m] = ThisTurn
             /\ fate[m] = "claimed" /\ reason # "completed"
    <3>1. covers
      BY <2>1, <2>4 DEF Covered
    <3> QED
      BY <1>1, <1>2, <1>3, <2>4, <3>1 DEF Covered
  <2> QED
    BY <2>2, <2>3, <2>4
<1> QED
  BY <1>4, <1>5, <1>6, <1>7, <1>9, <1>10, <1>11, <1>12

\* A turn that ends without completing gives back what it had claimed.
LEMMA WithdrawKeeps ==
  ASSUME LoopInv, pc \in InTurn, NEW reason \in Ends, EndTurn(reason), exit' \in Exits,
         Withdraw, reason # "completed"
  PROVE  LoopInv'
<1> DEFINE ms == {m \in Inputs(batch) : fate[m] = "claimed"}
<1>1. Become(ms, "withdrawn")
  BY DEF Withdraw
<1>2. \A m \in Messages : fate[m] = "claimed" <=> m \in ms
  BY DEF LoopInv, AccountInv, Covered, Inputs
<1> HIDE DEF ms
<1>3. "withdrawn" \in Fates /\ "withdrawn" # "pending"
  BY DEF Fates
<1>4. /\ fate' \in [Messages -> Fates] /\ fateTurn' \in [Messages -> Nat]
      /\ sent' \in [Messages -> [to : Activities, woke : BOOLEAN, turn : Nat]]
      /\ \A m \in Messages :
           IF m \in ms
           THEN fate'[m] = "withdrawn" /\ fateTurn'[m] = ThisTurn /\ sent'[m].turn = 0
           ELSE fate'[m] = fate[m] /\ fateTurn'[m] = fateTurn[m] /\ sent'[m] = sent[m]
  BY <1>1, <1>3, BecomeFacts
<1>5. \A m \in Messages :
        \/ /\ fate'[m] = fate[m] /\ fateTurn'[m] = fateTurn[m] /\ sent'[m] = sent[m]
           /\ fate[m] # "claimed"
        \/ /\ fate'[m] = "withdrawn" /\ fateTurn'[m] = ThisTurn /\ sent'[m].turn = 0
           /\ fate[m] = "claimed" /\ reason # "completed"
  BY <1>2, <1>4
<1> QED
  BY <1>4, <1>5, EndTurnKeeps

LEMMA RejectKeeps ==
  ASSUME LoopInv, Reject
  PROVE  LoopInv'
<1>1. /\ pc \in InTurn /\ EndTurn("blocked") /\ Withdraw /\ exit' \in Exits
      /\ "blocked" \in Ends /\ "blocked" # "completed"
  BY DEF Reject, InTurn, Exits, Ends
<1> QED
  BY <1>1, WithdrawKeeps

LEMMA UnwindKeeps ==
  ASSUME LoopInv, Unwind
  PROVE  LoopInv'
<1>1. /\ pc \in InTurn /\ EndTurn("aborted") /\ Withdraw /\ exit' \in Exits
      /\ "aborted" \in Ends /\ "aborted" # "completed"
  BY DEF Unwind, Thrown, InTurn, Exits, Ends
<1> QED
  BY <1>1, WithdrawKeeps

LEMMA FailedKeeps ==
  ASSUME LoopInv, Failed
  PROVE  LoopInv'
<1>1. /\ pc \in InTurn /\ EndTurn("error") /\ Withdraw /\ exit' \in Exits
      /\ "error" \in Ends /\ "error" # "completed"
  BY DEF Failed, InTurn, Exits, Ends
<1> QED
  BY <1>1, WithdrawKeeps

\* Nothing left to run: what was claimed has been rewritten away by a listener.
LEMMA EnterNothingKeeps ==
  ASSUME LoopInv, EnterNothing
  PROVE  LoopInv'
<1> DEFINE reason == IF turnEnds = "none" THEN "completed" ELSE turnEnds
           ms == Inputs(batch)
<1>1. pc \in InTurn /\ EndTurn(reason) /\ exit' \in Exits /\ Become(ms, "rewritten")
  BY DEF EnterNothing, InTurn, Exits
<1>2. reason \in Ends
  BY DEF LoopInv, LoopTypeOK, Ends
<1> HIDE DEF reason
<1>3. \A m \in Messages : fate[m] = "claimed" => m \in ms
  BY DEF LoopInv, AccountInv, Covered
<1> HIDE DEF ms
<1>4. "rewritten" \in Fates /\ "rewritten" # "pending"
  BY DEF Fates
<1>5. /\ fate' \in [Messages -> Fates] /\ fateTurn' \in [Messages -> Nat]
      /\ sent' \in [Messages -> [to : Activities, woke : BOOLEAN, turn : Nat]]
      /\ \A m \in Messages :
           IF m \in ms
           THEN fate'[m] = "rewritten" /\ fateTurn'[m] = ThisTurn /\ sent'[m].turn = 0
           ELSE fate'[m] = fate[m] /\ fateTurn'[m] = fateTurn[m] /\ sent'[m] = sent[m]
  BY <1>1, <1>4, BecomeFacts
<1>6. \A m \in Messages :
        \/ /\ fate'[m] = fate[m] /\ fateTurn'[m] = fateTurn[m] /\ sent'[m] = sent[m]
           /\ fate[m] # "claimed"
        \/ /\ fate'[m] = "rewritten" /\ fateTurn'[m] = ThisTurn /\ sent'[m].turn = 0
  BY <1>3, <1>5
<1> QED
  BY <1>1, <1>2, <1>5, <1>6, EndTurnKeeps

LEMMA StopKeeps ==
  ASSUME LoopInv, Stop
  PROVE  LoopInv'
<1>1. /\ pc \in InTurn /\ EndTurn(turnEnds) /\ exit' \in Exits /\ UNCHANGED inputVars
      /\ pc = "stopping"
  BY DEF Stop, InTurn, Exits
<1>2. turnEnds \in Ends
  BY DEF LoopInv, LoopTypeOK
<1>3. \A m \in Messages : fate[m] # "claimed"
  BY <1>1 DEF LoopInv, AccountInv, Covered
<1>4. /\ fate' \in [Messages -> Fates] /\ fateTurn' \in [Messages -> Nat]
      /\ sent' \in [Messages -> [to : Activities, woke : BOOLEAN, turn : Nat]]
  BY <1>1 DEF LoopInv, LoopTypeOK, inputVars
<1>5. \A m \in Messages :
        /\ fate'[m] = fate[m] /\ fateTurn'[m] = fateTurn[m] /\ sent'[m] = sent[m]
        /\ fate[m] # "claimed"
  BY <1>1, <1>3 DEF inputVars
<1> QED
  BY <1>1, <1>2, <1>4, <1>5, EndTurnKeeps

LEMMA StartMaintenanceKeeps ==
  ASSUME LoopInv, StartMaintenance
  PROVE  LoopInv'
<1> USE LoopConstants DEF LoopInv, StartMaintenance, Aborted, IsIdle, inputVars, turnVars, closing
<1>1. LoopTypeOK'
BY DEF LoopTypeOK, Busy, Causes
<1>2. TurnInv'
BY DEF LoopTypeOK, TurnInv, InTurn, Busy, Causes
<1>3. QueueInv' /\ SentInv' /\ DisposedInv' /\ ClearInv'
BY DEF LoopTypeOK, QueueInv, SentInv, DisposedInv, ClearInv, Late, Pending, Busy
<1>4. OwedInv'
BY DEF LoopTypeOK, TurnInv, SentInv, OwedInv, Owed, Framed, Late, Pending, InTurn, Busy
<1>5. AccountInv'
BY DEF LoopTypeOK, TurnInv, AccountInv, Covered, ThisTurn, InTurn, Busy
<1> QED
  BY <1>1, <1>2, <1>3, <1>4, <1>5

LEMMA DisposedKeeps ==
  ASSUME LoopInv, Disposed
  PROVE  LoopInv'
<1> USE LoopConstants DEF LoopInv, Disposed, Aborted, IsIdle, inputVars, turnVars, closing
<1>1. LoopTypeOK'
BY DEF LoopTypeOK
<1>2. TurnInv'
BY DEF LoopTypeOK, TurnInv, InTurn
<1>3. QueueInv' /\ SentInv' /\ DisposedInv' /\ ClearInv'
BY DEF LoopTypeOK, QueueInv, SentInv, DisposedInv, ClearInv, Late, Pending
<1>4. OwedInv'
BY DEF LoopTypeOK, TurnInv, SentInv, OwedInv, Owed, Framed, Late, Pending, InTurn
<1>5. AccountInv'
BY DEF LoopTypeOK, TurnInv, AccountInv, Covered, ThisTurn, InTurn
<1> QED
  BY <1>1, <1>2, <1>3, <1>4, <1>5

LEMMA OpenTurnKeeps ==
  ASSUME LoopInv, OpenTurn
  PROVE  LoopInv'
<1> USE LoopConstants DEF LoopInv, OpenTurn, Aborted, IsIdle, inputVars, turnVars, closing
<1>1. LoopTypeOK'
BY DEF LoopTypeOK, DriverPlaces, Exits, Ends
<1>2. TurnInv'
BY DEF LoopTypeOK, TurnInv, InTurn, DriverPlaces
<1>3. QueueInv' /\ SentInv' /\ DisposedInv' /\ ClearInv'
BY DEF LoopTypeOK, QueueInv, SentInv, DisposedInv, ClearInv, Late, Pending
<1>4. OwedInv'
BY DEF LoopTypeOK, TurnInv, SentInv, OwedInv, Owed, Framed, Late, Pending, InTurn,
     DriverPlaces
<1>5. AccountInv'
BY DEF LoopTypeOK, TurnInv, AccountInv, Covered, ThisTurn, InTurn
<1> QED
  BY <1>1, <1>2, <1>3, <1>4, <1>5

LEMMA RetryKeeps ==
  ASSUME LoopInv, Retry
  PROVE  LoopInv'
<1> USE LoopConstants DEF LoopInv, Retry, Aborted, IsIdle, inputVars, turnVars, closing
<1>1. LoopTypeOK'
BY DEF LoopTypeOK
<1>2. TurnInv'
BY DEF LoopTypeOK, TurnInv, InTurn
<1>3. QueueInv' /\ SentInv' /\ DisposedInv' /\ ClearInv'
BY DEF LoopTypeOK, QueueInv, SentInv, DisposedInv, ClearInv, Late, Pending
<1>4. OwedInv'
BY DEF LoopTypeOK, TurnInv, SentInv, OwedInv, Owed, Framed, Late, Pending, InTurn
<1>5. AccountInv'
BY DEF LoopTypeOK, TurnInv, AccountInv, Covered, ThisTurn, InTurn
<1> QED
  BY <1>1, <1>2, <1>3, <1>4, <1>5

LEMMA AnswerKeeps ==
  ASSUME LoopInv, NEW end \in {"completed", "max-tokens"}, Answer(end)
  PROVE  LoopInv'
<1> USE LoopConstants DEF LoopInv, Answer, Aborted, IsIdle, inputVars, turnVars, closing
<1>1. LoopTypeOK'
  <2>1. retries' \in 0 .. MaxRetries BY DEF EndStep
  <2>2. turnEnds' \in Ends BY DEF LoopTypeOK, EndStep, Ends
  <2> QED BY <2>1, <2>2 DEF LoopTypeOK, EndStep, DriverPlaces
<1>2. TurnInv'
BY DEF LoopTypeOK, TurnInv, InTurn, EndStep, DriverPlaces
<1>3. QueueInv' /\ SentInv' /\ DisposedInv' /\ ClearInv'
BY DEF LoopTypeOK, QueueInv, SentInv, DisposedInv, ClearInv, Late, Pending, EndStep
<1>4. OwedInv'
BY DEF LoopTypeOK, TurnInv, SentInv, OwedInv, Owed, Framed, Late, Pending, InTurn, EndStep,
     DriverPlaces
<1>5. AccountInv'
BY DEF LoopTypeOK, TurnInv, AccountInv, Covered, ThisTurn, InTurn, EndStep
<1> QED
  BY <1>1, <1>2, <1>3, <1>4, <1>5

LEMMA CallToolsKeeps ==
  ASSUME LoopInv, NEW n \in 1 .. MaxCalls, CallTools(n)
  PROVE  LoopInv'
<1> USE LoopConstants DEF LoopInv, CallTools, Aborted, IsIdle, inputVars, turnVars, closing
<1>1. LoopTypeOK'
BY DEF LoopTypeOK, DriverPlaces
<1>2. TurnInv'
BY DEF LoopTypeOK, TurnInv, InTurn, DriverPlaces
<1>3. QueueInv' /\ SentInv' /\ DisposedInv' /\ ClearInv'
BY DEF LoopTypeOK, QueueInv, SentInv, DisposedInv, ClearInv, Late, Pending
<1>4. OwedInv'
BY DEF LoopTypeOK, TurnInv, SentInv, OwedInv, Owed, Framed, Late, Pending, InTurn,
     DriverPlaces
<1>5. AccountInv'
BY DEF LoopTypeOK, TurnInv, AccountInv, Covered, ThisTurn, InTurn
<1> QED
  BY <1>1, <1>2, <1>3, <1>4, <1>5

LEMMA ToolsReturnKeeps ==
  ASSUME LoopInv, ToolsReturn
  PROVE  LoopInv'
<1> USE LoopConstants DEF LoopInv, ToolsReturn, Aborted, IsIdle, inputVars, turnVars, closing
<1>1. LoopTypeOK'
  <2>1. retries' \in 0 .. MaxRetries BY DEF EndStep
  <2>2. turnEnds' \in Ends BY DEF LoopTypeOK, EndStep, Ends
  <2> QED BY <2>1, <2>2 DEF LoopTypeOK, EndStep, DriverPlaces
<1>2. TurnInv'
BY DEF LoopTypeOK, TurnInv, InTurn, EndStep, DriverPlaces
<1>3. QueueInv' /\ SentInv' /\ DisposedInv' /\ ClearInv'
BY DEF LoopTypeOK, QueueInv, SentInv, DisposedInv, ClearInv, Late, Pending, EndStep
<1>4. OwedInv'
BY DEF LoopTypeOK, TurnInv, SentInv, OwedInv, Owed, Framed, Late, Pending, InTurn, EndStep,
     DriverPlaces
<1>5. AccountInv'
BY DEF LoopTypeOK, TurnInv, AccountInv, Covered, ThisTurn, InTurn, EndStep
<1> QED
  BY <1>1, <1>2, <1>3, <1>4, <1>5

LEMMA AfterStepKeeps ==
  ASSUME LoopInv, AfterStep
  PROVE  LoopInv'
<1> USE LoopConstants DEF LoopInv, AfterStep, Aborted, IsIdle, inputVars, turnVars, closing
<1>1. LoopTypeOK'
BY DEF LoopTypeOK, GoOn, DriverPlaces
<1>2. TurnInv'
BY DEF LoopTypeOK, TurnInv, InTurn, GoOn, DriverPlaces
<1>3. QueueInv' /\ SentInv' /\ DisposedInv' /\ ClearInv'
BY DEF LoopTypeOK, QueueInv, SentInv, DisposedInv, ClearInv, Late, Pending, GoOn
<1>4. OwedInv'
BY DEF LoopTypeOK, TurnInv, SentInv, OwedInv, Owed, Framed, Late, Pending, InTurn, GoOn,
     DriverPlaces
<1>5. AccountInv'
BY DEF LoopTypeOK, TurnInv, AccountInv, Covered, ThisTurn, InTurn, GoOn
<1> QED
  BY <1>1, <1>2, <1>3, <1>4, <1>5

LEMMA SteeredKeeps ==
  ASSUME LoopInv, Steered
  PROVE  LoopInv'
<1> USE LoopConstants DEF LoopInv, Steered, Aborted, IsIdle, inputVars, turnVars, closing
<1>1. LoopTypeOK'
BY DEF LoopTypeOK, GoOn, DriverPlaces
<1>2. TurnInv'
BY DEF LoopTypeOK, TurnInv, InTurn, GoOn, DriverPlaces
<1>3. QueueInv' /\ SentInv' /\ DisposedInv' /\ ClearInv'
BY DEF LoopTypeOK, QueueInv, SentInv, DisposedInv, ClearInv, Late, Pending, GoOn
<1>4. OwedInv'
BY DEF LoopTypeOK, TurnInv, SentInv, OwedInv, Owed, Framed, Late, Pending, InTurn, GoOn,
     DriverPlaces
<1>5. AccountInv'
BY DEF LoopTypeOK, TurnInv, AccountInv, Covered, ThisTurn, InTurn, GoOn
<1> QED
  BY <1>1, <1>2, <1>3, <1>4, <1>5

LEMMA NextTurnKeeps ==
  ASSUME LoopInv, NextTurn
  PROVE  LoopInv'
<1> USE LoopConstants DEF LoopInv, NextTurn, Aborted, IsIdle, inputVars, turnVars, closing
<1>1. LoopTypeOK'
BY DEF LoopTypeOK, Busy, Causes, DriverPlaces
<1>2. TurnInv'
BY DEF LoopTypeOK, TurnInv, InTurn, Busy, Causes, DriverPlaces
<1>3. QueueInv' /\ SentInv' /\ DisposedInv' /\ ClearInv'
BY DEF LoopTypeOK, QueueInv, SentInv, DisposedInv, ClearInv, Late, Pending, Busy
<1>4. OwedInv'
BY DEF LoopTypeOK, TurnInv, SentInv, OwedInv, Owed, Framed, Late, Pending, InTurn, Busy,
     DriverPlaces
<1>5. AccountInv'
BY DEF LoopTypeOK, TurnInv, AccountInv, Covered, ThisTurn, InTurn, Busy
<1> QED
  BY <1>1, <1>2, <1>3, <1>4, <1>5

LEMMA NoMoreTurnsKeeps ==
  ASSUME LoopInv, NoMoreTurns
  PROVE  LoopInv'
<1> USE LoopConstants DEF LoopInv, NoMoreTurns, Aborted, IsIdle, inputVars, turnVars, closing
<1>1. LoopTypeOK'
BY DEF LoopTypeOK, DriverPlaces, Exits
<1>2. TurnInv'
BY DEF LoopTypeOK, TurnInv, InTurn, DriverPlaces
<1>3. QueueInv' /\ SentInv' /\ DisposedInv' /\ ClearInv'
BY DEF LoopTypeOK, QueueInv, SentInv, DisposedInv, ClearInv, Late, Pending
<1>4. OwedInv'
BY DEF LoopTypeOK, TurnInv, SentInv, OwedInv, Owed, Framed, Late, Pending, InTurn,
     DriverPlaces
<1>5. AccountInv'
BY DEF LoopTypeOK, TurnInv, AccountInv, Covered, ThisTurn, InTurn
<1> QED
  BY <1>1, <1>2, <1>3, <1>4, <1>5

LEMMA LeaveKeeps ==
  ASSUME LoopInv, Leave, calls = <<>>
  PROVE  LoopInv'
<1> USE LoopConstants DEF LoopInv, Leave, Aborted, IsIdle, inputVars, turnVars, closing
<1>1. LoopTypeOK'
BY DEF LoopTypeOK, Idle, Causes, Ends, DriverPlaces
<1>2. TurnInv'
BY DEF LoopTypeOK, TurnInv, InTurn, Idle, Causes, DriverPlaces
<1>3. QueueInv' /\ SentInv' /\ DisposedInv' /\ ClearInv'
BY DEF LoopTypeOK, QueueInv, SentInv, DisposedInv, ClearInv, Late, Pending, Idle
<1>4. OwedInv'
BY DEF LoopTypeOK, TurnInv, SentInv, OwedInv, Owed, Framed, Late, Pending, InTurn, Idle,
     DriverPlaces, On, OnLate
<1>5. AccountInv'
BY DEF LoopTypeOK, TurnInv, AccountInv, Covered, ThisTurn, InTurn, Idle
<1> QED
  BY <1>1, <1>2, <1>3, <1>4, <1>5

-----------------------------------------------------------------------------
(* The calls of a step.                                                     *)

\* The scheduler's definitions are the same under both names of its module.
LEMMA SameTools ==
  /\ Tools!NoCalls <=> P!NoCalls
  /\ \A n : Tools!Plan(n) <=> P!Plan(n)
  /\ Tools!Forget <=> P!Forget
  /\ \A c : Tools!Commit(c) <=> P!Commit(c)
  /\ Tools!SchedulerStep <=> P!SchedulerStep
  /\ Tools!BodyStep <=> P!BodyStep
  /\ Tools!ToolTypeOK <=> P!ToolTypeOK
<1>1. Tools!Calls = P!Calls /\ Tools!Modes = P!Modes /\ Tools!SlotStates = P!SlotStates
      /\ Tools!Places = P!Places /\ Tools!Settled = P!Settled
  BY DEF Tools!Calls, P!Calls, Tools!Modes, P!Modes, Tools!SlotStates, P!SlotStates,
     Tools!Places, P!Places, Tools!Settled, P!Settled
<1>2. Tools!Uncommitted = P!Uncommitted /\ Tools!Front = P!Front
      /\ (Tools!Ready <=> P!Ready) /\ (Tools!MayStart <=> P!MayStart)
  <2>1. Tools!Uncommitted = P!Uncommitted
    BY DEF Tools!Uncommitted, P!Uncommitted
  <2>2. Tools!Front = P!Front
    BY <2>1 DEF Tools!Front, P!Front
  <2>3. Tools!Ready <=> P!Ready
    BY <2>1, <2>2 DEF Tools!Ready, P!Ready
  <2>4. Tools!MayStart <=> P!MayStart
    BY DEF Tools!MayStart, P!MayStart, Tools!Cardinality, P!Cardinality
  <2> QED
    BY <2>1, <2>2, <2>3, <2>4
<1>3. /\ Tools!NoCalls <=> P!NoCalls
      /\ \A n : Tools!Plan(n) <=> P!Plan(n)
      /\ Tools!Forget <=> P!Forget
      /\ \A c : Tools!Commit(c) <=> P!Commit(c)
  BY <1>1, <1>2 DEF Tools!NoCalls, P!NoCalls, Tools!Plan, P!Plan, Tools!Forget, P!Forget,
     Tools!Commit, P!Commit
<1>4. /\ \A m : Tools!OpenGroup(m) <=> P!OpenGroup(m)
      /\ Tools!Return <=> P!Return
      /\ Tools!StartCall <=> P!StartCall
      /\ Tools!StopFilling <=> P!StopFilling
      /\ \A b : Tools!Prepared(b) <=> P!Prepared(b)
      /\ Tools!PrepareFails <=> P!PrepareFails
      /\ Tools!FinalizeFails <=> P!FinalizeFails
      /\ Tools!Committed <=> P!Committed
      /\ \A c : Tools!Observe(c) <=> P!Observe(c)
      /\ Tools!CloseGroup <=> P!CloseGroup
      /\ Tools!SkipRest <=> P!SkipRest
      /\ Tools!Drained <=> P!Drained
  BY <1>1, <1>2
     DEF Tools!OpenGroup, P!OpenGroup, Tools!Return, P!Return, Tools!StartCall, P!StartCall,
         Tools!StopFilling, P!StopFilling, Tools!Prepared, P!Prepared,
         Tools!PrepareFails, P!PrepareFails, Tools!FinalizeFails, P!FinalizeFails,
         Tools!Committed, P!Committed, Tools!Observe, P!Observe,
         Tools!CloseGroup, P!CloseGroup, Tools!SkipRest, P!SkipRest,
         Tools!Drained, P!Drained
<1>5. Tools!SchedulerStep <=> P!SchedulerStep
  BY <1>1, <1>4 DEF Tools!SchedulerStep, P!SchedulerStep
<1>6. Tools!BodyStep <=> P!BodyStep
  BY <1>1 DEF Tools!BodyStep, P!BodyStep, Tools!Land, P!Land, Tools!Break, P!Break
<1>7. Tools!ToolTypeOK <=> P!ToolTypeOK
  BY <1>1 DEF Tools!ToolTypeOK, P!ToolTypeOK
<1> QED
  BY <1>3, <1>5, <1>6, <1>7

\* The rest of the driver leaves the scheduler alone, save for the signal.
LEMMA ToolsRest ==
  ASSUME ToolsInv, P!Inv, UNCHANGED toolVars, at # "fill", pc' = "tools" <=> pc = "tools"
  PROVE  ToolsInv' /\ P!Inv'
<1>1. P!Inv'
  BY P!SignalKeeps, LoopConstants DEF LoopConstants, toolVars, P!toolVars
<1>2. ToolsInv'
  BY DEF ToolsInv, toolVars
<1> QED
  BY <1>1, <1>2

\* Neither the driver nor the scheduler moves.
LEMMA ToolsStill ==
  ASSUME ToolsInv, P!Inv, UNCHANGED toolVars, phase' = phase, pc' = pc, calls' = calls
  PROVE  ToolsInv' /\ P!Inv'
<1>1. P!Inv'
  BY P!NextKeeps, LoopConstants DEF LoopConstants, toolVars, P!toolVars
<1>2. ToolsInv'
  BY DEF ToolsInv, toolVars
<1> QED
  BY <1>1, <1>2

\* The outcome of a step's calls is taken: none of them is left running.
LEMMA ToolsForgotten ==
  ASSUME Tools!Forget, pc' # "tools"
  PROVE  ToolsInv' /\ P!Inv'
<1>1. P!Inv'
  BY SameTools, P!ForgetKeeps, LoopConstants DEF LoopConstants
<1>2. ToolsInv'
  BY DEF ToolsInv, Tools!Forget
<1> QED
  BY <1>1, <1>2

\* A step's calls are handed to an idle scheduler.
LEMMA ToolsPlanned ==
  ASSUME P!Inv, calls = <<>>, NEW n \in 1 .. MaxCalls, CallTools(n)
  PROVE  ToolsInv' /\ P!Inv'
<1>1. Tools!Plan(n) /\ pc' = "tools" /\ phase' = phase /\ calls' = <<>>
  BY DEF CallTools, closing
<1>2. P!Inv'
  BY <1>1, SameTools, P!PlanKeeps, LoopConstants DEF LoopConstants
<1>3. ToolsInv'
  BY <1>1 DEF ToolsInv, Tools!Plan
<1> QED
  BY <1>2, <1>3

\* The scheduler, its commits and the bodies take steps of their own module.
LEMMA ToolsStep ==
  ASSUME ToolsInv, P!Inv, phase' = phase, pc' = pc, calls' = <<>>,
         \/ Tools!SchedulerStep
         \/ \E c \in BOOLEAN : Tools!Commit(c)
         \/ ~Tools!Synchronous /\ Tools!BodyStep
  PROVE  ToolsInv' /\ P!Inv'
<1>1. P!Next
  BY SameTools DEF P!Next, P!Scheduler, P!Bodies, Tools!Synchronous, P!Synchronous
<1>2. P!Inv'
  BY <1>1, P!NextKeeps, LoopConstants DEF LoopConstants
<1>3. (at # "off") <=> (at' # "off")
  BY DEF Tools!SchedulerStep, Tools!Commit, Tools!BodyStep, Tools!Land, Tools!Break,
     Tools!OpenGroup, Tools!Return, Tools!StartCall, Tools!StopFilling, Tools!Prepared,
     Tools!PrepareFails, Tools!FinalizeFails, Tools!Committed, Tools!Observe,
     Tools!CloseGroup, Tools!SkipRest, Tools!Drained
<1>4. ToolsInv'
  BY <1>3 DEF ToolsInv
<1> QED
  BY <1>2, <1>4

-----------------------------------------------------------------------------
(* The invariant.                                                           *)

LEMMA InitHolds == Init => Inv
<1> SUFFICES ASSUME Init PROVE Inv
  OBVIOUS
<1> USE DEF Init
<1>1. LoopTypeOK
  <2>1. <<>> \in Seq(Messages) /\ <<>> \in Seq(Messages \cup {Context})
    OBVIOUS
  <2>2. phase \in Phases /\ phase.kind = "idle"
    BY DEF Idle, Phases, Causes
  <2>3. inbox \in [nextTurn : Seq(Messages), nextStep : Seq(Messages \cup {Context})]
    BY <2>1
  <2>4. /\ fate \in [Messages -> Fates] /\ fateTurn \in [Messages -> Nat]
        /\ sent \in [Messages -> [to : Activities, woke : BOOLEAN, turn : Nat]]
    BY DEF Fates, Activities, NotPending
  <2>5. /\ pc \in DriverPlaces \cup {"none"} /\ replay \in BOOLEAN
        /\ target \in {"nextTurn", "nextStep"} /\ batch \in Seq(Messages \cup {Context})
        /\ turnEnds \in Ends /\ retries \in 0 .. MaxRetries
        /\ openTurn \in Nat /\ openStep \in BOOLEAN
        /\ exit \in Exits /\ teardown \in {"no", "waiting", "done"} /\ calls \in Seq(Frames)
    <3>1. 0 \in 0 .. MaxRetries /\ 0 \in Nat /\ <<>> \in Seq(Frames)
      BY LoopConstants
    <3> QED
      BY <2>1, <3>1 DEF Ends, Exits
  <2>6. account \in [stepped : BOOLEAN, claimed : BOOLEAN, end : Nat, dropped : BOOLEAN]
    OBVIOUS
  <2> QED
    BY <2>2, <2>3, <2>4, <2>5, <2>6 DEF LoopTypeOK, Phases
<1>2. TurnInv
  BY DEF TurnInv, InTurn, Idle, IsIdle
<1>3. QueueInv /\ DisposedInv /\ ClearInv /\ OwedInv
  BY DEF QueueInv, DisposedInv, ClearInv, OwedInv, Late, Pending
<1>4. SentInv
  BY DEF SentInv, NotPending, Idle
<1>5. AccountInv
  BY DEF AccountInv, Covered, ThisTurn, Idle
<1>6. ToolsInv /\ P!Inv
  <2>1. Tools!NoCalls
    OBVIOUS
  <2>2. P!Inv
    BY <2>1, SameTools, P!NoCallsInv, LoopConstants DEF LoopConstants
  <2> QED
    BY <2>1, <2>2 DEF ToolsInv, Tools!NoCalls
<1> QED
  BY <1>1, <1>2, <1>3, <1>4, <1>5, <1>6 DEF Inv, LoopInv

\* What the rest of the program does keeps the invariant.
LEMMA OthersKeep ==
  ASSUME Inv, Others
  PROVE  Inv'
<1> USE DEF Inv
<1>1. at # "fill"
  BY DEF Others, Tools!Synchronous
<1>2. LoopInv'
  BY SendKeeps, RemoveKeeps, CancelKeeps, CancelKeptKeeps, StartMaintenanceKeeps, DisposeKeeps
     DEF Others
<1>3. UNCHANGED toolVars
  BY DEF Others, Send, Remove, Cancel, CancelKept, StartMaintenance, Dispose
<1>4. pc' = "tools" <=> pc = "tools"
  BY DEF Others, Send, Remove, Cancel, CancelKept, StartMaintenance, Dispose
<1> QED
  BY <1>1, <1>2, <1>3, <1>4, ToolsRest

\* What goes on behind its listeners keeps the invariant.
LEMMA CallsKeep ==
  ASSUME Inv, Wake \/ GoOnClearing
  PROVE  Inv'
<1> USE DEF Inv
<1>1. at # "fill"
  BY DEF Wake, GoOnClearing, Returns, ToolsInv
<1>2. LoopInv'
  BY WakeKeeps, GoOnClearingKeeps
<1>3. UNCHANGED toolVars
  BY DEF Wake, GoOnClearing
<1>4. pc' = "tools" <=> pc = "tools"
  BY DEF Wake, GoOnClearing, WakeDriver, IsIdle, LoopInv, LoopTypeOK
<1> QED
  BY <1>1, <1>2, <1>3, <1>4, ToolsRest

\* A step of the driver within its turn keeps the invariant.
\* A turn thrown out of by its signal, its tool calls drained.
LEMMA UnwindStepKeeps ==
  ASSUME Inv, Unwind
  PROVE  Inv'
<1> USE DEF Inv
<1>1. LoopInv' /\ pc' = "ended"
  BY UnwindKeeps DEF Unwind, EndTurn
<1>2. CASE pc = "tools"
  BY <1>1, <1>2, ToolsForgotten DEF Unwind, ForgetTools
<1>3. CASE pc # "tools"
  <2>1. UNCHANGED toolVars /\ at # "fill"
    BY <1>3 DEF Unwind, ForgetTools, ToolsInv
  <2> QED
    BY <1>1, <1>3, <2>1, ToolsRest
<1> QED
  BY <1>2, <1>3

LEMMA TurnStepKeeps ==
  ASSUME Inv, calls = <<>>, TurnStep
  PROVE  Inv'
<1> USE DEF Inv
<1>1. CASE \E n \in 1 .. MaxCalls : CallTools(n)
  BY <1>1, CallToolsKeeps, ToolsPlanned
<1>2. CASE ToolsReturn
  BY <1>2, ToolsReturnKeeps, ToolsForgotten DEF ToolsReturn, EndStep
<1>3. CASE Fail
  <2>1. LoopInv' /\ pc' = "failing"
    BY <1>3, FailKeeps DEF Fail
  <2>2. CASE pc = "tools"
    BY <1>3, <2>1, <2>2, ToolsForgotten DEF Fail, ForgetTools
  <2>3. CASE pc # "tools"
    <3>1. UNCHANGED toolVars /\ at # "fill"
      BY <1>3, <2>3 DEF Fail, ForgetTools, ToolsInv
    <3> QED
      BY <2>1, <2>3, <3>1, ToolsRest
  <2> QED
    BY <2>2, <2>3
<1>4. CASE \/ Reject \/ EnterNothing \/ \E kept \in BOOLEAN : EnterStep(kept)
           \/ Retry \/ \E end \in {"completed", "max-tokens"} : Answer(end)
           \/ AfterStep \/ Steered \/ Stop \/ Failed \/ NextTurn \/ NoMoreTurns \/ Leave
  <2>1. LoopInv'
    BY <1>4, RejectKeeps, EnterNothingKeeps, EnterStepKeeps, RetryKeeps, AnswerKeeps,
       AfterStepKeeps, SteeredKeeps, StopKeeps, FailedKeeps, NextTurnKeeps,
       NoMoreTurnsKeeps, LeaveKeeps
  <2>2. UNCHANGED toolVars /\ pc # "tools" /\ pc' # "tools"
    BY <1>4 DEF Reject, EnterNothing, EnterStep, Retry, Answer, AfterStep, Steered, Stop,
       Failed, NextTurn, NoMoreTurns, Leave, EndTurn, EndStep, GoOn
  <2>3. at # "fill"
    BY <2>2 DEF ToolsInv
  <2> QED
    BY <2>1, <2>2, <2>3, ToolsRest
<1> QED
  BY <1>1, <1>2, <1>3, <1>3, <1>4 DEF TurnStep

LEMMA DriverStepKeeps ==
  ASSUME Inv, DriverStep
  PROVE  Inv'
<1> USE DEF Inv
<1>1. CASE OpenTurn \/ Claim
  <2>1. LoopInv'
    BY <1>1, OpenTurnKeeps, ClaimKeeps
  <2>2. UNCHANGED toolVars /\ pc # "tools" /\ pc' # "tools"
    BY <1>1 DEF OpenTurn, Claim
  <2>3. at # "fill"
    BY <2>2 DEF ToolsInv
  <2> QED
    BY <2>1, <2>2, <2>3, ToolsRest
<1>2. CASE calls = <<>> /\ Replay
  <2>1. LoopInv'
    BY <1>2, ReplayKeeps
  <2>2. UNCHANGED toolVars /\ calls' = calls
    BY <1>2 DEF Replay, closing
  <2>3. pc' = pc \/ (pc = "none" /\ pc' = "opening")
    BY <1>2 DEF Replay, WakeDriver, IsIdle, LoopInv, LoopTypeOK
  <2>4. CASE phase' = phase /\ pc' = pc
    BY <2>1, <2>2, <2>4, ToolsStill
  <2>5. CASE ~(phase' = phase /\ pc' = pc)
    <3>1. phase.kind # "running"
      BY <1>2, <2>5 DEF Replay, WakeDriver, IsIdle, Latches
    <3>2. pc = "none"
      BY <3>1 DEF LoopInv, LoopTypeOK
    <3>3. at # "fill" /\ (pc' = "tools" <=> pc = "tools")
      BY <2>3, <3>2 DEF ToolsInv
    <3> QED
      BY <2>1, <2>2, <3>3, ToolsRest
  <2> QED
    BY <2>4, <2>5
<1>3. CASE calls = <<>> /\ TurnStep
  BY <1>3, TurnStepKeeps
<1>4. CASE calls = <<>> /\ Tools!SchedulerStep /\ OnlyTools
  <2>1. LoopInv' /\ phase' = phase /\ pc' = pc /\ calls' = <<>>
    BY <1>4, OnlyToolsKeeps DEF OnlyTools, closing
  <2> QED
    BY <1>4, <2>1, ToolsStep
<1>5. CASE calls = <<>> /\ \E c, s \in BOOLEAN : CommitResult(c, s)
  <2>1. PICK c \in BOOLEAN, s \in BOOLEAN : CommitResult(c, s)
    BY <1>5
  <2>2. LoopInv' /\ phase' = phase /\ pc' = pc /\ calls' = <<>> /\ Tools!Commit(c)
    BY <1>5, <2>1, CommitResultKeeps DEF CommitResult, closing
  <2> QED
    BY <2>2, ToolsStep
<1>6. CASE Unwind
  BY <1>6, UnwindStepKeeps
<1> QED
  BY <1>1, <1>2, <1>3, <1>4, <1>5, <1>6 DEF DriverStep, ToolStep

\* Every step of the agent and of those who call it keeps the invariant.
LEMMA NextKeeps == Inv /\ [Next]_vars => Inv'
<1> SUFFICES ASSUME Inv, [Next]_vars PROVE Inv'
  OBVIOUS
<1> USE DEF Inv
<1>1. CASE Others
  BY <1>1, OthersKeep
<1>2. CASE DriverStep
  BY <1>2, DriverStepKeeps
<1>3. CASE Disposed
  <2>1. LoopInv' /\ UNCHANGED toolVars /\ phase' = phase /\ pc' = pc /\ calls' = calls
    BY <1>3, DisposedKeeps DEF Disposed
  <2> QED
    BY <2>1, ToolsStill
<1>4. CASE EndMaintenance
  <2>1. LoopInv' /\ UNCHANGED toolVars
    BY <1>4, EndMaintenanceKeeps DEF EndMaintenance
  <2>2. pc # "tools" /\ pc' # "tools"
    BY <1>4 DEF EndMaintenance, LoopInv, LoopTypeOK
  <2>3. at # "fill"
    BY <2>2 DEF ToolsInv
  <2> QED
    BY <2>1, <2>2, <2>3, ToolsRest
<1>5. CASE BodyStep
  <2>1. LoopInv' /\ phase' = phase /\ pc' = pc /\ calls' = <<>>
    BY <1>5, OnlyToolsKeeps DEF BodyStep, OnlyTools, closing
  <2> QED
    BY <1>5, <2>1, ToolsStep DEF BodyStep
<1>6. CASE UNCHANGED vars
  <2>1. LoopInv' /\ UNCHANGED toolVars /\ phase' = phase /\ pc' = pc /\ calls' = calls
    BY <1>6, OnlyToolsKeeps DEF vars, OnlyTools, closing
  <2> QED
    BY <2>1, ToolsStill
<1>7. CASE Wake \/ GoOnClearing
  BY <1>7, CallsKeep
<1> QED
  BY <1>1, <1>2, <1>3, <1>4, <1>5, <1>6, <1>7 DEF Next

-----------------------------------------------------------------------------
(* The theorems.                                                            *)

\* The driver's invariant and the scheduler's hold together in every reachable state.
THEOREM Invariance == Spec => []Inv
<1> QED
  BY InitHolds, NextKeeps, PTL DEF Spec

\* Every variable of the driver and of its scheduler keeps its type.
THEOREM TypeCorrect == Spec => []TypeOK
<1>1. Inv => TypeOK
  BY SameTools DEF Inv, LoopInv, TypeOK, P!Inv, P!TypeInv
<1> QED
  BY <1>1, Invariance, PTL

(***************************************************************************)
(* Waking input behind a cancelled activity or maintenance has opened a    *)
(* turn once the agent is idle, unless that driver was cancelled too, and  *)
(* unless a listener of a clear sent it, which the property leaves out.    *)
(***************************************************************************)
THEOREM LateWakesCorrect == Spec => []LateWakesOpenATurn
<1>1. Inv => LateWakesOpenATurn
  <2> SUFFICES ASSUME Inv, Settled, NEW m \in Messages, Late(m)
               PROVE  phase.turn > sent[m].turn \/ exit = "unopened"
    BY DEF LateWakesOpenATurn, Late
  <2>1. Owed(m) /\ ~phase.wake /\ pc = "none" /\ ~replay /\ ~Framed
    BY DEF Framed, Inv, LoopInv, LoopTypeOK, OwedInv, TurnInv, Settled, IsIdle
  <2> QED
    BY <2>1 DEF Owed
<1> QED
  BY <1>1, Invariance, PTL

\* Between turns the fold of consumed work covers all that entered a turn or was dropped.
THEOREM WorkCorrect == Spec => []WorkAccountedFor
<1>1. Inv => WorkAccountedFor
  BY DEF Inv, LoopInv, AccountInv, Covered, WorkAccountedFor
<1> QED
  BY <1>1, Invariance, PTL

(***************************************************************************)
(* What ToolCallsProofs shows of the scheduler on its own holds under the  *)
(* driver, whose cancellations may abort the signal in any wait: the log   *)
(* has the results in model order, and outside a step no tool is running,  *)
(* so that a turn never ends, and the agent never goes idle, under one.    *)
(***************************************************************************)
THEOREM ToolsStayInTheirStep ==
  Spec => [](/\ Tools!ResultsInModelOrder
             /\ pc # "tools" => \A c \in 1 .. MaxCalls : slot[c] # "flying")
<1>1. Inv => /\ Tools!ResultsInModelOrder
             /\ pc # "tools" => \A c \in 1 .. MaxCalls : slot[c] # "flying"
  <2> SUFFICES ASSUME Inv
               PROVE  /\ Tools!ResultsInModelOrder
                      /\ pc # "tools" => \A c \in 1 .. MaxCalls : slot[c] # "flying"
    OBVIOUS
  <2>1. Tools!ResultsInModelOrder
    BY DEF Inv, P!Inv, P!LogInv, Tools!ResultsInModelOrder, P!Calls, Tools!Calls
  <2>2. ASSUME pc # "tools" PROVE \A c \in 1 .. MaxCalls : slot[c] # "flying"
    BY <2>2 DEF Inv, ToolsInv, P!Inv, P!PoolInv, P!Running, P!Filling, P!Calls
  <2> QED
    BY <2>1, <2>2
<1> QED
  BY <1>1, Invariance, PTL
=============================================================================
