------------------------ MODULE HarnessRuntimeProofs ------------------------
(***************************************************************************)
(* Theorems about HarnessRuntime, for every number of requests, models,    *)
(* tools, faults and turns of the agent.                                   *)
(*                                                                         *)
(* None of the invariants of the run is inductive.  That a harness is      *)
(* exclusive needs to know that a turn which drives one has marked it as   *)
(* running (DrivingRuns), and that a close which succeeded has left no     *)
(* process behind (ClosedIsGone).  That a failed client is evicted needs   *)
(* to know that the table holds no such client (TableIsFresh).  That       *)
(* answers are evidenced needs to know that what the bridge believes to    *)
(* have heard really happened in this turn of the agent (HeardIsProven).   *)
(***************************************************************************)
EXTENDS HarnessRuntime, SequenceTheorems, TLAPS

DrivingRuns ==
  \A t \in Turns : turn[t].at \in Driving =>
    turn[t].entry # 0 /\ harness[turn[t].entry].running

ClosedIsGone ==
  \A e \in Harnesses : harness[e].close = "done" => harness[e].child \in {"none", "gone"}

TableIsFresh == sessions # 0 => ~harness[sessions].unstarted

HeardIsProven == \A t \in Turns : turn[t].satisfied \subseteq turn[t].proven

Inv ==
  /\ TypeOK /\ DrivingRuns /\ ClosedIsGone /\ TableIsFresh /\ HeardIsProven
  /\ HarnessIsExclusive /\ FailedClientsAreEvicted /\ AnswersAreEvidenced

-----------------------------------------------------------------------------
(* What each change of a turn request's record leaves and sets.            *)

\* The fields the invariants read besides the place.
Alike(s, r) ==
  /\ s.entry = r.entry
  /\ s.satisfied = r.satisfied /\ s.proven = r.proven /\ s.unproven = r.unproven

LEMMA AtFields ==
  ASSUME NEW n \in Nat, NEW r \in TurnRecords(n), NEW a \in Places
  PROVE  At(r, a) \in TurnRecords(n) /\ At(r, a).at = a /\ Alike(At(r, a), r)
  BY DEF At, TurnRecords, Alike

LEMMA AwaitsFields ==
  ASSUME NEW n \in Nat, NEW r \in TurnRecords(n), NEW a \in Places, NEW e \in 0 .. n
  PROVE  /\ Awaits(r, a, e) \in TurnRecords(n)
         /\ Awaits(r, a, e).at = a /\ Alike(Awaits(r, a, e), r)
  BY DEF Awaits, TurnRecords, Alike

LEMMA ForgetsFields ==
  ASSUME NEW n \in Nat, NEW r \in TurnRecords(n), FirstModel \in Models
  PROVE  Forgets(r) \in TurnRecords(n) /\ Alike(Forgets(r), r)
<1>1. 0 \in 0 .. n OBVIOUS
<1> QED BY <1>1, Zenon DEF Forgets, TurnRecords, Alike

LEMMA KnowsFields ==
  ASSUME NEW n \in Nat, NEW r \in TurnRecords(n), NEW fp \in Models
  PROVE  /\ Knows(r, fp) \in TurnRecords(n)
         /\ Knows(r, fp).at = "answer" /\ Alike(Knows(r, fp), r)
  BY DEF Knows, TurnRecords, Alike, Places

LEMMA RefusedFields ==
  ASSUME NEW n \in Nat, NEW r \in TurnRecords(n), NEW why \in {"busy", "error"}
  PROVE  /\ Refused(r, why) \in TurnRecords(n)
         /\ Refused(r, why).at = "ended" /\ Alike(Refused(r, why), r)
  BY DEF Refused, TurnRecords, Alike, Places

LEMMA DrivesFields ==
  ASSUME NEW n \in Nat, NEW r \in TurnRecords(n), NEW a \in Places, NEW e \in 0 .. n
  PROVE  /\ Drives(r, e, a) \in TurnRecords(n)
         /\ Drives(r, e, a).at = a /\ Drives(r, e, a).entry = e
         /\ Drives(r, e, a).satisfied = r.satisfied
         /\ Drives(r, e, a).proven = r.proven
         /\ Drives(r, e, a).unproven = r.unproven
  BY DEF Drives, TurnRecords

LEMMA SendFields ==
  ASSUME NEW n \in Nat, NEW r \in TurnRecords(n), NEW kind \in {"delta", "completed"}
  PROVE  /\ Send(r, kind) \in TurnRecords(n)
         /\ Send(r, kind).at = r.at
         /\ Required \subseteq r.proven => Alike(Send(r, kind), r)
<1>1. (IF Required \subseteq r.proven THEN r.unproven ELSE r.unproven \cup {kind})
        \in SUBSET {"delta", "completed"}
  BY DEF TurnRecords
<1> QED BY <1>1, Zenon DEF Send, TurnRecords, Alike

LEMMA TellFields ==
  ASSUME NEW n \in Nat, NEW r \in TurnRecords(n), NEW kind \in Terminals
  PROVE  Tell(r, kind) \in TurnRecords(n) /\ Tell(r, kind).at = r.at /\ Alike(Tell(r,
      kind), r)
  BY DEF Tell, TurnRecords, Alike

LEMMA HearStartFields ==
  ASSUME NEW n \in Nat, NEW r \in TurnRecords(n)
  PROVE  /\ HearStart(r) \in TurnRecords(n)
         /\ HearStart(r).at = r.at /\ HearStart(r).entry = r.entry
         /\ HearStart(r).satisfied = {} /\ HearStart(r).proven = r.proven
         /\ HearStart(r).unproven = r.unproven
  BY DEF HearStart, TurnRecords

\* A call adds its tool if it succeeded.
Adds(new, old, k, ok) == new = IF ok THEN old \cup {k} ELSE old

LEMMA HearResultFields ==
  ASSUME NEW n \in Nat, NEW r \in TurnRecords(n), NEW k \in Tools, NEW ok \in BOOLEAN
  PROVE  /\ HearResult(r, k, ok) \in TurnRecords(n)
         /\ HearResult(r, k, ok).at = r.at /\ HearResult(r, k, ok).entry = r.entry
         /\ Adds(HearResult(r, k, ok).satisfied, r.satisfied, k, ok)
         /\ HearResult(r, k, ok).proven = r.proven
         /\ HearResult(r, k, ok).unproven = r.unproven
<1>1. (IF ok THEN r.satisfied \cup {k} ELSE r.satisfied) \in SUBSET Tools
  BY DEF TurnRecords
<1> QED BY <1>1, Zenon DEF HearResult, TurnRecords, Adds

LEMMA BeginsFields ==
  ASSUME NEW n \in Nat, NEW r \in TurnRecords(n)
  PROVE  /\ Begins(r) \in TurnRecords(n)
         /\ Begins(r).at = r.at /\ Begins(r).entry = r.entry
         /\ Begins(r).proven = {} /\ Begins(r).unproven = r.unproven
  BY DEF Begins, TurnRecords, Rounds

LEMMA CalledFields ==
  ASSUME NEW n \in Nat, NEW r \in TurnRecords(n), NEW k \in Tools, NEW ok \in BOOLEAN
  PROVE  /\ Called(r, k, ok) \in TurnRecords(n)
         /\ Called(r, k, ok).at = r.at /\ Called(r, k, ok).entry = r.entry
         /\ Adds(Called(r, k, ok).proven, r.proven, k, ok)
         /\ Called(r, k, ok).satisfied = r.satisfied
         /\ Called(r, k, ok).unproven = r.unproven
<1>1. (IF ok THEN r.proven \cup {k} ELSE r.proven) \in SUBSET Tools
  BY DEF TurnRecords
<1> QED BY <1>1, Zenon DEF Called, TurnRecords, Adds

LEMMA FinishesFields ==
  ASSUME NEW n \in Nat, NEW r \in TurnRecords(n)
  PROVE  Finishes(r) \in TurnRecords(n) /\ Finishes(r).at = r.at /\ Alike(Finishes(r), r)
  BY DEF Finishes, TurnRecords, Alike, Rounds

LEMMA NewTurnFields ==
  ASSUME NEW n \in Nat, FirstModel \in Models
  PROVE  NewTurn \in TurnRecords(n)
  BY DEF NewTurn, TurnRecords, Places, Rounds

LEMMA DoneFields ==
  ASSUME NEW n \in Nat, NEW r \in TurnRecords(n), FirstModel \in Models
  PROVE  /\ Done(r) \in TurnRecords(n)
         /\ Done(r).at = "ended" /\ Done(r).satisfied = {}
         /\ Done(r).unproven = r.unproven
<1>1. NewTurn \in TurnRecords(n) /\ NewTurn.satisfied = {}
  BY NewTurnFields DEF NewTurn
<1>2. "ended" \in Places BY DEF Places
<1> QED BY <1>1, <1>2, Zenon DEF Done, TurnRecords

LEMMA DisposerFields ==
  ASSUME NEW n \in Nat, NEW r \in TurnRecords(n), NEW e \in 0 .. n, closing \in 0 .. n
  PROVE  /\ Disposer(r, e) \in TurnRecords(n)
         /\ Disposer(r, e).at = r.at /\ Alike(Disposer(r, e), r)
<1>1. (IF closing = 0 THEN e ELSE closing) \in 0 .. n /\ (closing = 0) \in BOOLEAN
  OBVIOUS
<1> QED BY <1>1, Zenon DEF Disposer, TurnRecords, Alike

-----------------------------------------------------------------------------
(* What each change of a harness leaves and sets.                          *)

HarnessOf(fp, running, closed, init, child, close, behind, unstarted) ==
  [fp |-> fp, running |-> running, closed |-> closed, init |-> init, child |-> child,
   close |-> close, behind |-> behind, unstarted |-> unstarted]

\* A close that succeeded has left no process.
Gone(h) == h.close = "done" => h.child \in {"none", "gone"}

Keeps(g, h) ==
  g.running = h.running /\ g.behind = h.behind /\ g.unstarted = h.unstarted

LEMMA MadeFields ==
  ASSUME NEW fp \in Models
  PROVE  /\ Made(fp) \in HarnessRecords
         /\ ~Made(fp).running /\ ~Made(fp).unstarted /\ Made(fp).behind = 0
         /\ Gone(Made(fp))
  BY DEF Made, HarnessRecords, Children, Closes, Gone

LEMMA BecameFields ==
  ASSUME NEW h \in HarnessRecords, NEW child \in Children, NEW close \in Closes
  PROVE  /\ Became(h, child, close) \in HarnessRecords
         /\ Became(h, child, close).child = child /\ Became(h, child, close).close = close
         /\ Keeps(Became(h, child, close), h)
  BY DEF Became, HarnessRecords, Keeps

LEMMA ClientClosedFields ==
  ASSUME NEW h \in HarnessRecords, Gone(h)
  PROVE  /\ ClientClosed(h) \in HarnessRecords
         /\ Keeps(ClientClosed(h), h) /\ Gone(ClientClosed(h))
<1> DEFINE c == IF h.child = "none" THEN "done" ELSE "pending"
<1>1. c \in Closes BY DEF Closes
<1>2. CASE h.close # "none" BY <1>2 DEF ClientClosed, Keeps
<1>3. CASE h.close = "none"
  <2> DEFINE g == [h EXCEPT !.close = c]
  <2>1. ClientClosed(h) = g BY <1>3, Zenon DEF ClientClosed
  <2>2. g \in HarnessRecords /\ g.close = c /\ g.child = h.child /\ Keeps(g, h)
    BY <1>1, Zenon DEF HarnessRecords, Keeps
  <2> QED BY <2>1, <2>2 DEF Gone
<1> QED BY <1>2, <1>3

LEMMA HarnessClosedFields ==
  ASSUME NEW h \in HarnessRecords, Gone(h)
  PROVE  /\ HarnessClosed(h) \in HarnessRecords
         /\ Keeps(HarnessClosed(h), h) /\ Gone(HarnessClosed(h))
<1>1. PICK g \in HarnessRecords : g = ClientClosed(h) /\ Keeps(g, h) /\ Gone(g)
  BY ClientClosedFields
<1>2. HarnessClosed(h) = [g EXCEPT !.closed = TRUE] BY <1>1, Zenon DEF HarnessClosed
<1>3. /\ [g EXCEPT !.closed = TRUE] \in HarnessRecords
      /\ Keeps([g EXCEPT !.closed = TRUE], g)
      /\ [g EXCEPT !.closed = TRUE].close = g.close
      /\ [g EXCEPT !.closed = TRUE].child = g.child
  BY Zenon DEF HarnessRecords, Keeps
<1> QED BY <1>1, <1>2, <1>3 DEF Gone, Keeps

LEMMA SpawnedFields ==
  ASSUME NEW h \in HarnessRecords, Gone(h)
  PROVE  Spawned(h) \in HarnessRecords /\ Keeps(Spawned(h), h) /\ Gone(Spawned(h))
<1> DEFINE g == [h EXCEPT !.child = "booting"]
<1>1. "booting" \in Children BY DEF Children, Live
<1>2. /\ g \in HarnessRecords /\ g.close = h.close /\ Keeps(g, h)
  BY <1>1, Zenon DEF HarnessRecords, Keeps
<1>3. CASE h.init \/ h.close # "none" BY <1>3 DEF Spawned, Keeps
<1>4. CASE ~(h.init \/ h.close # "none") BY <1>2, <1>4 DEF Spawned, Gone
<1> QED BY <1>3, <1>4

LEMMA RunningFields ==
  ASSUME NEW h \in HarnessRecords
  PROVE  /\ Running(h) \in HarnessRecords /\ Running(h).running
         /\ Running(h).behind = h.behind /\ Running(h).unstarted = h.unstarted
         /\ Running(h).close = h.close /\ Running(h).child = h.child
  BY DEF Running, HarnessRecords

LEMMA EnteredFields ==
  ASSUME NEW h \in HarnessRecords, Gone(h)
  PROVE  /\ Entered(h) \in HarnessRecords /\ Entered(h).running
         /\ Entered(h).behind = h.behind /\ Entered(h).unstarted = h.unstarted
         /\ Gone(Entered(h))
<1>1. CASE h.running BY <1>1 DEF Entered
<1>2. CASE ~h.running
  <2>1. Entered(h) = Running(Spawned(h)) BY <1>2 DEF Entered
  <2> QED BY <2>1, SpawnedFields, RunningFields DEF Gone, Keeps
<1> QED BY <1>1, <1>2

LEMMA RenewedFields ==
  ASSUME NEW h \in HarnessRecords, Gone(h)
  PROVE  /\ Renewed(h) \in HarnessRecords /\ Renewed(h).running = h.running
         /\ Renewed(h).behind = h.behind /\ Renewed(h).unstarted = h.unstarted
         /\ Gone(Renewed(h))
<1> DEFINE n == h.behind + (IF h.child \in Live THEN 1 ELSE 0)
           g == [h EXCEPT !.child = "none", !.close = "none", !.behind = n]
<1>1. CASE ~(h.close = "done" /\ ~h.closed) BY <1>1 DEF Renewed
<1>2. CASE h.close = "done" /\ ~h.closed
  <2>1. Renewed(h) = g BY <1>2, Zenon DEF Renewed
  <2>2. n = h.behind BY <1>2 DEF Gone, Live, HarnessRecords
  <2>3. "none" \in Children /\ "none" \in Closes /\ n \in Nat
    BY <2>2 DEF Children, Closes, HarnessRecords
  <2>4. /\ g \in HarnessRecords /\ g.running = h.running /\ g.behind = n
        /\ g.unstarted = h.unstarted /\ g.close = "none"
    BY <2>3, Zenon DEF HarnessRecords
  <2> QED BY <2>1, <2>2, <2>4 DEF Gone
<1> QED BY <1>1, <1>2

LEMMA GreetedFields ==
  ASSUME NEW h \in HarnessRecords
  PROVE  /\ Greeted(h) \in HarnessRecords /\ Keeps(Greeted(h), h)
         /\ Greeted(h).close = h.close
  BY DEF Greeted, HarnessRecords, Keeps, Children, Live

LEMMA MarkedFields ==
  ASSUME NEW h \in HarnessRecords
  PROVE  /\ Marked(h) \in HarnessRecords /\ Marked(h).running = h.running
         /\ Marked(h).behind = h.behind /\ Marked(h).unstarted
         /\ Marked(h).close = h.close /\ Marked(h).child = h.child
  BY DEF Marked, HarnessRecords

LEMMA RestedFields ==
  ASSUME NEW e, harness[e] \in HarnessRecords
  PROVE  /\ Rested(e) \in HarnessRecords
         /\ Rested(e).behind = harness[e].behind
         /\ Rested(e).unstarted = harness[e].unstarted
         /\ Rested(e).close = harness[e].close /\ Rested(e).child = harness[e].child
  BY DEF Rested, HarnessRecords

LEMMA FirstAwaitIs ==
  ASSUME NEW h \in HarnessRecords
  PROVE  FirstAwait(h) \in Driving \ {"evict"}
  BY DEF FirstAwait, HarnessRecords, Driving

LEMMA DisposedFields ==
  ASSUME NEW e, harness[e] \in HarnessRecords, Gone(harness[e])
  PROVE  /\ Disposed(e) \in HarnessRecords
         /\ Keeps(Disposed(e), harness[e]) /\ Gone(Disposed(e))
  BY HarnessClosedFields DEF Disposed, Keeps

-----------------------------------------------------------------------------
(* What the bridge makes of what it hears.                                 *)

LEMMA HearTextFields ==
  ASSUME NEW n \in Nat, NEW r \in TurnRecords(n), r.satisfied \subseteq r.proven
  PROVE  HearText(r) \in TurnRecords(n) /\ HearText(r).at = r.at /\ Alike(HearText(r), r)
<1>1. "delta" \in {"delta", "completed"} OBVIOUS
<1> QED BY <1>1, SendFields DEF HearText, EvidenceSatisfied, Alike

LEMMA HearEndFields ==
  ASSUME NEW n \in Nat, NEW r \in TurnRecords(n), r.satisfied \subseteq r.proven,
         NEW reason \in Endings
  PROVE  /\ HearEnd(r, reason) \in TurnRecords(n)
         /\ HearEnd(r, reason).at = r.at /\ Alike(HearEnd(r, reason), r)
<1>1. \A kind \in Terminals : Tell(r, kind) \in TurnRecords(n) /\ Tell(r, kind).at = r.at
        /\ Alike(Tell(r, kind), r)
  BY TellFields
<1>2. ASSUME EvidenceSatisfied(r)
      PROVE  /\ Send(r, "completed") \in TurnRecords(n) /\ Send(r, "completed").at = r.at
             /\ Alike(Send(r, "completed"), r)
  BY <1>2, SendFields DEF EvidenceSatisfied
<1>3. ASSUME EvidenceSatisfied(r)
      PROVE  LET s == Tell(Send(r, "completed"), "completed")
             IN  s \in TurnRecords(n) /\ s.at = r.at /\ Alike(s, r)
  BY <1>2, <1>3, TellFields DEF Terminals, Alike
<1> QED BY <1>1, <1>3 DEF HearEnd, Terminals

LEMMA ResolvedFields ==
  ASSUME NEW n \in Nat, NEW r \in TurnRecords(n)
  PROVE  Resolved(r) \in TurnRecords(n) /\ Alike(Resolved(r), r)
  BY TellFields DEF Resolved, Terminals, Alike

-----------------------------------------------------------------------------
(* What a step does to the sequence of harnesses and to the requests.      *)

LEMMA SetEffect ==
  ASSUME NEW e \in Harnesses, NEW h \in HarnessRecords, Set(e, h),
         harness \in Seq(HarnessRecords)
  PROVE  /\ harness' \in Seq(HarnessRecords) /\ Len(harness') = Len(harness)
         /\ \A i \in Harnesses : harness'[i] = IF i = e THEN h ELSE harness[i]
  BY DEF Set, Harnesses

LEMMA AppendEffect ==
  ASSUME NEW h \in HarnessRecords, harness' = Append(harness, h),
         harness \in Seq(HarnessRecords)
  PROVE  /\ harness' \in Seq(HarnessRecords) /\ Len(harness') = Len(harness) + 1
         /\ \A i \in Harnesses' :
              harness'[i] = IF i = Len(harness) + 1 THEN h ELSE harness[i]
  BY DEF Harnesses

LEMMA RecordsGrow ==
  ASSUME NEW n \in Nat, NEW m \in Nat, n <= m
  PROVE  TurnRecords(n) \subseteq TurnRecords(m) /\ CancelRecords(n) \subseteq CancelRecords(m)
<1>1. 0 .. n \subseteq 0 .. m OBVIOUS
<1> QED BY <1>1, Zenon DEF TurnRecords, CancelRecords

\* The invariant, as far as it speaks of one turn request.
Fine(r) ==
  /\ r.satisfied \subseteq r.proven /\ r.unproven = {}
  /\ r.at \in Driving => r.entry # 0 /\ harness[r.entry].running
  /\ r.at \in Driving \ {"evict"} => ~harness[r.entry].unstarted

LEMMA Pieces ==
  ASSUME Inv
  PROVE  /\ Len(harness) \in Nat
         /\ \A t \in Turns : turn[t] \in TurnRecords(Len(harness)) /\ Fine(turn[t])
         /\ \A t \in Turns : turn[t].at \in Driving => turn[t].entry \in Harnesses
         /\ \A e \in Harnesses : harness[e] \in HarnessRecords /\ Gone(harness[e])
         /\ sessions # 0 => sessions \in Harnesses /\ ~harness[sessions].unstarted
  BY DEF Inv, TypeOK, Fine, DrivingRuns, ClosedIsGone, TableIsFresh, HeardIsProven,
         FailedClientsAreEvicted, AnswersAreEvidenced, Harnesses, Gone, TurnRecords

(***************************************************************************)
(* A step of one turn that leaves the harnesses as they are, but for one   *)
(* of them, whose mark as running, if it goes, goes with the turn.         *)
(***************************************************************************)
LEMMA TurnStep ==
  ASSUME Inv, NEW t \in Turns, NEW r \in TurnRecords(Len(harness)), With(t, r),
         NEW e \in Harnesses, NEW h \in HarnessRecords, Set(e, h),
         Gone(h), h.behind = harness[e].behind,
         harness[e].running => h.running \/ (turn[t].at \in Driving /\ turn[t].entry = e),
         r.at \in Driving =>
           \/ turn[t].at \in Driving /\ r.entry = turn[t].entry /\ (h.running \/ r.entry # e)
           \/ ~harness[e].running /\ h.running /\ r.entry = e,
         r.at \in Driving \ {"evict"} => turn[t].at # "evict" /\ (r.entry = e => ~h.unstarted),
         h.unstarted => harness[e].unstarted
                        \/ (sessions' # e /\ turn[t].at \in Driving /\ turn[t].entry = e),
         r.satisfied \subseteq r.proven, r.unproven = {},
         sessions' \in {0, sessions}
  PROVE  /\ harness' \in Seq(HarnessRecords) /\ Len(harness') = Len(harness)
         /\ turn' \in [Turns -> TurnRecords(Len(harness'))]
         /\ DrivingRuns' /\ ClosedIsGone' /\ TableIsFresh' /\ HeardIsProven'
         /\ HarnessIsExclusive' /\ FailedClientsAreEvicted' /\ AnswersAreEvidenced'
<1>1. /\ harness' \in Seq(HarnessRecords) /\ Len(harness') = Len(harness)
      /\ \A i \in Harnesses : harness'[i] = IF i = e THEN h ELSE harness[i]
  BY SetEffect DEF Inv, TypeOK
<1>2. Harnesses' = Harnesses BY <1>1 DEF Harnesses
<1>3. /\ turn' \in [Turns -> TurnRecords(Len(harness'))]
      /\ \A u \in Turns : turn'[u] = IF u = t THEN r ELSE turn[u]
  BY <1>1 DEF With, Inv, TypeOK
<1> USE Pieces
<1>4. DrivingRuns'
  <2>1. ASSUME NEW u \in Turns, u # t, turn'[u].at \in Driving
        PROVE  turn'[u].entry # 0 /\ harness'[turn'[u].entry].running
    <3>1. turn'[u] = turn[u] BY <1>3, <2>1
    <3>2. turn[u].entry \in Harnesses /\ turn[u].entry # 0 /\ harness[turn[u].entry].running
      BY <2>1, <3>1 DEF Fine
    <3>3. turn[u].entry = e => h.running
      BY <2>1, <3>1, <3>2 DEF Inv, HarnessIsExclusive
    <3> QED BY <1>1, <3>1, <3>2, <3>3
  <2>2. ASSUME r.at \in Driving PROVE r.entry # 0 /\ harness'[r.entry].running
    BY <1>1, <2>2 DEF Harnesses, Fine
  <2> QED BY <1>3, <2>1, <2>2 DEF DrivingRuns
<1>5. ClosedIsGone' BY <1>1, <1>2 DEF ClosedIsGone, Gone
<1>6. TableIsFresh' BY <1>1 DEF TableIsFresh
<1>7. HeardIsProven' /\ AnswersAreEvidenced'
  BY <1>3 DEF HeardIsProven, AnswersAreEvidenced, Fine
<1>8. HarnessIsExclusive'
  <2>1. \A u, v \in Turns :
          turn'[u].at \in Driving /\ turn'[v].at \in Driving
            /\ turn'[u].entry = turn'[v].entry => u = v
    BY <1>3 DEF Inv, HarnessIsExclusive, Fine
  <2>2. \A i \in Harnesses : harness'[i].behind = 0
    BY <1>1 DEF Inv, HarnessIsExclusive
  <2> QED BY <1>2, <2>1, <2>2 DEF HarnessIsExclusive
<1>9. FailedClientsAreEvicted'
  BY <1>1, <1>3 DEF FailedClientsAreEvicted, Inv, HarnessIsExclusive, Fine, Driving
<1> QED BY <1>1, <1>3, <1>4, <1>5, <1>6, <1>7, <1>8, <1>9

\* A step of one turn that changes no harness.
LEMMA MoveStep ==
  ASSUME Inv, NEW t \in Turns, NEW r \in TurnRecords(Len(harness)), With(t, r),
         UNCHANGED <<harness, sessions>>,
         r.at \in Driving => turn[t].at \in Driving /\ r.entry = turn[t].entry,
         r.at \in Driving \ {"evict"} => turn[t].at # "evict",
         r.satisfied \subseteq r.proven, r.unproven = {}
  PROVE  /\ turn' \in [Turns -> TurnRecords(Len(harness'))]
         /\ DrivingRuns' /\ ClosedIsGone' /\ TableIsFresh' /\ HeardIsProven'
         /\ HarnessIsExclusive' /\ FailedClientsAreEvicted' /\ AnswersAreEvidenced'
<1>1. /\ turn' \in [Turns -> TurnRecords(Len(harness'))]
      /\ \A u \in Turns : turn'[u] = IF u = t THEN r ELSE turn[u]
  BY DEF With, Inv, TypeOK
<1> USE Pieces
<1>2. DrivingRuns' BY <1>1 DEF DrivingRuns, Fine
<1>3. ClosedIsGone' /\ TableIsFresh'
  BY DEF ClosedIsGone, Gone, TableIsFresh, Harnesses, Inv
<1>4. HeardIsProven' /\ AnswersAreEvidenced'
  BY <1>1 DEF HeardIsProven, AnswersAreEvidenced, Fine
<1>5. HarnessIsExclusive' BY <1>1 DEF Inv, HarnessIsExclusive, Harnesses
<1>6. FailedClientsAreEvicted' BY <1>1 DEF FailedClientsAreEvicted, Fine
<1> QED BY <1>1, <1>2, <1>3, <1>4, <1>5, <1>6

\* A step that changes one harness and no turn.
LEMMA ProcessStep ==
  ASSUME Inv, NEW e \in Harnesses, NEW h \in HarnessRecords, Set(e, h),
         Gone(h), Keeps(h, harness[e]), UNCHANGED turn, sessions' \in {0, sessions}
  PROVE  /\ harness' \in Seq(HarnessRecords) /\ Len(harness') = Len(harness)
         /\ DrivingRuns' /\ ClosedIsGone' /\ TableIsFresh' /\ HeardIsProven'
         /\ HarnessIsExclusive' /\ FailedClientsAreEvicted' /\ AnswersAreEvidenced'
<1>1. /\ harness' \in Seq(HarnessRecords) /\ Len(harness') = Len(harness)
      /\ \A i \in Harnesses : harness'[i] = IF i = e THEN h ELSE harness[i]
  BY SetEffect DEF Inv, TypeOK
<1>2. Harnesses' = Harnesses BY <1>1 DEF Harnesses
<1> USE Pieces DEF Keeps
<1>3. DrivingRuns' BY <1>1 DEF DrivingRuns, Fine
<1>4. ClosedIsGone' BY <1>1, <1>2 DEF ClosedIsGone, Gone
<1>5. TableIsFresh' BY <1>1 DEF TableIsFresh
<1>6. HeardIsProven' /\ AnswersAreEvidenced' BY DEF HeardIsProven, AnswersAreEvidenced, Inv
<1>7. HarnessIsExclusive' BY <1>1, <1>2 DEF Inv, HarnessIsExclusive
<1>8. FailedClientsAreEvicted' BY <1>1 DEF FailedClientsAreEvicted, Fine
<1> QED BY <1>1, <1>3, <1>4, <1>5, <1>6, <1>7, <1>8

\* A turn that makes the harness it drives.
LEMMA ConstructStep ==
  ASSUME Inv, RuntimeConstants, NEW t \in Turns, turn[t].at \in {"answer", "stale"},
      Construct(t)
  PROVE  /\ harness' \in Seq(HarnessRecords) /\ Len(harness') = Len(harness) + 1
         /\ turn' \in [Turns -> TurnRecords(Len(harness'))]
         /\ sessions' \in 0 .. Len(harness')
         /\ DrivingRuns' /\ ClosedIsGone' /\ TableIsFresh' /\ HeardIsProven'
         /\ HarnessIsExclusive' /\ FailedClientsAreEvicted' /\ AnswersAreEvidenced'
<1> USE Pieces
<1> DEFINE n == Len(harness) + 1
           m == Made(turn[t].fp)
           h == Entered(m)
           f == Forgets(turn[t])
           r == Drives(f, n, FirstAwait(m))
<1>1. m \in HarnessRecords /\ ~m.running /\ ~m.unstarted /\ m.behind = 0 /\ Gone(m)
  BY MadeFields DEF TurnRecords
<1>2. h \in HarnessRecords /\ h.running /\ ~h.unstarted /\ h.behind = 0 /\ Gone(h)
  BY <1>1, EnteredFields
<1>3. n \in Nat /\ turn[t] \in TurnRecords(n) /\ TurnRecords(Len(harness)) \subseteq TurnRecords(n)
  BY RecordsGrow
<1>4. f \in TurnRecords(n) /\ Alike(f, turn[t])
  BY <1>3, ForgetsFields DEF RuntimeConstants
<1>5. FirstAwait(m) \in Driving \ {"evict"} BY <1>1, FirstAwaitIs
<1>6. FirstAwait(m) \in Places BY <1>5 DEF Places
<1>7. /\ r \in TurnRecords(n) /\ r.at \in Driving \ {"evict"} /\ r.entry = n
      /\ r.satisfied \subseteq r.proven /\ r.unproven = {}
  BY <1>3, <1>4, <1>5, <1>6, DrivesFields DEF Alike, Fine
<1>8. With(t, r) BY <1>1 DEF Construct, Enters
<1>9. harness' = Append(harness, h) /\ sessions' = n BY DEF Construct
<1> HIDE DEF n, m, h, f, r
<1>10. /\ harness' \in Seq(HarnessRecords) /\ Len(harness') = n
       /\ \A i \in Harnesses' : harness'[i] = IF i = n THEN h ELSE harness[i]
  BY <1>2, <1>9, AppendEffect DEF Inv, TypeOK, n
<1>11. Harnesses' = Harnesses \cup {n} /\ n \notin Harnesses /\ n # 0
  BY <1>10 DEF Harnesses, n
<1>12. /\ turn' \in [Turns -> TurnRecords(Len(harness'))]
       /\ \A u \in Turns : turn'[u] = IF u = t THEN r ELSE turn[u]
  BY <1>3, <1>7, <1>8, <1>10 DEF With, Inv, TypeOK
<1>13. DrivingRuns' BY <1>2, <1>7, <1>10, <1>11, <1>12 DEF DrivingRuns, Fine
<1>14. ClosedIsGone' BY <1>2, <1>10, <1>11 DEF ClosedIsGone, Gone
<1>15. TableIsFresh' BY <1>2, <1>9, <1>10, <1>11 DEF TableIsFresh
<1>16. HeardIsProven' /\ AnswersAreEvidenced'
  BY <1>7, <1>12 DEF HeardIsProven, AnswersAreEvidenced, Fine
<1>17. HarnessIsExclusive'
  BY <1>2, <1>7, <1>10, <1>11, <1>12 DEF Inv, HarnessIsExclusive
<1>18. FailedClientsAreEvicted'
  BY <1>2, <1>7, <1>10, <1>11, <1>12 DEF FailedClientsAreEvicted, Fine
<1>19. sessions' \in 0 .. Len(harness') BY <1>3, <1>9, <1>10
<1> QED BY <1>10, <1>12, <1>13, <1>14, <1>15, <1>16, <1>17, <1>18, <1>19 DEF n

-----------------------------------------------------------------------------
(* The invariant is inductive.                                             *)

LEMMA CancelFields ==
  ASSUME NEW n \in Nat, NEW r \in CancelRecords(n), NEW e \in 0 .. n, closing \in 0 .. n
  PROVE  /\ NewCancel \in CancelRecords(n)
         /\ \A a \in {"idle", "wait", "cancelled"} : At(r, a) \in CancelRecords(n)
         /\ Disposer(r, e) \in CancelRecords(n)
<1>1. (IF closing = 0 THEN e ELSE closing) \in 0 .. n /\ (closing = 0) \in BOOLEAN
  OBVIOUS
<1>2. Disposer(r, e) \in CancelRecords(n) BY <1>1, Zenon DEF Disposer, CancelRecords
<1>3. NewCancel \in CancelRecords(n) BY DEF NewCancel, CancelRecords
<1>4. \A a \in {"idle", "wait", "cancelled"} : At(r, a) \in CancelRecords(n)
  BY Zenon DEF At, CancelRecords
<1> QED BY <1>2, <1>3, <1>4

THEOREM InvInit == Init => Inv
<1> SUFFICES ASSUME Init PROVE Inv OBVIOUS
<1> USE RuntimeConstants DEF RuntimeConstants
<1>1. Len(harness) = 0 /\ Harnesses = {} /\ harness \in Seq(HarnessRecords)
  BY DEF Init, Harnesses
<1>2. NewTurn \in TurnRecords(0) /\ NewCancel \in CancelRecords(0)
  BY NewTurnFields DEF NewCancel, CancelRecords
<1>3. \A t \in Turns : turn[t] = NewTurn BY DEF Init
<1>4. TypeOK BY <1>1, <1>2 DEF Init, TypeOK
<1>5. NewTurn.at = "new" /\ NewTurn.satisfied = {} /\ NewTurn.unproven = {}
  BY DEF NewTurn
<1>6. sessions = 0 BY DEF Init
<1> QED BY <1>1, <1>3, <1>4, <1>5, <1>6 DEF Inv, DrivingRuns, ClosedIsGone, TableIsFresh,
      HeardIsProven, HarnessIsExclusive, FailedClientsAreEvicted, AnswersAreEvidenced,
          Driving

Moving ==
  /\ DrivingRuns' /\ ClosedIsGone' /\ TableIsFresh' /\ HeardIsProven'
  /\ HarnessIsExclusive' /\ FailedClientsAreEvicted' /\ AnswersAreEvidenced'

LEMMA InvNext == Inv /\ [Next]_vars => Inv'
<1> SUFFICES ASSUME Inv, [Next]_vars PROVE TypeOK' /\ Moving
  BY DEF Inv, Moving
<1> USE RuntimeConstants DEF RuntimeConstants, Moving
<1> DEFINE n == Len(harness)
           Quiet(r, t) ==
             r \in TurnRecords(n) /\ r.at \notin Driving
             /\ r.satisfied \subseteq r.proven /\ r.unproven = {}
           Stays(r, t) ==
             /\ r \in TurnRecords(n) /\ r.entry = turn[t].entry
             /\ r.at \in Driving /\ turn[t].at \in Driving
             /\ r.at \in Driving \ {"evict"} => turn[t].at # "evict"
             /\ r.satisfied \subseteq r.proven /\ r.unproven = {}
<1> HIDE DEF n
<1>n. n = Len(harness) /\ n \in Nat BY Pieces DEF n
<1>f. \A t \in Turns : turn[t] \in TurnRecords(n) /\ Fine(turn[t]) BY <1>n, Pieces
<1>e. /\ \A t \in Turns : turn[t].at \in Driving => turn[t].entry \in Harnesses
      /\ \A e \in Harnesses : harness[e] \in HarnessRecords /\ Gone(harness[e])
      /\ sessions # 0 => sessions \in Harnesses /\ ~harness[sessions].unstarted
  BY Pieces

<1>1. ASSUME NEW e \in Harnesses, Reap(e) PROVE TypeOK' /\ Moving
  <2> DEFINE h == Became(harness[e], "gone", "done")
  <2>1. h \in HarnessRecords /\ Gone(h) /\ Keeps(h, harness[e])
    BY <1>1, <1>e, BecameFields DEF Reap, Gone, Children, Live, Closes, HarnessRecords
  <2>2. Set(e, h) /\ UNCHANGED turn /\ sessions' \in {0, sessions} BY <1>1 DEF Reap
  <2> HIDE DEF h
  <2>3. harness' \in Seq(HarnessRecords) /\ Len(harness') = Len(harness) /\ Moving
    BY <2>1, <2>2, ProcessStep
  <2> QED BY <1>1, <2>3 DEF Reap, Inv, TypeOK, platform, Happens
<1>2. ASSUME NEW e \in Harnesses, FindGone(e) PROVE TypeOK' /\ Moving
  <2> DEFINE h == Became(harness[e], "gone", "done")
  <2>1. h \in HarnessRecords /\ Gone(h) /\ Keeps(h, harness[e])
    BY <1>2, <1>e, BecameFields DEF FindGone, Gone, Children, Live, Closes, HarnessRecords
  <2>2. Set(e, h) /\ UNCHANGED turn /\ sessions' \in {0, sessions} BY <1>2 DEF FindGone
  <2> HIDE DEF h
  <2>3. harness' \in Seq(HarnessRecords) /\ Len(harness') = Len(harness) /\ Moving
    BY <2>1, <2>2, ProcessStep
  <2> QED BY <1>2, <2>3 DEF FindGone, Inv, TypeOK, platform, Happens
<1>3. ASSUME NEW e \in Harnesses, OutlivesKill(e) PROVE TypeOK' /\ Moving
  <2> DEFINE h == Became(harness[e], "stuck", "failed")
  <2>1. h \in HarnessRecords /\ Gone(h) /\ Keeps(h, harness[e])
    BY <1>3, <1>e, BecameFields
      DEF OutlivesKill, Gone, Children, Live, Closes, HarnessRecords
  <2>2. Set(e, h) /\ UNCHANGED turn /\ sessions' \in {0, sessions} BY <1>3 DEF OutlivesKill
  <2> HIDE DEF h
  <2>3. harness' \in Seq(HarnessRecords) /\ Len(harness') = Len(harness) /\ Moving
    BY <2>1, <2>2, ProcessStep
  <2> QED BY <1>3, <2>3 DEF OutlivesKill, Inv, TypeOK, platform, Happens
<1>4. ASSUME NEW e \in Harnesses, DiesLate(e) PROVE TypeOK' /\ Moving
  <2> DEFINE h == Became(harness[e], "gone", harness[e].close)
  <2>1. h \in HarnessRecords /\ Gone(h) /\ Keeps(h, harness[e])
    BY <1>4, <1>e, BecameFields DEF DiesLate, Gone, Children, Live, Closes, HarnessRecords
  <2>2. Set(e, h) /\ UNCHANGED turn /\ sessions' \in {0, sessions} BY <1>4 DEF DiesLate
  <2> HIDE DEF h
  <2>3. harness' \in Seq(HarnessRecords) /\ Len(harness') = Len(harness) /\ Moving
    BY <2>1, <2>2, ProcessStep
  <2> QED BY <1>4, <2>3 DEF DiesLate, Inv, TypeOK, platform, Happens
<1>5. ASSUME NEW e \in Harnesses, Crash(e) PROVE TypeOK' /\ Moving
  <2> DEFINE h == Became(harness[e], "gone", harness[e].close)
  <2>1. h \in HarnessRecords /\ Gone(h) /\ Keeps(h, harness[e])
    BY <1>5, <1>e, BecameFields DEF Crash, Gone, Children, Live, Closes, HarnessRecords
  <2>2. Set(e, h) /\ UNCHANGED turn /\ sessions' \in {0, sessions} BY <1>5 DEF Crash
  <2> HIDE DEF h
  <2>3. harness' \in Seq(HarnessRecords) /\ Len(harness') = Len(harness) /\ Moving
    BY <2>1, <2>2, ProcessStep
  <2> QED BY <1>5, <2>3 DEF Crash, Inv, TypeOK, platform, Happens
<1>6. ASSUME NEW t \in Turns, Arrive(t) PROVE TypeOK' /\ Moving
  <2> DEFINE r == Awaits(turn[t], IF closing = 0 THEN "model" ELSE "table", closing)
  <2>0. (IF closing = 0 THEN "model" ELSE "table") \in Places \ Driving /\ closing \in 0 .. n
    BY <1>n DEF Places, Driving, Inv, TypeOK
  <2>a. /\ r \in TurnRecords(n) /\ Alike(r, turn[t])
        /\ r.at = (IF closing = 0 THEN "model" ELSE "table")
    BY <2>0, <1>n, <1>f, AwaitsFields
  <2> HIDE DEF r
  <2>1. Quiet(r, t)
    BY <1>6, <2>0, <2>a, <1>n, <1>f, AwaitsFields DEF Arrive, Alike, Fine, Driving, Places
  <2>2. With(t, r) /\ UNCHANGED <<harness, sessions>> BY <1>6 DEF Arrive, r
  <2> HIDE DEF r
  <2>3. turn' \in [Turns -> TurnRecords(Len(harness'))] /\ Moving
    BY <2>1, <2>2, <1>n, MoveStep
  <2> QED BY <1>6, <2>2, <2>3 DEF Arrive, Inv, TypeOK, platform, Happens
<1>7. ASSUME NEW t \in Turns, TableFree(t) PROVE TypeOK' /\ Moving
  <2> DEFINE r == At(Forgets(turn[t]), "model")
  <2>1. Quiet(r, t)
    BY <1>7, <1>n, <1>f, ForgetsFields, AtFields DEF TableFree, Alike, Fine, Driving, Places
  <2>2. With(t, r) /\ UNCHANGED <<harness, sessions>> BY <1>7 DEF TableFree
  <2> HIDE DEF r
  <2>3. turn' \in [Turns -> TurnRecords(Len(harness'))] /\ Moving
    BY <2>1, <2>2, <1>n, MoveStep
  <2> QED BY <1>7, <2>2, <2>3 DEF TableFree, Inv, TypeOK, platform, Happens
<1>8. ASSUME NEW t \in Turns, ModelAnswers(t) PROVE TypeOK' /\ Moving
  <2> DEFINE r == Knows(turn[t], setting)
  <2>1. Quiet(r, t)
    BY <1>8, <1>n, <1>f, KnowsFields
      DEF ModelAnswers, Alike, Fine, Driving, Places, Inv, TypeOK
  <2>2. With(t, r) /\ UNCHANGED <<harness, sessions>> BY <1>8 DEF ModelAnswers
  <2> HIDE DEF r
  <2>3. turn' \in [Turns -> TurnRecords(Len(harness'))] /\ Moving
    BY <2>1, <2>2, <1>n, MoveStep
  <2> QED BY <1>8, <2>2, <2>3 DEF ModelAnswers, Inv, TypeOK, platform, Happens
<1>9. ASSUME NEW t \in Turns, ModelFails(t) PROVE TypeOK' /\ Moving
  <2> DEFINE r == Refused(turn[t], "error")
  <2>1. Quiet(r, t)
    BY <1>9, <1>n, <1>f, RefusedFields DEF ModelFails, Alike, Fine, Driving, Places
  <2>2. With(t, r) /\ UNCHANGED <<harness, sessions>> BY <1>9 DEF ModelFails
  <2> HIDE DEF r
  <2>3. turn' \in [Turns -> TurnRecords(Len(harness'))] /\ Moving
    BY <2>1, <2>2, <1>n, MoveStep
  <2> QED BY <1>9, <2>2, <2>3 DEF ModelFails, Inv, TypeOK, platform, Happens
<1>10. ASSUME NEW t \in Turns, Accepted(t) PROVE TypeOK' /\ Moving
  <2> DEFINE r == At(turn[t], "listen")
  <2>1. Stays(r, t)
    BY <1>10, <1>n, <1>f, AtFields DEF Accepted, Alike, Fine, Driving, Places
  <2>2. With(t, r) /\ UNCHANGED <<harness, sessions>> BY <1>10 DEF Accepted
  <2> HIDE DEF r
  <2>3. turn' \in [Turns -> TurnRecords(Len(harness'))] /\ Moving
    BY <2>1, <2>2, <1>n, MoveStep
  <2> QED BY <1>10, <2>2, <2>3 DEF Accepted, Inv, TypeOK, platform, Happens
<1>11. ASSUME NEW t \in Turns, PromptFails(t) PROVE TypeOK' /\ Moving
  <2> DEFINE r == At(turn[t], "rejected")
  <2>1. Stays(r, t)
    BY <1>11, <1>n, <1>f, AtFields DEF PromptFails, Alike, Fine, Driving, Places
  <2>2. With(t, r) /\ UNCHANGED <<harness, sessions>> BY <1>11 DEF PromptFails
  <2> HIDE DEF r
  <2>3. turn' \in [Turns -> TurnRecords(Len(harness'))] /\ Moving
    BY <2>1, <2>2, <1>n, MoveStep
  <2> QED BY <1>11, <2>2, <2>3 DEF PromptFails, Inv, TypeOK, platform, Happens
<1>12. ASSUME NEW t \in Turns, RunRejected(t) PROVE TypeOK' /\ Moving
  <2> DEFINE r == At(turn[t], "rejected")
  <2>1. Stays(r, t)
    BY <1>12, <1>n, <1>f, AtFields DEF RunRejected, Alike, Fine, Driving, Places
  <2>2. With(t, r) /\ UNCHANGED <<harness, sessions>> BY <1>12 DEF RunRejected
  <2> HIDE DEF r
  <2>3. turn' \in [Turns -> TurnRecords(Len(harness'))] /\ Moving
    BY <2>1, <2>2, <1>n, MoveStep
  <2> QED BY <1>12, <2>2, <2>3 DEF RunRejected, Inv, TypeOK, platform, Happens
<1>13. ASSUME NEW t \in Turns, TurnStarts(t) PROVE TypeOK' /\ Moving
  <2> DEFINE r == HearStart(Begins(turn[t]))
  <2>1. Stays(r, t)
    BY <1>13, <1>n, <1>f, BeginsFields, HearStartFields
      DEF TurnStarts, Alike, Fine, Driving, Places, Listening
  <2>2. With(t, r) /\ UNCHANGED <<harness, sessions>> BY <1>13 DEF TurnStarts
  <2> HIDE DEF r
  <2>3. turn' \in [Turns -> TurnRecords(Len(harness'))] /\ Moving
    BY <2>1, <2>2, <1>n, MoveStep
  <2> QED BY <1>13, <2>2, <2>3 DEF TurnStarts, Inv, TypeOK, platform, Happens
<1>14. ASSUME NEW t \in Turns, NEW k \in Tools, NEW ok \in BOOLEAN, ToolRuns(t, k,
    ok) PROVE TypeOK' /\ Moving
  <2> DEFINE r == HearResult(Called(turn[t], k, ok), k, ok)
  <2> DEFINE c == Called(turn[t], k, ok)
  <2>0. /\ c \in TurnRecords(n) /\ c.at = turn[t].at /\ c.entry = turn[t].entry
        /\ Adds(c.proven, turn[t].proven, k, ok)
        /\ c.satisfied = turn[t].satisfied /\ c.unproven = turn[t].unproven
    BY <1>n, <1>f, CalledFields
  <2> HIDE DEF c
  <2>a. /\ HearResult(c, k, ok) \in TurnRecords(n)
        /\ HearResult(c, k, ok).at = c.at /\ HearResult(c, k, ok).entry = c.entry
        /\ Adds(HearResult(c, k, ok).satisfied, c.satisfied, k, ok)
        /\ HearResult(c, k, ok).proven = c.proven
        /\ HearResult(c, k, ok).unproven = c.unproven
    BY <2>0, <1>n, HearResultFields
  <2>b. r = HearResult(c, k, ok) BY DEF c
  <2> HIDE DEF r
  <2>1. Stays(r, t)
    BY <1>14, <2>0, <2>a, <2>b, <1>n, <1>f, HearResultFields
      DEF ToolRuns, Alike, Fine, Driving, Places, Listening, Adds
  <2>2. With(t, r) /\ UNCHANGED <<harness, sessions>> BY <1>14 DEF ToolRuns, r, c
  <2> HIDE DEF r
  <2>3. turn' \in [Turns -> TurnRecords(Len(harness'))] /\ Moving
    BY <2>1, <2>2, <1>n, MoveStep
  <2> QED BY <1>14, <2>2, <2>3 DEF ToolRuns, Inv, TypeOK, platform, Happens
<1>15. ASSUME NEW t \in Turns, Speaks(t) PROVE TypeOK' /\ Moving
  <2> DEFINE r == HearText(turn[t])
  <2>1. Stays(r, t)
    BY <1>15, <1>n, <1>f, HearTextFields DEF Speaks, Alike, Fine, Driving, Places, Listening
  <2>2. With(t, r) /\ UNCHANGED <<harness, sessions>> BY <1>15 DEF Speaks
  <2> HIDE DEF r
  <2>3. turn' \in [Turns -> TurnRecords(Len(harness'))] /\ Moving
    BY <2>1, <2>2, <1>n, MoveStep
  <2> QED BY <1>15, <2>2, <2>3 DEF Speaks, Inv, TypeOK, platform, Happens
<1>16. ASSUME NEW t \in Turns, NEW reason \in Endings, TurnEnds(t,
    reason) PROVE TypeOK' /\ Moving
  <2> DEFINE r == HearEnd(Finishes(turn[t]), reason)
  <2>0. Finishes(turn[t]) \in TurnRecords(n) /\ Finishes(turn[t]).at = turn[t].at
        /\ Alike(Finishes(turn[t]), turn[t])
    BY <1>n, <1>f, FinishesFields
  <2>1. Stays(r, t)
    BY <1>16, <2>0, <1>n, <1>f, HearEndFields
      DEF TurnEnds, Alike, Fine, Driving, Places, Listening
  <2>2. With(t, r) /\ UNCHANGED <<harness, sessions>> BY <1>16 DEF TurnEnds
  <2> HIDE DEF r
  <2>3. turn' \in [Turns -> TurnRecords(Len(harness'))] /\ Moving
    BY <2>1, <2>2, <1>n, MoveStep
  <2> QED BY <1>16, <2>2, <2>3 DEF TurnEnds, Inv, TypeOK, platform, Happens
<1>17. ASSUME NEW t \in Turns, CloseStale(t) PROVE TypeOK' /\ Moving
  <2> DEFINE e == sessions
             r == Awaits(turn[t], "stale", sessions)
             h == HarnessClosed(harness[e])
  <2>e. e \in Harnesses /\ harness[e] \in HarnessRecords /\ Gone(harness[e])
    BY <1>17, <1>e DEF CloseStale, Driving, Listening
  <2>1. h \in HarnessRecords /\ Gone(h) /\ h.behind = harness[e].behind
        /\ h.unstarted = harness[e].unstarted
    BY <1>17, <2>e, HarnessClosedFields DEF CloseStale, Keeps
  <2>a. "stale" \in Places \ Driving /\ sessions \in 0 .. n
    BY <1>n DEF Places, Driving, Inv, TypeOK
  <2>b. r \in TurnRecords(n) /\ r.at = "stale" /\ Alike(r, turn[t])
    BY <2>a, <1>n, <1>f, AwaitsFields
  <2> HIDE DEF r
  <2>2. Quiet(r, t)
    BY <1>17, <2>e, <1>n, <1>f, <2>a, <2>b DEF CloseStale, Alike, Fine, Driving, Places
  <2>3. With(t, r) /\ Set(e, h) /\ sessions' \in {0, sessions} BY <1>17 DEF CloseStale, r, h
  <2>4. harness[e].running => h.running \/ (turn[t].at \in Driving /\ turn[t].entry = e)
    BY <1>17, <2>e, HarnessClosedFields DEF CloseStale, Keeps, Driving, Listening, h
  <2> HIDE DEF r, h
  <2>5. /\ harness' \in Seq(HarnessRecords) /\ Len(harness') = Len(harness)
        /\ turn' \in [Turns -> TurnRecords(Len(harness'))] /\ Moving
    BY <2>e, <2>1, <2>2, <2>3, <2>4, <1>n, TurnStep
  <2> QED BY <1>17, <2>5 DEF CloseStale, Inv, TypeOK, platform, Happens
<1>18. ASSUME NEW t \in Turns, Handshake(t) PROVE TypeOK' /\ Moving
  <2> DEFINE e == turn[t].entry
             r == At(turn[t], FirstAwait(Greeted(harness[e])))
             h == Greeted(harness[e])
  <2>e. e \in Harnesses /\ harness[e] \in HarnessRecords /\ Gone(harness[e])
    BY <1>18, <1>e DEF Handshake, Driving, Listening
  <2>1. h \in HarnessRecords /\ Gone(h) /\ h.behind = harness[e].behind
        /\ h.unstarted = harness[e].unstarted
    BY <1>18, <2>e, GreetedFields DEF Handshake, Keeps, Gone
  <2>g. h \in HarnessRecords /\ h.running = harness[e].running
        /\ h.unstarted = harness[e].unstarted
    BY <2>e, GreetedFields DEF Keeps
  <2>a. FirstAwait(Greeted(harness[e])) \in Driving \ {"evict"}
        /\ FirstAwait(Greeted(harness[e])) \in Places
    BY <2>e, GreetedFields, FirstAwaitIs DEF Places
  <2>b. /\ r \in TurnRecords(n) /\ Alike(r, turn[t])
        /\ r.at = FirstAwait(Greeted(harness[e]))
    BY <2>a, <1>n, <1>f, AtFields
  <2> HIDE DEF r, h
  <2>2. Stays(r, t) /\ h.running /\ (r.at # "evict" => ~h.unstarted)
    BY <1>18, <2>e, <1>n, <1>f, <2>a, <2>b, <2>g
      DEF Handshake, Alike, Fine, Driving, Places, Keeps
  <2>3. With(t, r) /\ Set(e, h) /\ sessions' \in {0, sessions} BY <1>18 DEF Handshake, r, h
  <2>4. harness[e].running => h.running \/ (turn[t].at \in Driving /\ turn[t].entry = e)
    BY <1>18, <2>e, GreetedFields DEF Handshake, Keeps, Driving, Listening, h
  <2> HIDE DEF r, h
  <2>5. /\ harness' \in Seq(HarnessRecords) /\ Len(harness') = Len(harness)
        /\ turn' \in [Turns -> TurnRecords(Len(harness'))] /\ Moving
    BY <2>e, <2>1, <2>2, <2>3, <2>4, <1>n, TurnStep
  <2> QED BY <1>18, <2>5 DEF Handshake, Inv, TypeOK, platform, Happens
<1>19. ASSUME NEW t \in Turns, HandshakeFails(t) PROVE TypeOK' /\ Moving
  <2> DEFINE e == turn[t].entry
             r == At(turn[t], "cleanup")
             h == ClientClosed(harness[e])
  <2>e. e \in Harnesses /\ harness[e] \in HarnessRecords /\ Gone(harness[e])
    BY <1>19, <1>e DEF HandshakeFails, Driving, Listening
  <2>1. h \in HarnessRecords /\ Gone(h) /\ h.behind = harness[e].behind
        /\ h.unstarted = harness[e].unstarted
    BY <1>19, <2>e, ClientClosedFields DEF HandshakeFails, Keeps
  <2>2. Stays(r, t) /\ h.running /\ (r.at # "evict" => ~h.unstarted)
    BY <1>19, <2>e, <1>n, <1>f, ClientClosedFields, AtFields
      DEF HandshakeFails, Alike, Fine, Driving, Places, Keeps
  <2>3. With(t, r) /\ Set(e, h) /\ sessions' \in {0, sessions} BY <1>19 DEF HandshakeFails,
      r, h
  <2>4. harness[e].running => h.running \/ (turn[t].at \in Driving /\ turn[t].entry = e)
    BY <1>19, <2>e, ClientClosedFields DEF HandshakeFails, Keeps, Driving, Listening, h
  <2> HIDE DEF r, h
  <2>5. /\ harness' \in Seq(HarnessRecords) /\ Len(harness') = Len(harness)
        /\ turn' \in [Turns -> TurnRecords(Len(harness'))] /\ Moving
    BY <2>e, <2>1, <2>2, <2>3, <2>4, <1>n, TurnStep
  <2> QED BY <1>19, <2>5 DEF HandshakeFails, Inv, TypeOK, platform, Happens
<1>20. ASSUME NEW t \in Turns, Cleaned(t) PROVE TypeOK' /\ Moving
  <2> DEFINE e == turn[t].entry
             r == At(turn[t], "rejected")
             h == Renewed(harness[e])
  <2>e. e \in Harnesses /\ harness[e] \in HarnessRecords /\ Gone(harness[e])
    BY <1>20, <1>e DEF Cleaned, Driving, Listening
  <2>1. h \in HarnessRecords /\ Gone(h) /\ h.behind = harness[e].behind
        /\ h.unstarted = harness[e].unstarted
    BY <1>20, <2>e, RenewedFields DEF Cleaned, Keeps
  <2>2. Stays(r, t) /\ h.running /\ (r.at # "evict" => ~h.unstarted)
    BY <1>20, <2>e, <1>n, <1>f, RenewedFields, AtFields
      DEF Cleaned, Alike, Fine, Driving, Places, Keeps
  <2>3. With(t, r) /\ Set(e, h) /\ sessions' \in {0, sessions} BY <1>20 DEF Cleaned, r, h
  <2>4. harness[e].running => h.running \/ (turn[t].at \in Driving /\ turn[t].entry = e)
    BY <1>20, <2>e, RenewedFields DEF Cleaned, Keeps, Driving, Listening, h
  <2> HIDE DEF r, h
  <2>5. /\ harness' \in Seq(HarnessRecords) /\ Len(harness') = Len(harness)
        /\ turn' \in [Turns -> TurnRecords(Len(harness'))] /\ Moving
    BY <2>e, <2>1, <2>2, <2>3, <2>4, <1>n, TurnStep
  <2> QED BY <1>20, <2>5 DEF Cleaned, Inv, TypeOK, platform, Happens
<1>21. ASSUME NEW t \in Turns, Idle(t) PROVE TypeOK' /\ Moving
  <2> DEFINE e == turn[t].entry
             r == Done(Resolved(turn[t]))
             h == Rested(e)
  <2>e. e \in Harnesses /\ harness[e] \in HarnessRecords /\ Gone(harness[e])
    BY <1>21, <1>e DEF Idle, Driving, Listening
  <2>1. h \in HarnessRecords /\ Gone(h) /\ h.behind = harness[e].behind
        /\ h.unstarted = harness[e].unstarted
    BY <1>21, <2>e, RestedFields DEF Idle, Keeps, Gone
  <2>2. Quiet(r, t)
    BY <1>21, <2>e, <1>n, <1>f, ResolvedFields, DoneFields
      DEF Idle, Alike, Fine, Driving, Places, Listening
  <2>3. With(t, r) /\ Set(e, h) /\ sessions' \in {0, sessions} BY <1>21 DEF Idle, r, h
  <2>4. harness[e].running => h.running \/ (turn[t].at \in Driving /\ turn[t].entry = e)
    BY <1>21, <2>e, RestedFields DEF Idle, Keeps, Driving, Listening, h
  <2> HIDE DEF r, h
  <2>5. /\ harness' \in Seq(HarnessRecords) /\ Len(harness') = Len(harness)
        /\ turn' \in [Turns -> TurnRecords(Len(harness'))] /\ Moving
    BY <2>e, <2>1, <2>2, <2>3, <2>4, <1>n, TurnStep
  <2> QED BY <1>21, <2>5 DEF Idle, Inv, TypeOK, platform, Happens
<1>22. ASSUME NEW t \in Turns, Evicted(t) PROVE TypeOK' /\ Moving
  <2> DEFINE e == turn[t].entry
             r == Done(turn[t])
             h == Rested(e)
  <2>e. e \in Harnesses /\ harness[e] \in HarnessRecords /\ Gone(harness[e])
    BY <1>22, <1>e DEF Evicted, Driving, Listening
  <2>1. h \in HarnessRecords /\ Gone(h) /\ h.behind = harness[e].behind
        /\ h.unstarted = harness[e].unstarted
    BY <1>22, <2>e, RestedFields DEF Evicted, Keeps, Gone
  <2>2. Quiet(r, t)
    BY <1>22, <2>e, <1>n, <1>f, DoneFields DEF Evicted, Alike, Fine, Driving, Places
  <2>3. With(t, r) /\ Set(e, h) /\ sessions' \in {0, sessions} BY <1>22 DEF Evicted, r, h
  <2>4. harness[e].running => h.running \/ (turn[t].at \in Driving /\ turn[t].entry = e)
    BY <1>22, <2>e, RestedFields DEF Evicted, Keeps, Driving, Listening, h
  <2> HIDE DEF r, h
  <2>5. /\ harness' \in Seq(HarnessRecords) /\ Len(harness') = Len(harness)
        /\ turn' \in [Turns -> TurnRecords(Len(harness'))] /\ Moving
    BY <2>e, <2>1, <2>2, <2>3, <2>4, <1>n, TurnStep
  <2> QED BY <1>22, <2>5 DEF Evicted, Released, Inv, TypeOK, platform, Happens
<1>23. ASSUME NEW t \in Turns, Reuse(t) PROVE TypeOK' /\ Moving
  <2> DEFINE g == harness[sessions]
             h == Entered(g)
             f == Forgets(turn[t])
             r == IF g.running THEN Refused(f, "busy") ELSE Drives(f, sessions,
                 FirstAwait(g))
  <2>1. /\ sessions \in Harnesses /\ g \in HarnessRecords /\ Gone(g) /\ ~g.unstarted
        /\ turn[t].at \notin Driving /\ turn[t].at # "evict"
    BY <1>23, <1>e DEF Reuse, Driving
  <2>2. /\ h \in HarnessRecords /\ h.running /\ h.behind = g.behind /\ Gone(h) /\ ~h.unstarted
    BY <2>1, EnteredFields
  <2>3. FirstAwait(g) \in Driving \ {"evict"} /\ FirstAwait(g) \in Places /\ sessions \in 0 .. n
    BY <2>1, <1>n, FirstAwaitIs DEF Places, Harnesses
  <2>4. f \in TurnRecords(n) /\ Alike(f, turn[t]) BY <1>n, <1>f, ForgetsFields
  <2>5. /\ Refused(f, "busy") \in TurnRecords(n) /\ Refused(f, "busy").at = "ended"
        /\ Alike(Refused(f, "busy"), f)
    BY <2>4, <1>n, RefusedFields
  <2>6. LET d == Drives(f, sessions, FirstAwait(g))
        IN  /\ d \in TurnRecords(n) /\ d.at = FirstAwait(g) /\ d.entry = sessions
            /\ d.satisfied = f.satisfied /\ d.proven = f.proven /\ d.unproven = f.unproven
    BY <2>3, <2>4, <1>n, DrivesFields
  <2>7. With(t, r) /\ Set(sessions, h) /\ sessions' = sessions
    BY <1>23 DEF Reuse, Enters
  <2>8. /\ r \in TurnRecords(n) /\ r.satisfied \subseteq r.proven /\ r.unproven = {}
        /\ r.at \in Driving => r.at # "evict" /\ ~g.running /\ r.entry = sessions
    BY <2>3, <2>4, <2>5, <2>6, <1>f DEF Alike, Fine, Driving
  <2> HIDE DEF r, h, g
  <2>9. /\ harness' \in Seq(HarnessRecords) /\ Len(harness') = Len(harness)
        /\ turn' \in [Turns -> TurnRecords(Len(harness'))] /\ Moving
    BY <2>1, <2>2, <2>7, <2>8, <1>n, TurnStep DEF g
  <2> QED BY <1>23, <2>9 DEF Reuse, Inv, TypeOK, platform
<1>24. ASSUME NEW t \in Turns, Open(t) PROVE TypeOK' /\ Moving
  <2>1. Construct(t) /\ turn[t].at \in {"answer", "stale"} BY <1>24 DEF Open
  <2>2. /\ harness' \in Seq(HarnessRecords) /\ Len(harness') = Len(harness) + 1
        /\ turn' \in [Turns -> TurnRecords(Len(harness'))]
        /\ sessions' \in 0 .. Len(harness') /\ Moving
    BY <2>1, ConstructStep
  <2>3. CancelRecords(n) \subseteq CancelRecords(Len(harness'))
    BY <2>2, <1>n, RecordsGrow
  <2> QED BY <1>24, <1>n, <2>2, <2>3 DEF Open, Inv, TypeOK, platform
<1>25. ASSUME NEW t \in Turns, Caught(t), turn[t].started PROVE TypeOK' /\ Moving
  <2> DEFINE e == turn[t].entry
             r == Done(Tell(turn[t], "failed"))
             h == Rested(e)
  <2>1. e \in Harnesses /\ harness[e] \in HarnessRecords /\ Gone(harness[e])
        /\ turn[t].at \in Driving
    BY <1>25, <1>e DEF Caught, Driving
  <2>2. h \in HarnessRecords /\ Gone(h) /\ h.behind = harness[e].behind
        /\ h.unstarted = harness[e].unstarted
    BY <2>1, RestedFields DEF Gone
  <2>3. Tell(turn[t], "failed") \in TurnRecords(n) /\ Alike(Tell(turn[t], "failed"),
      turn[t])
    BY <1>n, <1>f, TellFields DEF Terminals
  <2>4. Quiet(r, t) BY <2>3, <1>n, <1>f, DoneFields DEF Alike, Fine, Driving
  <2>5. With(t, r) /\ Set(e, h) /\ sessions' = sessions BY <1>25 DEF Caught
  <2> HIDE DEF r, h
  <2>6. /\ harness' \in Seq(HarnessRecords) /\ Len(harness') = Len(harness)
        /\ turn' \in [Turns -> TurnRecords(Len(harness'))] /\ Moving
    BY <2>1, <2>2, <2>4, <2>5, <1>n, TurnStep
  <2> QED BY <1>25, <2>6 DEF Caught, Inv, TypeOK, platform
<1>26. ASSUME NEW t \in Turns, Caught(t), ~turn[t].started PROVE TypeOK' /\ Moving
  <2> DEFINE e == turn[t].entry
             a == At(Tell(turn[t], "failed"), "evict")
             r == Disposer(a, e)
             d == Disposed(e)
             h == Marked(d)
  <2>1. e \in Harnesses /\ harness[e] \in HarnessRecords /\ Gone(harness[e])
        /\ turn[t].at \in Driving /\ turn[t].at # "evict"
    BY <1>26, <1>e DEF Caught, Driving
  <2>2. d \in HarnessRecords /\ Keeps(d, harness[e]) /\ Gone(d) BY <2>1, DisposedFields
  <2>3. /\ h \in HarnessRecords /\ Gone(h) /\ h.behind = harness[e].behind
        /\ h.running = harness[e].running /\ h.unstarted
    BY <2>2, MarkedFields DEF Gone, Keeps
  <2>4. Tell(turn[t], "failed") \in TurnRecords(n) /\ Alike(Tell(turn[t], "failed"),
      turn[t])
    BY <1>n, <1>f, TellFields DEF Terminals
  <2>5. "evict" \in Places /\ e \in 0 .. n /\ closing \in 0 .. n
    BY <2>1, <1>n DEF Places, Driving, Harnesses, Inv, TypeOK
  <2>6. a \in TurnRecords(n) /\ Alike(a, Tell(turn[t], "failed")) /\ a.at = "evict"
    BY <2>4, <2>5, <1>n, AtFields
  <2>7. r \in TurnRecords(n) /\ Alike(r, a) /\ r.at = a.at
    BY <2>5, <2>6, <1>n, DisposerFields
  <2>8. Stays(r, t) /\ r.at = "evict"
    BY <2>1, <2>4, <2>6, <2>7, <1>f DEF Alike, Fine, Driving
  <2>9. With(t, r) /\ Set(e, h) /\ sessions' = (IF sessions = e THEN 0 ELSE sessions)
        /\ closing' \in {closing, e}
    BY <1>26 DEF Caught, Dispose
  <2>10. sessions' \in {0, sessions} /\ sessions' # e BY <2>1, <2>9 DEF Harnesses
  <2>11. harness[e].running BY <1>f, <2>1 DEF Fine
  <2> HIDE DEF r, h
  <2>a. /\ r \in TurnRecords(Len(harness)) /\ With(t, r) /\ Set(e, h)
        /\ harness[e].running => h.running
        /\ r.at \in Driving => turn[t].at \in Driving /\ r.entry = turn[t].entry /\ h.running
        /\ r.at = "evict" /\ turn[t].at \in Driving
        /\ r.satisfied \subseteq r.proven /\ r.unproven = {}
    BY <2>3, <2>8, <2>9, <2>11, <1>n
  <2>12. /\ harness' \in Seq(HarnessRecords) /\ Len(harness') = Len(harness)
        /\ turn' \in [Turns -> TurnRecords(Len(harness'))] /\ Moving
    BY <2>1, <2>3, <2>10, <2>a, TurnStep
  <2> QED BY <1>26, <1>n, <2>5, <2>9, <2>12 DEF Caught, Inv, TypeOK, platform
<1>27. ASSUME NEW c \in Cancels, CancelIdle(c) PROVE TypeOK' /\ Moving
  <2>1. At(cancel[c], "idle") \in CancelRecords(n)
    BY <1>n, CancelFields DEF Inv, TypeOK
  <2>2. UNCHANGED <<platform, sessions, closing, harness, turn>> BY <1>27 DEF CancelIdle
  <2>3. Moving BY <2>2 DEF Inv, DrivingRuns, ClosedIsGone, TableIsFresh, HeardIsProven,
    HarnessIsExclusive, FailedClientsAreEvicted, AnswersAreEvidenced, Harnesses
  <2> QED BY <1>27, <1>n, <2>1, <2>2, <2>3 DEF CancelIdle, Inv, TypeOK, platform
<1>28. ASSUME NEW c \in Cancels, CancelSession(c) PROVE TypeOK' /\ Moving
  <2> DEFINE h == Disposed(sessions)
             a == At(cancel[c], "wait")
  <2>1. /\ sessions \in Harnesses /\ harness[sessions] \in HarnessRecords
        /\ Gone(harness[sessions]) /\ sessions \in 0 .. n /\ closing \in 0 .. n
        /\ cancel[c] \in CancelRecords(n)
    BY <1>28, <1>e, <1>n DEF CancelSession, Inv, TypeOK
  <2>2. h \in HarnessRecords /\ Keeps(h, harness[sessions]) /\ Gone(h)
    BY <2>1, DisposedFields
  <2>3. a \in CancelRecords(n) BY <2>1, <1>n, CancelFields
  <2>4. Disposer(a, sessions) \in CancelRecords(n) BY <2>1, <2>3, <1>n, CancelFields
  <2>5. Set(sessions, h) /\ UNCHANGED turn /\ sessions' = 0 /\ closing' \in {closing,
      sessions}
    BY <1>28 DEF CancelSession, Dispose
  <2> HIDE DEF h
  <2>6. harness' \in Seq(HarnessRecords) /\ Len(harness') = Len(harness) /\ Moving
    BY <2>1, <2>2, <2>5, ProcessStep
  <2> QED BY <1>28, <1>n, <2>1, <2>4, <2>5, <2>6 DEF CancelSession, Inv, TypeOK, platform
<1>29. ASSUME NEW c \in Cancels, Cancelled(c) PROVE TypeOK' /\ Moving
  <2>1. At(NewCancel, "cancelled") \in CancelRecords(n)
    BY <1>n, CancelFields DEF Inv, TypeOK
  <2>2. UNCHANGED <<platform, sessions, harness, turn>> /\ closing' \in {0, closing}
    BY <1>29 DEF Cancelled, Released
  <2>3. Moving BY <2>2 DEF Inv, DrivingRuns, ClosedIsGone, TableIsFresh, HeardIsProven,
    HarnessIsExclusive, FailedClientsAreEvicted, AnswersAreEvidenced, Harnesses
  <2> QED BY <1>29, <1>n, <2>1, <2>2, <2>3 DEF Cancelled, Inv, TypeOK, platform
<1>30. ASSUME NEW m \in Models, Reconfigure(m) PROVE TypeOK' /\ Moving
  <2>1. UNCHANGED <<faults, rounds, sessions, closing, harness, turn, cancel>>
    BY <1>30 DEF Reconfigure
  <2>2. Moving BY <2>1 DEF Inv, DrivingRuns, ClosedIsGone, TableIsFresh, HeardIsProven,
    HarnessIsExclusive, FailedClientsAreEvicted, AnswersAreEvidenced, Harnesses
  <2> QED BY <1>30, <2>1, <2>2 DEF Reconfigure, Inv, TypeOK
<1>31. ASSUME UNCHANGED vars PROVE TypeOK' /\ Moving
  BY <1>31 DEF vars, platform, Inv, TypeOK, DrivingRuns, ClosedIsGone, TableIsFresh,
    HeardIsProven, HarnessIsExclusive, FailedClientsAreEvicted, AnswersAreEvidenced,
        Harnesses
<1>32. ASSUME NEW t \in Turns, Caught(t) PROVE TypeOK' /\ Moving
  BY <1>25, <1>26, <1>32
<1> HIDE DEF Moving
<1> QED BY <1>1, <1>2, <1>3, <1>4, <1>5, <1>6, <1>7, <1>8, <1>9, <1>10, <1>11, <1>12,
    <1>13, <1>14, <1>15,
          <1>16, <1>17, <1>18, <1>19, <1>20, <1>21, <1>22, <1>23, <1>24, <1>27, <1>28,
              <1>29, <1>30, <1>31, <1>32
  DEF Next, Process, Accident, Handler, Agent, AgentEnds

-----------------------------------------------------------------------------
THEOREM InvCorrect == Spec => []Inv
BY InvInit, InvNext, PTL DEF Spec

\* Every variable keeps its type.
THEOREM TypeCorrect == Spec => []TypeOK
<1>1. Inv => TypeOK BY DEF Inv
<1> QED BY <1>1, InvCorrect, PTL

\* Two turns never drive one harness, and no harness has two processes.
THEOREM ExclusiveCorrect == Spec => []HarnessIsExclusive
<1>1. Inv => HarnessIsExclusive BY DEF Inv
<1> QED BY <1>1, InvCorrect, PTL

\* A client on which a turn failed to start is never driven again.
THEOREM EvictedCorrect == Spec => []FailedClientsAreEvicted
<1>1. Inv => FailedClientsAreEvicted BY DEF Inv
<1> QED BY <1>1, InvCorrect, PTL

\* Only a turn that called every required tool says anything to the user.
THEOREM EvidenceCorrect == Spec => []AnswersAreEvidenced
<1>1. Inv => AnswersAreEvidenced BY DEF Inv
<1> QED BY <1>1, InvCorrect, PTL

=============================================================================
