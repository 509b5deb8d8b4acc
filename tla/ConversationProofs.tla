------------------------- MODULE ConversationProofs -------------------------
(***************************************************************************)
(* Theorems about Conversation, for every number of answers, sessions,     *)
(* losses, every set of request threads and every set of user operations.  *)
(*                                                                         *)
(* Both invariants are inductive once types are known: a projection logs   *)
(* the event with the status and revokes every credential in the same      *)
(* transaction, and a credential committed later is told apart.  The two   *)
(* action properties need more: StreamKeepsSettled that the answer is read *)
(* under the lock, ClearedStaysCleared that no event is logged for an      *)
(* answer without a row.                                                   *)
(***************************************************************************)
EXTENDS Conversation, TLAPS

Inv == TypeOK /\ StatusJustified /\ SettledKeepsNoCredential

-----------------------------------------------------------------------------
(* The helpers the handlers share.                                          *)

\* An answer settles to a final status, by any event and from any status read.
LEMMA SettledTerminal ==
  ASSUME NEW event \in Terminal, NEW loaded \in MessageStates
  PROVE  /\ Settled(event, loaded) \in Terminal
         /\ Settled(event, loaded) \in {event, loaded}
         /\ Settled(event, loaded) = "completed" =>
              loaded = "completed" \/ event = "completed"
  BY DEF Settled, Terminal, MessageStates

\* What one projection does to the invariant's variables.
LEMMA ProjectEffect ==
  ASSUME TypeOK, NEW m \in Messages, NEW event \in Terminal,
         NEW loaded \in MessageStates, NEW convLoaded \in ConvStates,
         Project(m, event, loaded, convLoaded)
  PROVE  /\ conv' \in ConvStates
         /\ status' \in [Messages -> MessageStates]
         /\ quiet' \in [Messages -> BOOLEAN]
         /\ logged' \in [Messages -> SUBSET Terminal]
         /\ cred' \in [Messages -> Credentials]
         /\ \A n \in Messages : cred'[n] = "none"
         /\ \A n \in Messages : n # m =>
              status'[n] = status[n] /\ logged'[n] = logged[n]
         /\ logged'[m] = logged[m] \cup {event}
         /\ status'[m] \in {status[m], Settled(event, loaded)}
         /\ status'[m] = status[m] \/ loaded # Settled(event, loaded)
<1>1. Settled(event, loaded) \in MessageStates
  BY SettledTerminal DEF MessageStates
<1>2. conv' \in ConvStates /\ cred' \in [Messages -> Credentials]
      /\ \A n \in Messages : cred'[n] = "none"
  BY DEF Project, Written, TypeOK, ConvStates, Credentials
<1>3. status' \in [Messages -> MessageStates]
  BY <1>1 DEF Project, Written, TypeOK
<1>4. logged' \in [Messages -> SUBSET Terminal] /\ quiet' \in [Messages -> BOOLEAN]
  BY DEF Project, TypeOK
<1>5. /\ \A n \in Messages : n # m => status'[n] = status[n] /\ logged'[n] = logged[n]
      /\ logged'[m] = logged[m] \cup {event}
      /\ status'[m] \in {status[m], Settled(event, loaded)}
      /\ status'[m] = status[m] \/ loaded # Settled(event, loaded)
  BY DEF Project, Written, TypeOK
<1> QED BY <1>2, <1>3, <1>4, <1>5

\* A projection, whatever it had read, keeps the invariant's parts.
LEMMA ProjectKeeps ==
  ASSUME Inv, NEW m \in Messages, NEW event \in Terminal,
         NEW loaded \in MessageStates, NEW convLoaded \in ConvStates,
         Project(m, event, loaded, convLoaded)
  PROVE  StatusJustified' /\ SettledKeepsNoCredential'
<1>1. StatusJustified'
  BY ProjectEffect, SettledTerminal DEF Inv, StatusJustified
<1>2. SettledKeepsNoCredential'
  BY ProjectEffect DEF Inv, SettledKeepsNoCredential
<1> QED BY <1>1, <1>2

-----------------------------------------------------------------------------
(* Types.                                                                   *)

\* The helpers that only move a request thread leave it well typed.
LEMMA ThreadTypes ==
  ASSUME TypeOK, NEW t \in Threads
  PROVE  /\ Release(t) => (thread' \in [Threads -> ThreadStates])
         /\ Closing(t) => (thread' \in [Threads -> ThreadStates])
         /\ \A op \in AllOps, m \in 0..(MaxMessages + 1) :
              Load(t, op, m) => (thread' \in [Threads -> ThreadStates])
<1>1. Idle \in ThreadStates
  BY BoundsAssumption DEF Idle, ThreadStates, ThreadSteps, ConvStates, Sessions
<1>2. Release(t) => (thread' \in [Threads -> ThreadStates])
  BY <1>1 DEF Release, TypeOK
<1>3. ASSUME Closing(t) PROVE thread' \in [Threads -> ThreadStates]
  <2>1. [Idle EXCEPT !.step = "closing", !.sess = thread[t].sess] \in ThreadStates
    BY <1>1 DEF Idle, TypeOK, ThreadStates, ThreadSteps
  <2> QED BY <1>3, <2>1 DEF Closing, TypeOK
<1>4. ASSUME NEW op \in AllOps, NEW m \in 0..(MaxMessages + 1), Load(t, op, m)
      PROVE  thread' \in [Threads -> ThreadStates]
  <2>1. op \in ThreadSteps BY DEF AllOps, ThreadSteps
  <2> QED BY <1>4, <2>1 DEF Load, TypeOK, ThreadStates
<1> QED BY <1>2, <1>3, <1>4

\* Closing the Harness of a session leaves the running turns well typed.
LEMMA RunningTypes ==
  ASSUME TypeOK, NEW s, CancelRuntime(s) \/ running' = Stopped(s)
  PROVE  /\ running' \in [Messages -> BOOLEAN]
         /\ \A n \in Messages : ~running[n] => ~running'[n]
  BY DEF CancelRuntime, Stopped, TypeOK

\* A step of a request thread keeps the types.
LEMMA RequestTypes ==
  ASSUME TypeOK, NEW t \in Threads, Request(t)
  PROVE  TypeOK'
<1> USE DEF row, msgs, creds, turn
<1>1. CASE SendLoad(t)
  <2>1. thread' \in [Threads -> ThreadStates]
    BY <1>1, ThreadTypes DEF SendLoad, AllOps, TypeOK
  <2> QED BY <1>1, <2>1 DEF SendLoad, TypeOK
<1>2. CASE RetryLoad(t)
  <2>1. thread' \in [Threads -> ThreadStates]
    BY <1>2, ThreadTypes DEF RetryLoad, AllOps, TypeOK
  <2> QED BY <1>2, <2>1 DEF RetryLoad, TypeOK
<1>3. CASE CancelLoad(t)
  <2>1. thread' \in [Threads -> ThreadStates]
    BY <1>3, ThreadTypes, BoundsAssumption DEF CancelLoad, AllOps
  <2> QED BY <1>3, <2>1 DEF CancelLoad, TypeOK
<1>4. CASE ReadLoad(t)
  <2>1. thread' \in [Threads -> ThreadStates]
    BY <1>4, ThreadTypes, BoundsAssumption DEF ReadLoad, AllOps
  <2> QED BY <1>4, <2>1 DEF ReadLoad, TypeOK
<1>5. CASE DeleteLoad(t)
  <2>1. thread' \in [Threads -> ThreadStates]
    BY <1>5, ThreadTypes, BoundsAssumption DEF DeleteLoad, AllOps
  <2>2. running' \in [Messages -> BOOLEAN]
    BY <1>5, RunningTypes DEF DeleteLoad
  <2> QED BY <1>5, <2>1, <2>2 DEF DeleteLoad, TypeOK
<1>6. CASE ClearLoad(t)
  <2>1. thread' \in [Threads -> ThreadStates]
    BY <1>6, ThreadTypes, BoundsAssumption DEF ClearLoad, AllOps
  <2>2. running' \in [Messages -> BOOLEAN]
    BY <1>6, RunningTypes DEF ClearLoad
  <2> QED BY <1>6, <2>1, <2>2 DEF ClearLoad, TypeOK
<1> QED BY <1>1, <1>2, <1>3, <1>4, <1>5, <1>6 DEF Request

\* A step that serves a request keeps the types.
LEMMA ServeTypes ==
  ASSUME TypeOK, NEW t \in Threads, Serve(t)
  PROVE  TypeOK'
<1> USE DEF row, msgs, creds, turn
<1>0. /\ thread[t] \in ThreadStates
      /\ thread[t].conv \in ConvStates
      /\ thread[t].sess \in Sessions
      /\ thread[t].msg \in 0..(MaxMessages + 1)
  BY DEF TypeOK, ThreadStates
<1>1. CASE SendCommit(t)
  <2>1. created + 1 \in Messages /\ created' \in 0..(MaxMessages + 1)
    BY <1>1, BoundsAssumption DEF SendCommit, TypeOK, Messages
  <2>2. thread' \in [Threads -> ThreadStates] BY <1>1, ThreadTypes DEF SendCommit
  <2>3. conv' \in ConvStates BY <1>0, <1>1 DEF SendCommit, Written, TypeOK, ConvStates
  <2>4. status' \in [Messages -> MessageStates]
    BY <1>1 DEF SendCommit, TypeOK, MessageStates
  <2>5. bridge' \in [Messages -> BridgePhases] /\ sess' \in [Messages -> Sessions]
    BY <1>0, <1>1 DEF SendCommit, TypeOK, BridgePhases
  <2> QED BY <1>1, <2>1, <2>2, <2>3, <2>4, <2>5 DEF SendCommit, TypeOK
<1>2. CASE RetryCommit(t)
  <2>1. created' \in 0..(MaxMessages + 1)
    BY <1>2, BoundsAssumption DEF RetryCommit, TypeOK
  <2>2. thread' \in [Threads -> ThreadStates] BY <1>2, ThreadTypes DEF RetryCommit
  <2>3. conv' \in ConvStates BY <1>0, <1>2 DEF RetryCommit, Written, TypeOK, ConvStates
  <2>4. status' \in [Messages -> MessageStates]
    BY <1>2 DEF RetryCommit, TypeOK, MessageStates
  <2> QED BY <1>2, <2>1, <2>2, <2>3, <2>4 DEF RetryCommit, TypeOK
<1>3. CASE CreateConflict(t) \/ ReadFresh(t) \/ ProjectConflict(t) \/ ClearConflict(t)
  <2>1. thread' \in [Threads -> ThreadStates]
    BY <1>3, ThreadTypes DEF CreateConflict, ReadFresh, ProjectConflict, ClearConflict
  <2> QED BY <1>3, <2>1
        DEF CreateConflict, ReadFresh, ProjectConflict, ClearConflict, TypeOK
<1>4. CASE CancelSelect(t) \/ ReadStale(t)
  <2>1. PICK m \in Messages : Select(t, "cancelling", m) \/ Select(t, "reading", m)
    BY <1>4 DEF CancelSelect, ReadStale
  <2>2. m \in 0..(MaxMessages + 1) BY BoundsAssumption DEF Messages
  <2>3. thread' \in [Threads -> ThreadStates]
    BY <1>0, <2>1, <2>2 DEF Select, TypeOK, ThreadStates, ThreadSteps
  <2> QED BY <1>4, <2>3 DEF CancelSelect, ReadStale, TypeOK
<1>5. CASE CancelNothing(t)
  <2>1. thread' \in [Threads -> ThreadStates]
    BY <1>5, ThreadTypes DEF CancelNothing
  <2>2. conv' \in ConvStates BY <1>0, <1>5 DEF CancelNothing, Written, TypeOK, ConvStates
  <2> QED BY <1>5, <2>1, <2>2 DEF CancelNothing, TypeOK
<1>6. CASE CancelCommit(t) \/ ReadCommit(t)
  <2>1. thread' \in [Threads -> ThreadStates]
    BY <1>6, ThreadTypes DEF CancelCommit, ReadCommit
  <2>2. PICK m \in Messages, event \in Terminal :
          Project(m, event, "generating", thread[t].conv)
    BY <1>6 DEF CancelCommit, ReadCommit, Terminal
  <2>3. "generating" \in MessageStates BY DEF MessageStates
  <2>4. /\ conv' \in ConvStates /\ status' \in [Messages -> MessageStates]
        /\ logged' \in [Messages -> SUBSET Terminal] /\ cred' \in [Messages -> Credentials]
        /\ quiet' \in [Messages -> BOOLEAN]
    BY <1>0, <2>2, <2>3, ProjectEffect
  <2> QED BY <1>6, <2>1, <2>4 DEF CancelCommit, ReadCommit, TypeOK
<1>7. CASE CancelClose(t)
  <2>1. thread' \in [Threads -> ThreadStates] BY <1>7, ThreadTypes DEF CancelClose
  <2>2. running' \in [Messages -> BOOLEAN] BY <1>7, RunningTypes DEF CancelClose
  <2> QED BY <1>7, <2>1, <2>2 DEF CancelClose, TypeOK
<1>8. CASE ReadRepair(t)
  <2>1. thread' \in [Threads -> ThreadStates] BY <1>8, ThreadTypes DEF ReadRepair
  <2>2. conv' \in ConvStates BY <1>0, <1>8 DEF ReadRepair, Written, TypeOK, ConvStates
  <2> QED BY <1>8, <2>1, <2>2 DEF ReadRepair, TypeOK
<1>9. CASE DeleteCommit(t)
  <2>1. thread' \in [Threads -> ThreadStates] BY <1>9, ThreadTypes DEF DeleteCommit
  <2>2. conv' \in ConvStates BY <1>0, <1>9 DEF DeleteCommit, Written, TypeOK, ConvStates
  <2> QED BY <1>9, <2>1, <2>2 DEF DeleteCommit, TypeOK, Credentials
<1>10. CASE ClearCommit(t)
  <2>1. thread' \in [Threads -> ThreadStates] BY <1>10, ThreadTypes DEF ClearCommit
  <2>2. conv' \in ConvStates BY <1>0, <1>10 DEF ClearCommit, Written, TypeOK, ConvStates
  <2>3. session' \in Sessions BY <1>10, BoundsAssumption DEF ClearCommit, TypeOK, Sessions
  <2>4. status' \in [Messages -> MessageStates]
    BY <1>10 DEF ClearCommit, MessageStates
  <2>5. cred' \in [Messages -> Credentials] BY <1>10 DEF ClearCommit, Credentials
  <2> QED BY <1>10, <2>1, <2>2, <2>3, <2>4, <2>5 DEF ClearCommit, TypeOK
<1> QED BY <1>1, <1>2, <1>3, <1>4, <1>5, <1>6, <1>7, <1>8, <1>9, <1>10 DEF Serve

\* A step of a stream, of a tool, of the clock or a loss keeps the types.
LEMMA TurnTypes ==
  ASSUME TypeOK, NEW m \in Messages,
         Stream(m) \/ BridgeDelta(m) \/ BridgeLost(m) \/ Tool(m) \/ GoesQuiet(m)
  PROVE  TypeOK'
<1> USE DEF row, msgs, creds, turn
<1>0. status[m] \in MessageStates /\ seen[m] \in MessageStates /\ conv \in ConvStates
  BY DEF TypeOK
<1>1. CASE BridgeOpen(m) \/ BridgeRaise(m) \/ BridgeEnd(m) \/ BridgeOrphan(m)
  BY <1>1 DEF BridgeOpen, BridgeRaise, BridgeEnd, BridgeOrphan, TypeOK, BridgePhases, MessageStates
<1>2. CASE BridgeLeave(m)
  <2>1. running' \in [Messages -> BOOLEAN] BY <1>2, RunningTypes DEF BridgeLeave
  <2> QED BY <1>2, <2>1 DEF BridgeLeave, TypeOK, BridgePhases
<1>3. CASE BridgeCatch(m)
  BY <1>0, <1>3 DEF BridgeCatch, TypeOK, BridgePhases
<1>4. CASE BridgeLeft(m) \/ BridgeFail(m)
  <2>1. PICK event \in Terminal, loaded \in MessageStates : Project(m, event, loaded, conv)
    BY <1>0, <1>4 DEF BridgeLeft, BridgeFail, Terminal
  <2>2. /\ conv' \in ConvStates /\ status' \in [Messages -> MessageStates]
        /\ logged' \in [Messages -> SUBSET Terminal] /\ cred' \in [Messages -> Credentials]
        /\ quiet' \in [Messages -> BOOLEAN]
    BY <1>0, <2>1, ProjectEffect
  <2>3. seen' \in [Messages -> MessageStates]
    BY <1>4 DEF BridgeLeft, BridgeFail, TypeOK, MessageStates
  <2> QED BY <1>4, <2>2, <2>3 DEF BridgeLeft, BridgeFail, TypeOK, BridgePhases
<1>5. ASSUME NEW event \in Terminal, BridgeTerminal(m, event) PROVE TypeOK'
  <2>1. /\ conv' \in ConvStates /\ status' \in [Messages -> MessageStates]
        /\ logged' \in [Messages -> SUBSET Terminal] /\ cred' \in [Messages -> Credentials]
        /\ quiet' \in [Messages -> BOOLEAN]
    <3>1. CASE Dropped(event, status[m])
      BY <1>5, <3>1 DEF BridgeTerminal, TypeOK
    <3>2. CASE ~Dropped(event, status[m])
      BY <1>0, <1>5, <3>2, ProjectEffect DEF BridgeTerminal
    <3> QED BY <3>1, <3>2
  <2> QED BY <1>5, <2>1 DEF BridgeTerminal, TypeOK, BridgePhases
<1>6. CASE BridgeDelta(m) \/ GoesQuiet(m)
  BY <1>6 DEF BridgeDelta, GoesQuiet, TypeOK
<1>7. CASE BridgeLost(m)
  BY <1>7, BoundsAssumption DEF BridgeLost, TypeOK, BridgePhases, MessageStates
<1>8. CASE Tool(m)
  BY <1>8 DEF Tool, IssueCheck, IssueCommit, CredentialExpires, HarnessStops, TypeOK,
     Credentials
<1> QED BY <1>1, <1>2, <1>3, <1>4, <1>5, <1>6, <1>7, <1>8 DEF Stream

LEMMA CrashTypes ==
  ASSUME TypeOK, ApiCrash
  PROVE  TypeOK'
<1> USE DEF row, msgs, creds
<1>1. Idle \in ThreadStates
  BY BoundsAssumption DEF Idle, ThreadStates, ThreadSteps, ConvStates, Sessions
<1>2. thread' \in [Threads -> ThreadStates] BY <1>1 DEF ApiCrash
<1>3. bridge' \in [Messages -> BridgePhases] BY DEF ApiCrash, BridgePhases
<1>4. losses' \in 0..MaxLosses BY BoundsAssumption DEF ApiCrash, TypeOK
<1>5. seen' \in [Messages -> MessageStates] BY DEF ApiCrash, MessageStates
<1> QED BY <1>2, <1>3, <1>4, <1>5 DEF ApiCrash, TypeOK

\* Every step keeps the types.
LEMMA TypeStep ==
  ASSUME TypeOK, [Next]_vars
  PROVE  TypeOK'
<1>1. CASE UNCHANGED vars BY <1>1 DEF vars, TypeOK
<1>2. CASE Next BY <1>2, RequestTypes, ServeTypes, TurnTypes, CrashTypes DEF Next
<1> QED BY <1>1, <1>2

LEMMA InitInv == Init => Inv
<1> SUFFICES ASSUME Init PROVE Inv OBVIOUS
<1>1. Idle \in ThreadStates
  BY BoundsAssumption DEF Idle, ThreadStates, ThreadSteps, ConvStates, Sessions
<1>2. conv \in ConvStates /\ session \in Sessions
  BY BoundsAssumption DEF Init, ConvStates, Sessions
<1>3. deleted \in BOOLEAN BY Zenon DEF Init
<1>4. created \in 0..(MaxMessages + 1) /\ losses \in 0..MaxLosses
  BY BoundsAssumption DEF Init
<1>5. /\ status \in [Messages -> MessageStates] /\ seen \in [Messages -> MessageStates]
      /\ quiet \in [Messages -> BOOLEAN] /\ cred \in [Messages -> Credentials]
      /\ issuing \in [Messages -> BOOLEAN] /\ running \in [Messages -> BOOLEAN]
      /\ logged \in [Messages -> SUBSET Terminal]
      /\ bridge \in [Messages -> BridgePhases]
  BY DEF Init, MessageStates, Credentials, BridgePhases
<1>6. sess \in [Messages -> Sessions] /\ thread \in [Threads -> ThreadStates]
  BY <1>1, BoundsAssumption DEF Init, Sessions
<1>7. TypeOK BY <1>2, <1>3, <1>4, <1>5, <1>6 DEF TypeOK
<1> QED BY <1>7 DEF Init, Inv, StatusJustified, SettledKeepsNoCredential, Terminal

-----------------------------------------------------------------------------
(* The invariant.                                                           *)

\* Steps that settle no answer and commit no credential.
LEMMA QuietStep ==
  ASSUME Inv, UNCHANGED <<status, logged>>,
         \A n \in Messages : cred'[n] = "held" => cred[n] = "held"
  PROVE  StatusJustified' /\ SettledKeepsNoCredential'
  BY DEF Inv, StatusJustified, SettledKeepsNoCredential

LEMMA RequestInv ==
  ASSUME Inv, NEW t \in Threads, Request(t)
  PROVE  StatusJustified' /\ SettledKeepsNoCredential'
<1>1. UNCHANGED <<status, logged, cred>>
  BY DEF Request, SendLoad, RetryLoad, CancelLoad, ReadLoad, DeleteLoad, ClearLoad,
     msgs, creds
<1> QED BY <1>1, QuietStep

LEMMA ServeInv ==
  ASSUME Inv, NEW t \in Threads, Serve(t)
  PROVE  StatusJustified' /\ SettledKeepsNoCredential'
<1> USE DEF row, msgs, creds
<1>0. TypeOK /\ thread[t].conv \in ConvStates
  BY DEF Inv, TypeOK, ThreadStates
<1>1. CASE SendCommit(t) \/ RetryCommit(t)
  <2>1. \A n \in Messages : status'[n] = IF n = created + 1 THEN "generating" ELSE status[n]
    BY <1>0, <1>1 DEF SendCommit, RetryCommit, TypeOK
  <2>2. UNCHANGED <<logged, cred>> BY <1>1 DEF SendCommit, RetryCommit
  <2> QED BY <2>1, <2>2 DEF Inv, StatusJustified, SettledKeepsNoCredential, Terminal
<1>2. CASE CreateConflict(t) \/ ReadFresh(t) \/ ProjectConflict(t) \/ ClearConflict(t)
           \/ CancelSelect(t) \/ ReadStale(t) \/ CancelNothing(t) \/ ReadRepair(t)
           \/ CancelClose(t)
  <2>1. UNCHANGED <<status, logged, cred>>
    BY <1>2 DEF CreateConflict, ReadFresh, ProjectConflict, ClearConflict,
       CancelSelect, ReadStale, CancelNothing, ReadRepair, CancelClose
  <2> QED BY <2>1, QuietStep
<1>3. CASE CancelCommit(t) \/ ReadCommit(t)
  <2>1. PICK m \in Messages, event \in Terminal :
          Project(m, event, "generating", thread[t].conv)
    BY <1>3 DEF CancelCommit, ReadCommit, Terminal
  <2>2. "generating" \in MessageStates BY DEF MessageStates
  <2> QED BY <1>0, <2>1, <2>2, ProjectKeeps
<1>4. CASE DeleteCommit(t)
  BY <1>4, QuietStep DEF DeleteCommit
<1>5. CASE ClearCommit(t)
  <2>1. \A n \in Messages : status'[n] = "absent" BY <1>5 DEF ClearCommit
  <2> QED BY <2>1 DEF StatusJustified, SettledKeepsNoCredential, Terminal
<1> QED BY <1>1, <1>2, <1>3, <1>4, <1>5 DEF Serve

LEMMA TurnInv ==
  ASSUME Inv, NEW m \in Messages,
         Stream(m) \/ BridgeDelta(m) \/ BridgeLost(m) \/ Tool(m) \/ GoesQuiet(m)
  PROVE  StatusJustified' /\ SettledKeepsNoCredential'
<1> USE DEF row, msgs, creds
<1>0. /\ TypeOK
      /\ status[m] \in MessageStates /\ seen[m] \in MessageStates /\ conv \in ConvStates
  BY DEF Inv, TypeOK
<1>1. CASE \/ BridgeOpen(m) \/ BridgeRaise(m) \/ BridgeEnd(m) \/ BridgeOrphan(m)
           \/ BridgeLost(m) \/ BridgeCatch(m) \/ BridgeLeave(m) \/ BridgeDelta(m)
           \/ GoesQuiet(m) \/ IssueCheck(m) \/ HarnessStops(m)
  <2>1. UNCHANGED <<status, logged, cred>>
    BY <1>1 DEF BridgeOpen, BridgeRaise, BridgeEnd, BridgeOrphan, BridgeLost, BridgeCatch,
       BridgeLeave, BridgeDelta, GoesQuiet, IssueCheck, HarnessStops
  <2> QED BY <2>1, QuietStep
<1>2. CASE BridgeLeft(m) \/ BridgeFail(m)
  <2>1. PICK event \in Terminal, loaded \in MessageStates : Project(m, event, loaded, conv)
    BY <1>0, <1>2 DEF BridgeLeft, BridgeFail, Terminal
  <2> QED BY <1>0, <2>1, ProjectKeeps
<1>3. ASSUME NEW event \in Terminal, BridgeTerminal(m, event)
      PROVE  StatusJustified' /\ SettledKeepsNoCredential'
  <2>1. CASE Dropped(event, status[m])
    BY <1>3, <2>1, QuietStep DEF BridgeTerminal
  <2>2. CASE ~Dropped(event, status[m])
    BY <1>0, <1>3, <2>2, ProjectKeeps DEF BridgeTerminal
  <2> QED BY <2>1, <2>2
<1>4. CASE IssueCommit(m)
  <2>1. \A n \in Messages : n # m => cred'[n] = cred[n]
    BY <1>0, <1>4 DEF IssueCommit, TypeOK
  <2>2. status[m] \in Terminal => cred'[m] = "late"
    BY <1>0, <1>4 DEF IssueCommit, TypeOK
  <2>3. UNCHANGED <<status, logged>> BY <1>4 DEF IssueCommit
  <2> QED BY <2>1, <2>2, <2>3 DEF Inv, StatusJustified, SettledKeepsNoCredential
<1>5. CASE CredentialExpires(m)
  <2>1. \A n \in Messages : cred'[n] = "held" => cred[n] = "held"
    BY <1>0, <1>5 DEF CredentialExpires, TypeOK
  <2> QED BY <1>5, <2>1, QuietStep DEF CredentialExpires
<1> QED BY <1>1, <1>2, <1>3, <1>4, <1>5 DEF Stream, Tool

LEMMA CrashInv ==
  ASSUME Inv, ApiCrash
  PROVE  StatusJustified' /\ SettledKeepsNoCredential'
  BY QuietStep DEF ApiCrash, msgs

LEMMA InvStep == Inv /\ [Next]_vars => Inv'
<1> SUFFICES ASSUME Inv, [Next]_vars PROVE Inv' OBVIOUS
<1>1. TypeOK' BY TypeStep DEF Inv
<1>2. StatusJustified' /\ SettledKeepsNoCredential'
  <2>1. CASE UNCHANGED vars
    BY <2>1 DEF vars, Inv, StatusJustified, SettledKeepsNoCredential
  <2>2. CASE Next
    BY <2>2, RequestInv, ServeInv, TurnInv, CrashInv DEF Next
  <2> QED BY <2>1, <2>2
<1> QED BY <1>1, <1>2 DEF Inv

\* The inductive invariant holds in every reachable state.
THEOREM Invariance == Spec => []Inv
  BY InitInv, InvStep, PTL DEF Spec

-----------------------------------------------------------------------------
(* The theorems.                                                            *)

\* Every reachable state is well typed.
THEOREM TypeCorrect == Spec => []TypeOK
<1>1. Inv => TypeOK BY DEF Inv
<1> QED BY <1>1, Invariance, PTL

\* Whatever the handlers had read, a final status is backed by its event.
THEOREM StatusAlwaysJustified == Spec => []StatusJustified
<1>1. Inv => StatusJustified BY DEF Inv
<1> QED BY <1>1, Invariance, PTL

\* Whoever settled the answer and whatever it had read, no credential committed
\* before is usable afterwards.  A request that was already checked, or one of a
\* Harness that runs on, may still commit a new one: nothing prevents it.
THEOREM SettledNeverKeepsCredential == Spec => []SettledKeepsNoCredential
<1>1. Inv => SettledKeepsNoCredential BY DEF Inv
<1> QED BY <1>1, Invariance, PTL

\* Neither an event read from a stream nor the cancellation of a client that left
\* rewrites a settled answer: the answer is read under the lock of the
\* conversation's row.  The turn_failed of the except clause (BridgeFail), decided
\* on what was read before the lock, is not covered and does rewrite one.
THEOREM StreamAlwaysKeepsSettled == Spec => StreamKeepsSettled
<1> DEFINE Kept == \A m \in Messages :
      (BridgeLeft(m) \/ \E event \in Terminal : BridgeTerminal(m, event))
        => EventKeepsSettled(m)
<1>1. TypeOK => Kept
  <2> SUFFICES ASSUME TypeOK, NEW m \in Messages,
                      BridgeLeft(m) \/ \E event \in Terminal : BridgeTerminal(m, event)
               PROVE  EventKeepsSettled(m)
    OBVIOUS
  <2>1. status[m] \in MessageStates BY DEF TypeOK
  <2>2. PICK event \in Terminal :
          \/ UNCHANGED <<status, logged>>
          \/ Project(m, event, status[m], conv) /\ ~Dropped(event, status[m])
    BY DEF BridgeLeft, BridgeTerminal, Terminal, Dropped
  <2>3. CASE UNCHANGED <<status, logged>> BY <2>3 DEF EventKeepsSettled
  <2>4. CASE Project(m, event, status[m], conv) /\ ~Dropped(event, status[m])
    BY <2>1, <2>4 DEF Project, Written, Settled, Dropped, EventKeepsSettled, TypeOK, Terminal
  <2> QED BY <2>2, <2>3, <2>4
<1>2. TypeOK /\ [Next]_vars => [Kept]_vars
  BY <1>1
<1> QED BY <1>2, TypeCorrect, PTL DEF Spec, StreamKeepsSettled

-----------------------------------------------------------------------------
(* A cleared answer stays cleared.                                          *)

\* An answer without a row has no event: the induction needs it, because the
\* rows beyond the newest one are absent too and get their row from a send or
\* a retry.
AbsentUnlogged == \A m \in Messages : status[m] = "absent" => logged[m] = {}

\* What a step may do to an answer without a row: give a row to the next one.
StaysCleared(m) ==
  /\ status[m] = "absent" =>
       (status'[m] = "absent" \/ m = created + 1) /\ logged'[m] = {}
  /\ status'[m] = "absent" => logged'[m] = {}

\* A projection meets an answer that still has its row, and leaves it one.
LEMMA ProjectSparesCleared ==
  ASSUME TypeOK, AbsentUnlogged, NEW m \in Messages, NEW event \in Terminal,
         NEW loaded \in MessageStates, NEW convLoaded \in ConvStates,
         Project(m, event, loaded, convLoaded), status[m] # "absent"
  PROVE  \A n \in Messages : StaysCleared(n)
<1>1. status'[m] # "absent"
  BY ProjectEffect, SettledTerminal DEF Terminal
<1> QED BY <1>1, ProjectEffect DEF StaysCleared, AbsentUnlogged

LEMMA ClearedStep ==
  ASSUME TypeOK, AbsentUnlogged, [Next]_vars
  PROVE  \A n \in Messages : StaysCleared(n)
<1> USE DEF row, msgs, creds, turn
<1>0. ASSUME UNCHANGED <<status, logged>>
      PROVE  \A n \in Messages : StaysCleared(n)
  BY <1>0 DEF StaysCleared, AbsentUnlogged
<1>1. CASE UNCHANGED vars \/ ApiCrash
  BY <1>0, <1>1 DEF vars, ApiCrash
<1>2. ASSUME NEW t \in Threads, Request(t)
      PROVE  \A n \in Messages : StaysCleared(n)
  BY <1>0, <1>2 DEF Request, SendLoad, RetryLoad, CancelLoad, ReadLoad, DeleteLoad, ClearLoad
<1>3. ASSUME NEW t \in Threads, Serve(t)
      PROVE  \A n \in Messages : StaysCleared(n)
  <2>1. CASE SendCommit(t) \/ RetryCommit(t)
    <3>1. \A n \in Messages : status'[n] = IF n = created + 1 THEN "generating" ELSE status[n]
      BY <1>3, <2>1 DEF SendCommit, RetryCommit, TypeOK
    <3>2. UNCHANGED logged BY <2>1 DEF SendCommit, RetryCommit
    <3> QED BY <3>1, <3>2 DEF StaysCleared, AbsentUnlogged
  <2>2. CASE CancelCommit(t) \/ ReadCommit(t)
    <3>1. PICK m \in Messages, event \in Terminal :
            status[m] # "absent" /\ Project(m, event, "generating", thread[t].conv)
      BY <2>2 DEF CancelCommit, ReadCommit, Terminal
    <3>2. "generating" \in MessageStates /\ thread[t].conv \in ConvStates
      BY DEF MessageStates, TypeOK, ThreadStates
    <3> QED BY <3>1, <3>2, ProjectSparesCleared
  <2>3. CASE ClearCommit(t)
    BY <2>3 DEF ClearCommit, StaysCleared
  <2>4. CASE \/ CreateConflict(t) \/ CancelSelect(t) \/ CancelNothing(t) \/ CancelClose(t)
             \/ ReadRepair(t) \/ ReadFresh(t) \/ ReadStale(t) \/ ProjectConflict(t)
             \/ DeleteCommit(t) \/ ClearConflict(t)
    BY <1>0, <2>4 DEF CreateConflict, CancelSelect, CancelNothing, CancelClose,
       ReadRepair, ReadFresh, ReadStale, ProjectConflict, DeleteCommit, ClearConflict
  <2> QED BY <1>3, <2>1, <2>2, <2>3, <2>4 DEF Serve
<1>4. ASSUME NEW m \in Messages,
             Stream(m) \/ BridgeDelta(m) \/ BridgeLost(m) \/ Tool(m) \/ GoesQuiet(m)
      PROVE  \A n \in Messages : StaysCleared(n)
  <2>0. status[m] \in MessageStates /\ seen[m] \in MessageStates /\ conv \in ConvStates
    BY DEF TypeOK
  <2>1. CASE BridgeLeft(m) \/ BridgeFail(m)
    <3>1. PICK event \in Terminal, loaded \in MessageStates :
            status[m] # "absent" /\ Project(m, event, loaded, conv)
      BY <2>0, <2>1 DEF BridgeLeft, BridgeFail, Terminal
    <3> QED BY <2>0, <3>1, ProjectSparesCleared
  <2>2. ASSUME NEW event \in Terminal, BridgeTerminal(m, event)
        PROVE  \A n \in Messages : StaysCleared(n)
    <3>1. CASE Dropped(event, status[m]) BY <1>0, <2>2, <3>1 DEF BridgeTerminal
    <3>2. CASE ~Dropped(event, status[m])
      BY <2>0, <2>2, <3>2, ProjectSparesCleared DEF BridgeTerminal
    <3> QED BY <3>1, <3>2
  <2>3. CASE \/ BridgeOpen(m) \/ BridgeRaise(m) \/ BridgeEnd(m) \/ BridgeLeave(m)
             \/ BridgeCatch(m) \/ BridgeOrphan(m) \/ BridgeDelta(m) \/ BridgeLost(m)
             \/ Tool(m) \/ GoesQuiet(m)
    BY <1>0, <2>3 DEF BridgeOpen, BridgeRaise, BridgeEnd, BridgeLeave, BridgeCatch,
       BridgeOrphan, BridgeDelta, BridgeLost, Tool, IssueCheck, IssueCommit, CredentialExpires,
       HarnessStops, GoesQuiet
  <2> QED BY <1>4, <2>1, <2>2, <2>3 DEF Stream
<1> QED BY <1>1, <1>2, <1>3, <1>4 DEF Next

\* An answer that was cleared never gets a row or an event again, whatever a
\* cancellation, a reconciliation or a stream that still runs had read of it.
THEOREM ClearedAlwaysStaysCleared == Spec => ClearedStaysCleared
<1> DEFINE Stays == \A m \in 1..created : status[m] = "absent" =>
                      status'[m] = "absent" /\ logged'[m] = {}
<1>1. Init => AbsentUnlogged BY DEF Init, AbsentUnlogged
<1>2. TypeOK /\ AbsentUnlogged /\ [Next]_vars => AbsentUnlogged'
  BY ClearedStep DEF StaysCleared, AbsentUnlogged
<1>3. TypeOK /\ AbsentUnlogged /\ [Next]_vars => [Stays]_vars
  <2> SUFFICES ASSUME TypeOK, AbsentUnlogged, [Next]_vars, NEW m \in 1..created,
                      status[m] = "absent"
               PROVE  status'[m] = "absent" /\ logged'[m] = {}
    OBVIOUS
  <2>1. m \in Messages /\ m # created + 1
    BY BoundsAssumption DEF TypeOK, Messages
  <2> QED BY <2>1, ClearedStep DEF StaysCleared
<1> QED BY <1>1, <1>2, <1>3, TypeCorrect, PTL DEF Spec, ClearedStaysCleared
=============================================================================
