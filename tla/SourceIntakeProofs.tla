------------------------- MODULE SourceIntakeProofs -------------------------
(***************************************************************************)
(* Theorems about SourceIntake, for every number of contents, documents,   *)
(* jobs, workers and incidents.                                            *)
(*                                                                         *)
(* None of the invariants of the runs is inductive.  TypeOK needs to know  *)
(* what a sync has fetched, selected and made at each of its steps         *)
(* (SyncKnows), what scheduler and request still have to send             *)
(* (MakersHold), and that a parse job which is waited for, worked on or    *)
(* retried has a subject (SubjectKnown); and that needs in turn that only  *)
(* one party has to send a job, and nobody works on it yet (UnsentIdle).   *)
(* BusyIsBacked needs that it is a parse before its commit that keeps a    *)
(* version processing.  NumbersWithoutGap needs what a transaction that    *)
(* has computed a number can rely on until it commits: the number's        *)
(* predecessor is committed (NumberFollows), its keys are not taken and    *)
(* no other transaction holds them (KeysHeld).                             *)
(***************************************************************************)
EXTENDS SourceIntake, FiniteSetTheorems, TLAPS

Sending == {"dispatch", "resend"}

\* What a sync remembers at each step.
SyncKnows ==
  \A j \in SyncJobs :
    /\ at[j] \in {"away"} \cup SyncSteps
    /\ at[j] # "away" => digest[j] \in Contents
    /\ at[j] \in {"insert", "put", "commit", "undo", "dispatch"} => document[j] \in Documents
    /\ at[j] \in Sending => child[j] \in ParseJobs

ParsesParse == \A p \in ParseJobs : at[p] \in {"away"} \cup ParseSteps

\* What scheduler and request have to insert or to send.
MakersHold ==
  /\ beat.at = "made" => beat.job \in SyncJobs
  /\ api.at = "made" => api.job \in Jobs
  /\ api.at = "stored" => api.version \in Versions

\* Parse jobs that are committed and that somebody is about to send.
SentByApi(p) == api.at = "made" /\ api.job = p
SentBy(j, p) == at[j] \in Sending /\ child[j] = p
Unsent(p) == SentByApi(p) \/ \E j \in SyncJobs : SentBy(j, p)

UnsentIdle ==
  \A p \in ParseJobs : Unsent(p) => status[p] = "queued" /\ at[p] = "away" /\ p \notin broker

\* One party sends it.
OneSender ==
  \A p \in ParseJobs, j \in SyncJobs : SentBy(j, p) =>
    /\ ~SentByApi(p)
    /\ \A i \in SyncJobs : SentBy(i, p) => i = j

SubjectKnown ==
  \A p \in ParseJobs :
    at[p] # "away" \/ p \in broker \/ Unsent(p) \/ status[p] = "failed"
      => subject[p] \in Versions

Owned == SyncKnows /\ ParsesParse /\ MakersHold /\ UnsentIdle /\ OneSender /\ SubjectKnown
Inv == TypeOK /\ Owned

-----------------------------------------------------------------------------
Parses(p, v) == subject[p] = v /\ (at[p] \in {"parse", "persist"} \/ p \in broker)
ProcessingIsParsed ==
  \A v \in Versions : state[v] = "processing" => \E p \in ParseJobs : Parses(p, v)
RunningIsBacked == \A j \in Jobs : status[j] = "running" => at[j] # "away" \/ j \in broker

-----------------------------------------------------------------------------
Follows(d, n) == n > 0 /\ (n = 1 \/ \E c \in Contents : numberOf[<<d, c>>] = n - 1)

NumberFollows ==
  /\ \A j \in SyncJobs : at[j] \in {"insert", "put", "commit"} => Follows(document[j], number[j])
  /\ api.at = "stored" => Follows(api.version[1], api.number)

KeysHeld ==
  \A j \in Inserting : ~Taken(Target(j), number[j]) /\ ~Blocked(Target(j), number[j], j)

-----------------------------------------------------------------------------
(* The rows new jobs take.                                                  *)

LEMMA OneIs == ASSUME NEW S PROVE One(S) \subseteq S
<1>1. CASE S = {}  BY <1>1 DEF One
<1>2. CASE S # {}
  <2>1. (CHOOSE x \in S : TRUE) \in S  BY <1>2, Zenon
  <2>2. One(S) = {CHOOSE x \in S : TRUE}  BY <1>2 DEF One
  <2> QED BY <2>1, <2>2
<1> QED BY <1>1, <1>2

LEMMA NewInIs == ASSUME NEW over, NEW x \in NewIn(over) PROVE x \in over
<1> DEFINE free == {j \in over : status[j] = "free"}
<1>1. free \subseteq over  OBVIOUS
<1>2. NewIn(over) = One(IF free = {} THEN over ELSE free)  BY Zenon DEF NewIn
<1> HIDE DEF free
<1> QED BY <1>1, <1>2, OneIs

LEMMA NewSyncIdle ==
  ASSUME NEW j \in NewSync
  PROVE  j \in SyncJobs /\ at[j] = "away" /\ j \notin broker /\ status[j] \notin {"queued", "running"}
  BY NewInIs DEF NewSync, Active

LEMMA NewParseIdle ==
  ASSUME NEW p \in NewParse
  PROVE  /\ p \in ParseJobs /\ at[p] = "away" /\ p \notin broker /\ api.job # p
         /\ \A i \in SyncJobs : child[i] # p
  BY NewInIs DEF NewParse, Idlers

-----------------------------------------------------------------------------
(* What the shared parts of the handlers do to the variables.               *)

LEMMA Limit == ASSUME IntakeAssumption PROVE 1 .. Cardinality(Contents) \subseteq Nat \ {0}
  BY FS_CardinalityType DEF IntakeAssumption

LEMMA HappensTyped ==
  ASSUME TypeOK, IntakeAssumption, NEW kind \in {"upload", "other"}, Happens(kind)
  PROVE  incidents' \in [{"upload", "other"} -> 0 .. MaxIncidents]
  BY DEF TypeOK, Happens, IntakeAssumption

\* A message may come back, and none is lost.
LEMMA AckedKeeps ==
  ASSUME TypeOK, IntakeAssumption, NEW j \in Jobs, Acked(j)
  PROVE  /\ broker' = broker \/ broker' = broker \cup {j}
         /\ incidents' \in [{"upload", "other"} -> 0 .. MaxIncidents]
<1>1. CASE UNCHANGED <<broker, incidents>>  BY <1>1 DEF TypeOK
<1>2. CASE Incident /\ broker' = broker \cup {j}
  BY <1>2, HappensTyped DEF Incident
<1> QED BY <1>1, <1>2 DEF Acked

LEMMA LeavesForgets ==
  ASSUME TypeOK, NEW j \in Jobs, Leaves(j)
  PROVE  /\ at' \in [Jobs -> Steps] /\ at'[j] = "away"
         /\ \A i \in Jobs : i # j => at'[i] = at[i]
         /\ digest' \in [SyncJobs -> Contents \cup {None}]
         /\ document' \in [SyncJobs -> Documents \cup {None}]
         /\ number' \in [SyncJobs -> Nat]
         /\ child' \in [SyncJobs -> ParseJobs \cup {None}]
         /\ \A i \in SyncJobs : i # j =>
              /\ digest'[i] = digest[i] /\ document'[i] = document[i]
              /\ number'[i] = number[i] /\ child'[i] = child[i]
         /\ sawRows' \subseteq ParseJobs
  BY DEF TypeOK, Leaves, Steps

LEMMA ReturnsSettles ==
  ASSUME TypeOK, NEW j \in Jobs, NEW outcome \in {"succeeded", "failed"}, Returns(j, outcome)
  PROVE  /\ Leaves(j)
         /\ status' \in [Jobs -> Statuses] /\ status'[j] \in {"free", "failed"}
         /\ \A i \in Jobs : i # j => status'[i] = status[i]
         /\ subject' \in [ParseJobs -> Versions \cup {None}]
         /\ \A p \in ParseJobs :
              \/ subject'[p] = subject[p]
              \/ p = j /\ p \notin broker' /\ status'[p] = "free"
         /\ j \in ParseJobs /\ status'[j] = "failed" => subject'[j] = subject[j]
  BY DEF TypeOK, Returns, Statuses, Jobs

-----------------------------------------------------------------------------
(* Types, and who holds what.                                               *)

LEMMA InvInit == ASSUME IntakeAssumption, Init PROVE Inv
<1>1. content \in Served
  <2>1. \E c \in Served : TRUE  BY DEF IntakeAssumption
  <2>2. (CHOOSE c \in Served : TRUE) \in Served  BY <2>1, Zenon
  <2> QED BY <2>2 DEF Init
<1>2. TypeOK
  BY <1>1 DEF Init, TypeOK, Idle, IntakeAssumption, Statuses, Steps
<1>3. Owned
  BY DEF Init, Owned, Idle, SyncKnows, ParsesParse, MakersHold, UnsentIdle, OneSender,
         SubjectKnown, Unsent, SentBy, SentByApi, Sending, Jobs
<1> QED BY <1>2, <1>3 DEF Inv

LEMMA InvStep ==
  ASSUME Inv, IntakeAssumption, Next
  PROVE  Inv'
<1> USE DEF Inv, TypeOK, Owned, SyncKnows, ParsesParse, MakersHold, UnsentIdle,
    OneSender, SubjectKnown, Unsent, SentBy, SentByApi, Sending, Jobs, Versions,
    SyncSteps, ParseSteps, Steps, Statuses, syncMemory, rows, makers
<1>1. ASSUME Edit
      PROVE  Inv'
  BY <1>1, HappensTyped DEF Edit, Incident
<1>2. ASSUME BeatLook
      PROVE  Inv'
  BY <1>2 DEF BeatLook
<1>3. ASSUME NEW j \in SyncJobs, BeatInsert(j)
      PROVE  Inv'
  BY <1>3, NewSyncIdle DEF BeatInsert
<1>4. ASSUME BeatSend
      PROVE  Inv'
  BY <1>4 DEF BeatSend, BeatIdles
<1>5. ASSUME BeatSendFails
      PROVE  Inv'
  BY <1>5, HappensTyped DEF BeatSendFails, Incident, BeatIdles
<1>6. ASSUME BeatDies
      PROVE  Inv'
  BY <1>6, HappensTyped DEF BeatDies, Incident, BeatIdles
<1>7. ASSUME NEW j \in SyncJobs, RequestSync(j)
      PROVE  Inv'
  BY <1>7, NewSyncIdle, HappensTyped DEF RequestSync, Incident, Made
<1>8. ASSUME NEW old \in SyncJobs, NEW j \in SyncJobs, RetrySync(old, j)
      PROVE  Inv'
  <2>1. TypeOK'
    BY <1>8, NewSyncIdle DEF RetrySync, Retried, Made
  <2>2. Owned'
    BY <1>8, NewSyncIdle DEF RetrySync, Retried, Made
  <2> QED BY <2>1, <2>2
<1>9. ASSUME NEW old \in ParseJobs, NEW p \in ParseJobs, RetryParse(old, p)
      PROVE  Inv'
  <2>1. TypeOK'
    BY <1>9, NewParseIdle DEF RetryParse, Retried, Made
  <2>2. Owned'
    BY <1>9, NewParseIdle DEF RetryParse, Retried, Made
  <2> QED BY <2>1, <2>2
<1>10. ASSUME NEW v \in Versions, NEW n \in 1 .. Cardinality(Contents), Upload(v,
            n)
      PROVE  Inv'
  BY <1>10, Limit, HappensTyped DEF Upload, Stored
<1>11. ASSUME UploadRefused
      PROVE  Inv'
  BY <1>11 DEF UploadRefused, Idle
<1>12. ASSUME NEW p \in ParseJobs, UploadCommit(p)
      PROVE  Inv'
  <2>1. TypeOK'
    BY <1>12, NewParseIdle DEF UploadCommit, AddVersion, Made
  <2>2. Owned'
    BY <1>12, NewParseIdle DEF UploadCommit, AddVersion, Made
  <2> QED BY <2>1, <2>2
<1>13. ASSUME ApiSend
      PROVE  Inv'
  BY <1>13 DEF ApiSend, Idle
<1>14. ASSUME ApiSendFails
      PROVE  Inv'
  BY <1>14, HappensTyped DEF ApiSendFails, Incident, Idle
<1>15. ASSUME ApiDies
      PROVE  Inv'
  BY <1>15, HappensTyped DEF ApiDies, Incident, Idle
<1>16. ASSUME NEW j \in SyncJobs, SyncStart(j)
      PROVE  Inv'
  BY <1>16 DEF SyncStart, Delivered
<1>17. ASSUME NEW j \in SyncJobs, NEW d \in Documents, NEW n \in 1 ..
            Cardinality(Contents), SyncLook(j, d, n)
      PROVE  Inv'
  BY <1>17, Limit DEF SyncLook
<1>18. ASSUME NEW j \in SyncJobs, NEW d \in Documents, NEW p \in ParseJobs,
            SyncReparse(j, d, p)
      PROVE  Inv'
  BY <1>18, NewParseIdle DEF SyncReparse
<1>19. ASSUME NEW j \in SyncJobs, SyncInsert(j)
      PROVE  Inv'
  BY <1>19 DEF SyncInsert, Target
<1>20. ASSUME NEW j \in SyncJobs, SyncPut(j)
      PROVE  Inv'
  BY <1>20 DEF SyncPut, Target
<1>21. ASSUME NEW j \in SyncJobs, NEW p \in ParseJobs, SyncCommit(j, p)
      PROVE  Inv'
  <2>1. TypeOK'
    BY <1>21, NewParseIdle DEF SyncCommit, AddVersion, Target
  <2>2. Owned'
    BY <1>21, NewParseIdle DEF SyncCommit, AddVersion, Target
  <2> QED BY <2>1, <2>2
<1>22. ASSUME NEW j \in SyncJobs, SyncSend(j)
      PROVE  Inv'
  BY <1>22 DEF SyncSend
<1>23. ASSUME NEW j \in SyncJobs, SyncDispatchFails(j)
      PROVE  Inv'
  <2>1. TypeOK'
    BY <1>23, HappensTyped DEF SyncDispatchFails, Incident, Leaves, Target
  <2>2. Owned'
    BY <1>23 DEF SyncDispatchFails, Incident, Leaves, Target
  <2> QED BY <2>1, <2>2
<1>24. ASSUME NEW j \in SyncJobs, SyncResendFails(j)
      PROVE  Inv'
  BY <1>24, HappensTyped DEF SyncResendFails, Incident
<1>25. ASSUME NEW j \in SyncJobs, SyncFinish(j)
      PROVE  Inv'
  <2>1. /\ broker' \in {broker, broker \cup {j}}
        /\ incidents' \in [{"upload", "other"} -> 0 .. MaxIncidents]
    BY <1>25, AckedKeeps DEF SyncFinish
  <2>2. TypeOK'
    BY <1>25, <2>1 DEF SyncFinish, Returns, Leaves
  <2>3. Owned'
    BY <1>25, <2>1 DEF SyncFinish, Returns, Leaves
  <2> QED BY <2>2, <2>3
<1>26. ASSUME NEW j \in SyncJobs, SyncRefused(j)
      PROVE  Inv'
  <2>1. /\ broker' \in {broker, broker \cup {j}}
        /\ incidents' \in [{"upload", "other"} -> 0 .. MaxIncidents]
    BY <1>26, AckedKeeps DEF SyncRefused
  <2>2. TypeOK'
    BY <1>26, <2>1 DEF SyncRefused, Target, Returns, Leaves
  <2>3. Owned'
    BY <1>26, <2>1 DEF SyncRefused, Target, Returns, Leaves
  <2> QED BY <2>2, <2>3
<1>27. ASSUME NEW j \in SyncJobs, SyncFails(j)
      PROVE  Inv'
  <2>1. TypeOK'
    BY <1>27, HappensTyped DEF SyncFails, Incident, Returns, Leaves
  <2>2. Owned'
    BY <1>27 DEF SyncFails, Incident, Returns, Leaves
  <2> QED BY <2>1, <2>2
<1>28. ASSUME NEW j \in SyncJobs, SyncCommitFails(j)
      PROVE  Inv'
  BY <1>28, HappensTyped DEF SyncCommitFails, Incident
<1>29. ASSUME NEW j \in SyncJobs, SyncUndo(j)
      PROVE  Inv'
  <2>1. /\ broker' \in {broker, broker \cup {j}}
        /\ incidents' \in [{"upload", "other"} -> 0 .. MaxIncidents]
    BY <1>29, AckedKeeps DEF SyncUndo
  <2>2. TypeOK'
    BY <1>29, <2>1 DEF SyncUndo, Returns, Target, Leaves
  <2>3. Owned'
    BY <1>29, <2>1 DEF SyncUndo, Returns, Target, Leaves
  <2> QED BY <2>2, <2>3
<1>30. ASSUME NEW p \in ParseJobs, ParseStart(p)
      PROVE  Inv'
  BY <1>30 DEF ParseStart, Delivered
<1>31. ASSUME NEW p \in ParseJobs, ParseRead(p)
      PROVE  Inv'
  BY <1>31 DEF ParseRead
<1>32. ASSUME NEW p \in ParseJobs, ParsePersist(p)
      PROVE  Inv'
  BY <1>32 DEF ParsePersist
<1>33. ASSUME NEW p \in ParseJobs, ParseDone(p)
      PROVE  Inv'
  <2>1. CASE knowledge[subject[p]] = "none"
    <3>1. /\ status' = [status EXCEPT ![p] = "succeeded"]
          /\ at' = [at EXCEPT ![p] = "key"] /\ at[p] = "provenance"
          /\ UNCHANGED <<broker, syncMemory, subject, sawRows, incidents, content, rows,
                          objects, knowledge, makers>>
      BY <1>33, <2>1 DEF ParseDone
    <3>2. TypeOK'  BY <3>1
    <3>3. Owned'  BY <3>1
    <3> QED BY <3>2, <3>3
  <2>2. CASE knowledge[subject[p]] # "none"
    <3>1. /\ broker' \in {broker, broker \cup {p}} /\ Returns(p, "succeeded")
          /\ incidents' \in [{"upload", "other"} -> 0 .. MaxIncidents]
      BY <1>33, <2>2, AckedKeeps DEF ParseDone
    <3>2. TypeOK'
      BY <1>33, <2>2, <3>1 DEF ParseDone, Returns, Leaves
    <3>3. Owned'
      BY <1>33, <2>2, <3>1 DEF ParseDone, Returns, Leaves
    <3> QED BY <3>2, <3>3
  <2> QED BY <2>1, <2>2
<1>34. ASSUME NEW p \in ParseJobs, ParseRequest(p)
      PROVE  Inv'
  BY <1>34 DEF ParseRequest
<1>35. ASSUME NEW p \in ParseJobs, ParseSend(p)
      PROVE  Inv'
  <2>1. /\ broker' \in {broker, broker \cup {p}}
        /\ incidents' \in [{"upload", "other"} -> 0 .. MaxIncidents]
    BY <1>35, AckedKeeps DEF ParseSend
  <2>2. TypeOK'
    BY <1>35, <2>1 DEF ParseSend, Returns, Leaves
  <2>3. Owned'
    BY <1>35, <2>1 DEF ParseSend, Returns, Leaves
  <2> QED BY <2>2, <2>3
<1>36. ASSUME NEW p \in ParseJobs, ParseSendFails(p)
      PROVE  Inv'
  <2>1. TypeOK'
    BY <1>36, HappensTyped DEF ParseSendFails, Incident, Returns, Leaves
  <2>2. Owned'
    BY <1>36 DEF ParseSendFails, Incident, Returns, Leaves
  <2> QED BY <2>1, <2>2
<1>37. ASSUME NEW p \in ParseJobs, ParseRefused(p)
      PROVE  Inv'
  <2>1. /\ broker' \in {broker, broker \cup {p}}
        /\ incidents' \in [{"upload", "other"} -> 0 .. MaxIncidents]
    BY <1>37, AckedKeeps DEF ParseRefused
  <2>2. TypeOK'
    BY <1>37, <2>1 DEF ParseRefused, ParseRaise, Returns, Leaves
  <2>3. Owned'
    BY <1>37, <2>1 DEF ParseRefused, ParseRaise, Returns, Leaves
  <2> QED BY <2>2, <2>3
<1>38. ASSUME NEW p \in ParseJobs, ParseFails(p)
      PROVE  Inv'
  <2>1. TypeOK'
    BY <1>38, HappensTyped DEF ParseFails, Incident, ParseRaise, Returns, Leaves
  <2>2. Owned'
    BY <1>38 DEF ParseFails, Incident, ParseRaise, Returns, Leaves
  <2> QED BY <2>1, <2>2
<1>39. ASSUME NEW j \in Jobs, WorkerDies(j)
      PROVE  Inv'
  <2>1. TypeOK'
    BY <1>39, HappensTyped DEF WorkerDies, Incident, Leaves
  <2>2. Owned'
    BY <1>39 DEF WorkerDies, Incident, Leaves
  <2> QED BY <2>1, <2>2
<1> QED BY <1>1, <1>2, <1>3, <1>4, <1>5, <1>6, <1>7, <1>8, <1>9, <1>10, <1>11,
    <1>12, <1>13, <1>14, <1>15, <1>16, <1>17, <1>18, <1>19, <1>20, <1>21, <1>22,
    <1>23, <1>24, <1>25, <1>26, <1>27, <1>28, <1>29, <1>30, <1>31, <1>32, <1>33,
    <1>34, <1>35, <1>36, <1>37, <1>38, <1>39 DEF Next, BeatStep, ApiStep, Request,
    Fault, SyncStep, ParseStep, Jobs

LEMMA InvKept == ASSUME Inv, UNCHANGED vars PROVE Inv'
  BY DEF Inv, TypeOK, Owned, SyncKnows, ParsesParse, MakersHold, UnsentIdle, OneSender,
         SubjectKnown, Unsent, SentBy, SentByApi, vars, syncMemory, rows, makers

\* No handler stores a row, message or memory of a wrong kind, and whoever works on,
\* sends or retries a job finds the job and the version it is about.
THEOREM InvCorrect == Spec => []Inv
<1>1. Init => Inv  BY IntakeAssumption, InvInit
<1>2. Inv /\ [Next]_vars => Inv'  BY IntakeAssumption, InvStep, InvKept
<1> QED BY <1>1, <1>2, PTL DEF Spec

\* Every variable has its type in every reachable state.
THEOREM TypeCorrect == Spec => []TypeOK
<1>1. Inv => TypeOK  BY DEF Inv
<1> QED BY <1>1, InvCorrect, PTL

-----------------------------------------------------------------------------
(* What is busy is backed.                                                  *)

\* No step leaves a job running alone, and a version is processing after a step
\* only with the parses it had before, or with the one that begins.
Backing == /\ RunningIsBacked'
           /\ \A v \in Versions : state'[v] = "processing" =>
                \/ /\ state[v] = "processing"
                   /\ \A p \in ParseJobs : Parses(p, v) => Parses(p, v)'
                \/ \E p \in ParseJobs : Parses(p, v)'

LEMMA BackedStep ==
  ASSUME Inv, RunningIsBacked, IntakeAssumption, Next
  PROVE  Backing
<1> USE DEF Inv, TypeOK, Owned, SyncKnows, ParsesParse, MakersHold, UnsentIdle,
    OneSender, SubjectKnown, Unsent, SentBy, SentByApi, Sending, Jobs, Versions,
    SyncSteps, ParseSteps, Steps, syncMemory, rows, makers, Parses,
    RunningIsBacked, Backing
<1>1. ASSUME Edit
      PROVE  Backing
  BY <1>1 DEF Edit
<1>2. ASSUME BeatLook
      PROVE  Backing
  BY <1>2 DEF BeatLook
<1>3. ASSUME NEW j \in SyncJobs, BeatInsert(j)
      PROVE  Backing
  BY <1>3, NewSyncIdle DEF BeatInsert
<1>4. ASSUME BeatSend
      PROVE  Backing
  BY <1>4 DEF BeatSend, BeatIdles
<1>5. ASSUME BeatSendFails
      PROVE  Backing
  BY <1>5 DEF BeatSendFails, BeatIdles
<1>6. ASSUME BeatDies
      PROVE  Backing
  BY <1>6 DEF BeatDies, BeatIdles
<1>7. ASSUME NEW j \in SyncJobs, RequestSync(j)
      PROVE  Backing
  BY <1>7, NewSyncIdle DEF RequestSync
<1>8. ASSUME NEW old \in SyncJobs, NEW j \in SyncJobs, RetrySync(old, j)
      PROVE  Backing
  BY <1>8, NewSyncIdle DEF RetrySync, Retried
<1>9. ASSUME NEW old \in ParseJobs, NEW p \in ParseJobs, RetryParse(old, p)
      PROVE  Backing
  BY <1>9, NewParseIdle DEF RetryParse, Retried
<1>10. ASSUME NEW v \in Versions, NEW n \in 1 .. Cardinality(Contents), Upload(v,
            n)
      PROVE  Backing
  BY <1>10 DEF Upload
<1>11. ASSUME UploadRefused
      PROVE  Backing
  BY <1>11 DEF UploadRefused, Idle
<1>12. ASSUME NEW p \in ParseJobs, UploadCommit(p)
      PROVE  Backing
  BY <1>12, NewParseIdle DEF UploadCommit, AddVersion
<1>13. ASSUME ApiSend
      PROVE  Backing
  BY <1>13 DEF ApiSend, Idle
<1>14. ASSUME ApiSendFails
      PROVE  Backing
  BY <1>14 DEF ApiSendFails, Idle
<1>15. ASSUME ApiDies
      PROVE  Backing
  BY <1>15 DEF ApiDies, Idle
<1>16. ASSUME NEW j \in SyncJobs, SyncStart(j)
      PROVE  Backing
  BY <1>16 DEF SyncStart, Delivered
<1>17. ASSUME NEW j \in SyncJobs, NEW d \in Documents, NEW n \in 1 ..
            Cardinality(Contents), SyncLook(j, d, n)
      PROVE  Backing
  BY <1>17 DEF SyncLook
<1>18. ASSUME NEW j \in SyncJobs, NEW d \in Documents, NEW p \in ParseJobs,
            SyncReparse(j, d, p)
      PROVE  Backing
  BY <1>18, NewParseIdle DEF SyncReparse
<1>19. ASSUME NEW j \in SyncJobs, SyncInsert(j)
      PROVE  Backing
  BY <1>19 DEF SyncInsert
<1>20. ASSUME NEW j \in SyncJobs, SyncPut(j)
      PROVE  Backing
  BY <1>20 DEF SyncPut
<1>21. ASSUME NEW j \in SyncJobs, NEW p \in ParseJobs, SyncCommit(j, p)
      PROVE  Backing
  BY <1>21, NewParseIdle DEF SyncCommit, AddVersion
<1>22. ASSUME NEW j \in SyncJobs, SyncSend(j)
      PROVE  Backing
  BY <1>22 DEF SyncSend
<1>23. ASSUME NEW j \in SyncJobs, SyncDispatchFails(j)
      PROVE  Backing
  BY <1>23 DEF SyncDispatchFails, Leaves
<1>24. ASSUME NEW j \in SyncJobs, SyncResendFails(j)
      PROVE  Backing
  BY <1>24 DEF SyncResendFails
<1>25. ASSUME NEW j \in SyncJobs, SyncFinish(j)
      PROVE  Backing
  <2>1. broker' \in {broker, broker \cup {j}}
    BY <1>25, AckedKeeps DEF SyncFinish
  <2> QED BY <1>25, <2>1 DEF SyncFinish, Returns, Leaves
<1>26. ASSUME NEW j \in SyncJobs, SyncRefused(j)
      PROVE  Backing
  <2>1. broker' \in {broker, broker \cup {j}}
    BY <1>26, AckedKeeps DEF SyncRefused
  <2> QED BY <1>26, <2>1 DEF SyncRefused, Returns, Leaves
<1>27. ASSUME NEW j \in SyncJobs, SyncFails(j)
      PROVE  Backing
  BY <1>27 DEF SyncFails, Returns, Leaves
<1>28. ASSUME NEW j \in SyncJobs, SyncCommitFails(j)
      PROVE  Backing
  BY <1>28 DEF SyncCommitFails
<1>29. ASSUME NEW j \in SyncJobs, SyncUndo(j)
      PROVE  Backing
  <2>1. broker' \in {broker, broker \cup {j}}
    BY <1>29, AckedKeeps DEF SyncUndo
  <2> QED BY <1>29, <2>1 DEF SyncUndo, Returns, Leaves
<1>30. ASSUME NEW p \in ParseJobs, ParseStart(p)
      PROVE  Backing
  <2>1. p \in broker /\ broker' = broker \ {p}  BY <1>30 DEF ParseStart, Delivered
  <2>2. /\ at' = [at EXCEPT ![p] = "parse"] /\ status' = [status EXCEPT ![p] = "running"]
        /\ state' = [state EXCEPT ![subject[p]] = "processing"] /\ subject' = subject
    BY <1>30 DEF ParseStart
  <2>3. RunningIsBacked'  BY <2>1, <2>2
  <2>4. ASSUME NEW v \in Versions, state'[v] = "processing"
        PROVE  \/ state[v] = "processing" /\ \A q \in ParseJobs : Parses(q, v) => Parses(q, v)'
               \/ \E q \in ParseJobs : Parses(q, v)'
    <3>1. CASE v = subject[p]
      <4>1. Parses(p, v)'  BY <2>2, <3>1
      <4> QED BY <4>1
    <3>2. CASE v # subject[p]  BY <2>1, <2>2, <2>4, <3>2
    <3> QED BY <3>1, <3>2
  <2> QED BY <2>3, <2>4
<1>31. ASSUME NEW p \in ParseJobs, ParseRead(p)
      PROVE  Backing
  BY <1>31 DEF ParseRead
<1>32. ASSUME NEW p \in ParseJobs, ParsePersist(p)
      PROVE  Backing
  BY <1>32 DEF ParsePersist
<1>33. ASSUME NEW p \in ParseJobs, ParseDone(p)
      PROVE  Backing
  <2>1. CASE knowledge[subject[p]] = "none"
    <3>1. /\ status' = [status EXCEPT ![p] = "succeeded"]
          /\ at' = [at EXCEPT ![p] = "key"] /\ at[p] = "provenance"
          /\ UNCHANGED <<broker, subject, state>>
      BY <1>33, <2>1 DEF ParseDone
    <3> QED BY <3>1
  <2>2. CASE knowledge[subject[p]] # "none"
    <3>1. broker' \in {broker, broker \cup {p}} /\ Returns(p, "succeeded")
      BY <1>33, <2>2, AckedKeeps DEF ParseDone
    <3> QED BY <1>33, <2>2, <3>1 DEF ParseDone, Returns, Leaves
  <2> QED BY <2>1, <2>2
<1>34. ASSUME NEW p \in ParseJobs, ParseRequest(p)
      PROVE  Backing
  BY <1>34 DEF ParseRequest
<1>35. ASSUME NEW p \in ParseJobs, ParseSend(p)
      PROVE  Backing
  <2>1. broker' \in {broker, broker \cup {p}}
    BY <1>35, AckedKeeps DEF ParseSend
  <2> QED BY <1>35, <2>1 DEF ParseSend, Returns, Leaves
<1>36. ASSUME NEW p \in ParseJobs, ParseSendFails(p)
      PROVE  Backing
  BY <1>36 DEF ParseSendFails, Returns, Leaves
<1>37. ASSUME NEW p \in ParseJobs, ParseRefused(p)
      PROVE  Backing
  <2>1. broker' \in {broker, broker \cup {p}}
    BY <1>37, AckedKeeps DEF ParseRefused
  <2> QED BY <1>37, <2>1 DEF ParseRefused, ParseRaise, Returns, Leaves
<1>38. ASSUME NEW p \in ParseJobs, ParseFails(p)
      PROVE  Backing
  BY <1>38 DEF ParseFails, ParseRaise, Returns, Leaves
<1>39. ASSUME NEW j \in Jobs, WorkerDies(j)
      PROVE  Backing
  BY <1>39 DEF WorkerDies, Leaves
<1> QED BY <1>1, <1>2, <1>3, <1>4, <1>5, <1>6, <1>7, <1>8, <1>9, <1>10, <1>11,
    <1>12, <1>13, <1>14, <1>15, <1>16, <1>17, <1>18, <1>19, <1>20, <1>21, <1>22,
    <1>23, <1>24, <1>25, <1>26, <1>27, <1>28, <1>29, <1>30, <1>31, <1>32, <1>33,
    <1>34, <1>35, <1>36, <1>37, <1>38, <1>39 DEF Next, BeatStep, ApiStep, Request,
    Fault, SyncStep, ParseStep, Jobs

LEMMA ProcessingStep ==
  ASSUME ProcessingIsParsed, Backing
  PROVE  ProcessingIsParsed'
<1> SUFFICES ASSUME NEW v \in Versions', state'[v] = "processing"
             PROVE  \E p \in ParseJobs' : Parses(p, v)'
  BY DEF ProcessingIsParsed
<1>1. v \in Versions  BY DEF Versions
<1>2. CASE \E p \in ParseJobs : Parses(p, v)'  BY <1>2
<1>3. CASE state[v] = "processing" /\ \A p \in ParseJobs : Parses(p, v) => Parses(p, v)'
  <2>1. PICK p \in ParseJobs : Parses(p, v)  BY <1>1, <1>3 DEF ProcessingIsParsed
  <2> QED BY <1>3, <2>1
<1> QED BY <1>1, <1>2, <1>3 DEF Backing

\* Whatever dies, is redelivered, retried or refused, a version that is processing
\* has a parse that will end it, and a running job a worker or a message.
THEOREM BusyIsBackedCorrect == Spec => []BusyIsBacked
<1> DEFINE BInv == Inv /\ ProcessingIsParsed /\ RunningIsBacked
<1>1. Init => BInv
  <2>1. Init => ProcessingIsParsed /\ RunningIsBacked
    BY DEF Init, ProcessingIsParsed, RunningIsBacked
  <2> QED BY <2>1, IntakeAssumption, InvInit
<1>2. BInv /\ [Next]_vars => BInv'
  <2>1. CASE Next
    BY <2>1, IntakeAssumption, InvStep, BackedStep, ProcessingStep DEF Backing
  <2>2. CASE UNCHANGED vars
    BY <2>2, InvKept DEF vars, rows, ProcessingIsParsed, Parses, RunningIsBacked
  <2> QED BY <2>1, <2>2
<1>3. BInv => BusyIsBacked
  <2> SUFFICES ASSUME BInv PROVE BusyIsBacked  OBVIOUS
  <2>1. ASSUME NEW v \in Versions, state[v] = "processing"
        PROVE  \E p \in ParseJobs : subject[p] = v /\ (at[p] # "away" \/ p \in broker)
    <3>1. PICK p \in ParseJobs : Parses(p, v)  BY <2>1 DEF ProcessingIsParsed
    <3> QED BY <3>1 DEF Parses
  <2> QED BY <2>1 DEF BusyIsBacked, RunningIsBacked
<1> QED BY <1>1, <1>2, <1>3, PTL DEF Spec

-----------------------------------------------------------------------------
(* Version numbers.                                                         *)

\* A sync that has computed a number.
Pending(j) == at[j] \in {"insert", "put", "commit"}
\* A version with the next number of its document is committed.
Numbered ==
  \E v \in Versions, n \in Nat :
    /\ ~Taken(v, n) /\ Follows(v[1], n)
    /\ numberOf' = [numberOf EXCEPT ![v] = n]

\* What a step does to the numbers that are committed and that are to be.
Promises ==
  /\ UNCHANGED numberOf \/ Numbered
  /\ \A j \in SyncJobs : Pending(j)' =>
       \/ Pending(j) /\ UNCHANGED <<document[j], number[j]>>
       \/ Follows(document[j], number[j])'
  /\ api'.at = "stored" => UNCHANGED api \/ Follows(api.version[1], api.number)'

LEMMA NextFollows ==
  ASSUME UNCHANGED numberOf, NEW d, NEW n \in Nat \ {0}, IsNextNumber(d, n)
  PROVE  Follows(d, n)'
  BY DEF IsNextNumber, Follows

LEMMA PromisesStep ==
  ASSUME Inv, NumberFollows, KeysHeld, IntakeAssumption, Next
  PROVE  Promises
<1> USE DEF Inv, TypeOK, Owned, SyncKnows, ParsesParse, MakersHold, SyncSteps,
    ParseSteps, Jobs, Versions, syncMemory, rows, makers, Pending, Promises
<1>1. ASSUME Edit
      PROVE  Promises
  BY <1>1 DEF Edit
<1>2. ASSUME BeatLook
      PROVE  Promises
  BY <1>2 DEF BeatLook
<1>3. ASSUME NEW j \in SyncJobs, BeatInsert(j)
      PROVE  Promises
  BY <1>3 DEF BeatInsert
<1>4. ASSUME BeatSend
      PROVE  Promises
  BY <1>4 DEF BeatSend, BeatIdles
<1>5. ASSUME BeatSendFails
      PROVE  Promises
  BY <1>5 DEF BeatSendFails, BeatIdles
<1>6. ASSUME BeatDies
      PROVE  Promises
  BY <1>6 DEF BeatDies, BeatIdles
<1>7. ASSUME NEW j \in SyncJobs, RequestSync(j)
      PROVE  Promises
  BY <1>7 DEF RequestSync, Made
<1>8. ASSUME NEW old \in SyncJobs, NEW j \in SyncJobs, RetrySync(old, j)
      PROVE  Promises
  BY <1>8 DEF RetrySync, Made
<1>9. ASSUME NEW old \in ParseJobs, NEW p \in ParseJobs, RetryParse(old, p)
      PROVE  Promises
  BY <1>9 DEF RetryParse, Made
<1>10. ASSUME NEW v \in Versions, NEW n \in 1 .. Cardinality(Contents), Upload(v,
            n)
      PROVE  Promises
  <2>1. /\ UNCHANGED <<numberOf, at, document, number>> /\ n \in Nat \ {0}
        /\ IsNextNumber(v[1], n) /\ api' = Stored(v, n)
    BY <1>10, Limit DEF Upload
  <2>2. Follows(v[1], n)'  BY <2>1, NextFollows
  <2>3. Follows(api.version[1], api.number)'  BY <2>1, <2>2 DEF Stored
  <2> QED BY <2>1, <2>3
<1>11. ASSUME UploadRefused
      PROVE  Promises
  BY <1>11 DEF UploadRefused, Idle
<1>12. ASSUME NEW p \in ParseJobs, UploadCommit(p)
      PROVE  Promises
  <2>1. /\ api.version \in Versions /\ api.number \in Nat /\ ~Taken(api.version, api.number)
        /\ Follows(api.version[1], api.number)
    BY <1>12 DEF UploadCommit, NumberFollows
  <2>2. numberOf' = [numberOf EXCEPT ![api.version] = api.number]  BY <1>12 DEF UploadCommit, AddVersion
  <2>3. Numbered  BY <2>1, <2>2 DEF Numbered
  <2>4. UNCHANGED <<at, document, number>> /\ api'.at # "stored"
    BY <1>12 DEF UploadCommit, Made
  <2> QED BY <2>3, <2>4
<1>13. ASSUME ApiSend
      PROVE  Promises
  BY <1>13 DEF ApiSend, Idle
<1>14. ASSUME ApiSendFails
      PROVE  Promises
  BY <1>14 DEF ApiSendFails, Idle
<1>15. ASSUME ApiDies
      PROVE  Promises
  BY <1>15 DEF ApiDies, Idle
<1>16. ASSUME NEW j \in SyncJobs, SyncStart(j)
      PROVE  Promises
  BY <1>16 DEF SyncStart, Delivered
<1>17. ASSUME NEW j \in SyncJobs, NEW d \in Documents, NEW n \in 1 ..
            Cardinality(Contents), SyncLook(j, d, n)
      PROVE  Promises
  <2>1. /\ UNCHANGED <<numberOf, api>> /\ n \in Nat \ {0} /\ IsNextNumber(d, n)
        /\ at' = [at EXCEPT ![j] = "insert"]
        /\ document' = [document EXCEPT ![j] = d] /\ number' = [number EXCEPT ![j] = n]
    BY <1>17, Limit DEF SyncLook
  <2>2. Follows(d, n)'  BY <2>1, NextFollows
  <2>3. Follows(document[j], number[j])'  BY <2>1, <2>2
  <2> QED BY <2>1, <2>3
<1>18. ASSUME NEW j \in SyncJobs, NEW d \in Documents, NEW p \in ParseJobs,
            SyncReparse(j, d, p)
      PROVE  Promises
  BY <1>18 DEF SyncReparse, Committed
<1>19. ASSUME NEW j \in SyncJobs, SyncInsert(j)
      PROVE  Promises
  BY <1>19 DEF SyncInsert
<1>20. ASSUME NEW j \in SyncJobs, SyncPut(j)
      PROVE  Promises
  BY <1>20 DEF SyncPut
<1>21. ASSUME NEW j \in SyncJobs, NEW p \in ParseJobs, SyncCommit(j, p)
      PROVE  Promises
  <2>1. /\ Target(j) \in Versions /\ number[j] \in Nat /\ ~Taken(Target(j), number[j])
        /\ Follows(document[j], number[j])
    BY <1>21 DEF SyncCommit, NumberFollows, KeysHeld, Inserting, Target
  <2>2. numberOf' = [numberOf EXCEPT ![Target(j)] = number[j]]  BY <1>21 DEF SyncCommit, AddVersion
  <2>3. Numbered  BY <2>1, <2>2 DEF Numbered, Target
  <2>4. /\ UNCHANGED <<document, number, api>> /\ at' = [at EXCEPT ![j] = "dispatch"]
    BY <1>21 DEF SyncCommit
  <2> QED BY <2>3, <2>4
<1>22. ASSUME NEW j \in SyncJobs, SyncSend(j)
      PROVE  Promises
  BY <1>22 DEF SyncSend
<1>23. ASSUME NEW j \in SyncJobs, SyncDispatchFails(j)
      PROVE  Promises
  BY <1>23 DEF SyncDispatchFails, Leaves
<1>24. ASSUME NEW j \in SyncJobs, SyncResendFails(j)
      PROVE  Promises
  BY <1>24 DEF SyncResendFails
<1>25. ASSUME NEW j \in SyncJobs, SyncFinish(j)
      PROVE  Promises
  BY <1>25 DEF SyncFinish, Committed, Returns, Leaves
<1>26. ASSUME NEW j \in SyncJobs, SyncRefused(j)
      PROVE  Promises
  BY <1>26 DEF SyncRefused, Returns, Leaves
<1>27. ASSUME NEW j \in SyncJobs, SyncFails(j)
      PROVE  Promises
  BY <1>27 DEF SyncFails, Returns, Leaves
<1>28. ASSUME NEW j \in SyncJobs, SyncCommitFails(j)
      PROVE  Promises
  BY <1>28 DEF SyncCommitFails
<1>29. ASSUME NEW j \in SyncJobs, SyncUndo(j)
      PROVE  Promises
  BY <1>29 DEF SyncUndo, Returns, Leaves
<1>30. ASSUME NEW p \in ParseJobs, ParseStart(p)
      PROVE  Promises
  BY <1>30 DEF ParseStart, Delivered
<1>31. ASSUME NEW p \in ParseJobs, ParseRead(p)
      PROVE  Promises
  BY <1>31 DEF ParseRead
<1>32. ASSUME NEW p \in ParseJobs, ParsePersist(p)
      PROVE  Promises
  BY <1>32 DEF ParsePersist
<1>33. ASSUME NEW p \in ParseJobs, ParseDone(p)
      PROVE  Promises
  BY <1>33 DEF ParseDone, Returns, Leaves
<1>34. ASSUME NEW p \in ParseJobs, ParseRequest(p)
      PROVE  Promises
  BY <1>34 DEF ParseRequest
<1>35. ASSUME NEW p \in ParseJobs, ParseSend(p)
      PROVE  Promises
  BY <1>35 DEF ParseSend, Returns, Leaves
<1>36. ASSUME NEW p \in ParseJobs, ParseSendFails(p)
      PROVE  Promises
  BY <1>36 DEF ParseSendFails, Returns, Leaves
<1>37. ASSUME NEW p \in ParseJobs, ParseRefused(p)
      PROVE  Promises
  BY <1>37 DEF ParseRefused, ParseRaise, Returns, Leaves
<1>38. ASSUME NEW p \in ParseJobs, ParseFails(p)
      PROVE  Promises
  BY <1>38 DEF ParseFails, ParseRaise, Returns, Leaves
<1>39. ASSUME NEW j \in Jobs, WorkerDies(j)
      PROVE  Promises
  BY <1>39 DEF WorkerDies, Leaves
<1> QED BY <1>1, <1>2, <1>3, <1>4, <1>5, <1>6, <1>7, <1>8, <1>9, <1>10, <1>11,
    <1>12, <1>13, <1>14, <1>15, <1>16, <1>17, <1>18, <1>19, <1>20, <1>21, <1>22,
    <1>23, <1>24, <1>25, <1>26, <1>27, <1>28, <1>29, <1>30, <1>31, <1>32, <1>33,
    <1>34, <1>35, <1>36, <1>37, <1>38, <1>39 DEF Next, BeatStep, ApiStep, Request,
    Fault, SyncStep, ParseStep, Jobs

LEMMA FollowsKept ==
  ASSUME TypeOK, UNCHANGED numberOf \/ Numbered,
         NEW d \in Documents, NEW n \in Nat, Follows(d, n)
  PROVE  Follows(d, n)'
<1>1. CASE n = 1  BY <1>1 DEF Follows
<1>2. CASE n # 1
  <2>1. PICK c \in Contents : numberOf[<<d, c>>] = n - 1  BY <1>2 DEF Follows
  <2>2. n - 1 > 0  BY <1>2 DEF Follows
  <2>3. <<d, c>> \in Versions  BY DEF Versions
  <2>4. numberOf'[<<d, c>>] = n - 1
    <3>1. CASE UNCHANGED numberOf  BY <2>1, <3>1
    <3>2. CASE Numbered
      <4>1. PICK v \in Versions, m \in Nat :
              ~Taken(v, m) /\ numberOf' = [numberOf EXCEPT ![v] = m]
        BY <3>2 DEF Numbered
      <4>2. v # <<d, c>>  BY <2>1, <2>2, <2>3, <4>1 DEF Taken, Committed, Clash
      <4> QED BY <2>1, <2>3, <4>1, <4>2 DEF TypeOK
    <3> QED BY <3>1, <3>2
  <2> QED BY <2>4 DEF Follows
<1> QED BY <1>1, <1>2

LEMMA NumberFollowsStep ==
  ASSUME Inv, NumberFollows, Promises
  PROVE  NumberFollows'
<1>1. ASSUME NEW j \in SyncJobs, Pending(j)'
      PROVE  Follows(document[j], number[j])'
  <2>1. CASE Pending(j) /\ UNCHANGED <<document[j], number[j]>>
    <3>1. document[j] \in Documents /\ number[j] \in Nat
      BY <2>1 DEF Inv, TypeOK, Owned, SyncKnows, Pending
    <3>2. Follows(document[j], number[j])  BY <2>1 DEF NumberFollows, Pending
    <3>3. \A d \in Documents, n \in Nat : Follows(d, n) => Follows(d, n)'
      BY FollowsKept DEF Inv, Promises
    <3> QED BY <2>1, <3>1, <3>2, <3>3 DEF Follows
  <2>2. CASE Follows(document[j], number[j])'  BY <2>2
  <2> QED BY <1>1, <2>1, <2>2 DEF Promises
<1>2. ASSUME api'.at = "stored"
      PROVE  Follows(api.version[1], api.number)'
  <2>1. CASE UNCHANGED api
    <3>1. api.version \in Versions /\ api.number \in Nat
      BY <1>2, <2>1 DEF Inv, TypeOK, Owned, MakersHold
    <3>2. Follows(api.version[1], api.number)  BY <1>2, <2>1 DEF NumberFollows
    <3>3. \A d \in Documents, n \in Nat : Follows(d, n) => Follows(d, n)'
      BY FollowsKept DEF Inv, Promises
    <3> QED BY <2>1, <3>1, <3>2, <3>3 DEF Follows, Versions
  <2>2. CASE Follows(api.version[1], api.number)'  BY <2>2
  <2> QED BY <1>2, <2>1, <2>2 DEF Promises
<1> QED BY <1>1, <1>2 DEF NumberFollows, Pending

LEMMA KeysStep ==
  ASSUME Inv, KeysHeld, IntakeAssumption, Next
  PROVE  KeysHeld'
<1> USE DEF Inv, TypeOK, Owned, SyncKnows, ParsesParse, KeysHeld, Inserting, Taken,
    Blocked, Clash, Committed, Target, SyncSteps, ParseSteps, Jobs, Versions,
    syncMemory, rows, makers
<1>1. ASSUME Edit
      PROVE  KeysHeld'
  BY <1>1 DEF Edit
<1>2. ASSUME BeatLook
      PROVE  KeysHeld'
  BY <1>2 DEF BeatLook
<1>3. ASSUME NEW j \in SyncJobs, BeatInsert(j)
      PROVE  KeysHeld'
  BY <1>3 DEF BeatInsert
<1>4. ASSUME BeatSend
      PROVE  KeysHeld'
  BY <1>4 DEF BeatSend, BeatIdles
<1>5. ASSUME BeatSendFails
      PROVE  KeysHeld'
  BY <1>5 DEF BeatSendFails, BeatIdles
<1>6. ASSUME BeatDies
      PROVE  KeysHeld'
  BY <1>6 DEF BeatDies, BeatIdles
<1>7. ASSUME NEW j \in SyncJobs, RequestSync(j)
      PROVE  KeysHeld'
  BY <1>7 DEF RequestSync
<1>8. ASSUME NEW old \in SyncJobs, NEW j \in SyncJobs, RetrySync(old, j)
      PROVE  KeysHeld'
  BY <1>8 DEF RetrySync
<1>9. ASSUME NEW old \in ParseJobs, NEW p \in ParseJobs, RetryParse(old, p)
      PROVE  KeysHeld'
  BY <1>9 DEF RetryParse
<1>10. ASSUME NEW v \in Versions, NEW n \in 1 .. Cardinality(Contents), Upload(v,
            n)
      PROVE  KeysHeld'
  BY <1>10 DEF Upload
<1>11. ASSUME UploadRefused
      PROVE  KeysHeld'
  BY <1>11 DEF UploadRefused, Idle
<1>12. ASSUME NEW p \in ParseJobs, UploadCommit(p)
      PROVE  KeysHeld'
  BY <1>12, IntakeAssumption DEF UploadCommit, AddVersion
<1>13. ASSUME ApiSend
      PROVE  KeysHeld'
  BY <1>13 DEF ApiSend, Idle
<1>14. ASSUME ApiSendFails
      PROVE  KeysHeld'
  BY <1>14 DEF ApiSendFails, Idle
<1>15. ASSUME ApiDies
      PROVE  KeysHeld'
  BY <1>15 DEF ApiDies, Idle
<1>16. ASSUME NEW j \in SyncJobs, SyncStart(j)
      PROVE  KeysHeld'
  BY <1>16 DEF SyncStart, Delivered
<1>17. ASSUME NEW j \in SyncJobs, NEW d \in Documents, NEW n \in 1 ..
            Cardinality(Contents), SyncLook(j, d, n)
      PROVE  KeysHeld'
  BY <1>17 DEF SyncLook
<1>18. ASSUME NEW j \in SyncJobs, NEW d \in Documents, NEW p \in ParseJobs,
            SyncReparse(j, d, p)
      PROVE  KeysHeld'
  BY <1>18 DEF SyncReparse
<1>19. ASSUME NEW j \in SyncJobs, SyncInsert(j)
      PROVE  KeysHeld'
  BY <1>19 DEF SyncInsert
<1>20. ASSUME NEW j \in SyncJobs, SyncPut(j)
      PROVE  KeysHeld'
  BY <1>20 DEF SyncPut
<1>21. ASSUME NEW j \in SyncJobs, NEW p \in ParseJobs, SyncCommit(j, p)
      PROVE  KeysHeld'
  BY <1>21 DEF SyncCommit, AddVersion
<1>22. ASSUME NEW j \in SyncJobs, SyncSend(j)
      PROVE  KeysHeld'
  BY <1>22 DEF SyncSend
<1>23. ASSUME NEW j \in SyncJobs, SyncDispatchFails(j)
      PROVE  KeysHeld'
  BY <1>23 DEF SyncDispatchFails, Leaves
<1>24. ASSUME NEW j \in SyncJobs, SyncResendFails(j)
      PROVE  KeysHeld'
  BY <1>24 DEF SyncResendFails
<1>25. ASSUME NEW j \in SyncJobs, SyncFinish(j)
      PROVE  KeysHeld'
  BY <1>25 DEF SyncFinish, Returns, Leaves
<1>26. ASSUME NEW j \in SyncJobs, SyncRefused(j)
      PROVE  KeysHeld'
  BY <1>26 DEF SyncRefused, Returns, Leaves
<1>27. ASSUME NEW j \in SyncJobs, SyncFails(j)
      PROVE  KeysHeld'
  BY <1>27 DEF SyncFails, Returns, Leaves
<1>28. ASSUME NEW j \in SyncJobs, SyncCommitFails(j)
      PROVE  KeysHeld'
  BY <1>28 DEF SyncCommitFails
<1>29. ASSUME NEW j \in SyncJobs, SyncUndo(j)
      PROVE  KeysHeld'
  BY <1>29 DEF SyncUndo, Returns, Leaves
<1>30. ASSUME NEW p \in ParseJobs, ParseStart(p)
      PROVE  KeysHeld'
  BY <1>30 DEF ParseStart, Delivered
<1>31. ASSUME NEW p \in ParseJobs, ParseRead(p)
      PROVE  KeysHeld'
  BY <1>31 DEF ParseRead
<1>32. ASSUME NEW p \in ParseJobs, ParsePersist(p)
      PROVE  KeysHeld'
  BY <1>32 DEF ParsePersist
<1>33. ASSUME NEW p \in ParseJobs, ParseDone(p)
      PROVE  KeysHeld'
  BY <1>33 DEF ParseDone, Returns, Leaves
<1>34. ASSUME NEW p \in ParseJobs, ParseRequest(p)
      PROVE  KeysHeld'
  BY <1>34 DEF ParseRequest
<1>35. ASSUME NEW p \in ParseJobs, ParseSend(p)
      PROVE  KeysHeld'
  BY <1>35 DEF ParseSend, Returns, Leaves
<1>36. ASSUME NEW p \in ParseJobs, ParseSendFails(p)
      PROVE  KeysHeld'
  BY <1>36 DEF ParseSendFails, Returns, Leaves
<1>37. ASSUME NEW p \in ParseJobs, ParseRefused(p)
      PROVE  KeysHeld'
  BY <1>37 DEF ParseRefused, ParseRaise, Returns, Leaves
<1>38. ASSUME NEW p \in ParseJobs, ParseFails(p)
      PROVE  KeysHeld'
  BY <1>38 DEF ParseFails, ParseRaise, Returns, Leaves
<1>39. ASSUME NEW j \in Jobs, WorkerDies(j)
      PROVE  KeysHeld'
  BY <1>39 DEF WorkerDies, Leaves
<1> QED BY <1>1, <1>2, <1>3, <1>4, <1>5, <1>6, <1>7, <1>8, <1>9, <1>10, <1>11,
    <1>12, <1>13, <1>14, <1>15, <1>16, <1>17, <1>18, <1>19, <1>20, <1>21, <1>22,
    <1>23, <1>24, <1>25, <1>26, <1>27, <1>28, <1>29, <1>30, <1>31, <1>32, <1>33,
    <1>34, <1>35, <1>36, <1>37, <1>38, <1>39 DEF Next, BeatStep, ApiStep, Request,
    Fault, SyncStep, ParseStep, Jobs

LEMMA NumbersStep ==
  ASSUME TypeOK, IntakeAssumption, NumbersWithoutGap, UNCHANGED numberOf \/ Numbered
  PROVE  NumbersWithoutGap'
<1>1. CASE UNCHANGED numberOf  BY <1>1 DEF NumbersWithoutGap, Committed
<1>2. CASE Numbered
  <2>1. PICK v \in Versions, n \in Nat :
          /\ ~Taken(v, n) /\ Follows(v[1], n)
          /\ numberOf' = [numberOf EXCEPT ![v] = n]
    BY <1>2 DEF Numbered
  <2> SUFFICES ASSUME NEW d \in Documents
               PROVE  LET own == {c \in Contents : Committed(<<d, c>>)'}
                      IN  {numberOf'[<<d, c>>] : c \in own} = 1 .. Cardinality(own)
    BY DEF NumbersWithoutGap
  <2> DEFINE own == {c \in Contents : Committed(<<d, c>>)}
             later == {c \in Contents : Committed(<<d, c>>)'}
             numbers == {numberOf[<<d, c>>] : c \in own}
             k == Cardinality(own)
  <2>2. numbers = 1 .. k  BY DEF NumbersWithoutGap
  <2>3. \A c \in Contents : <<d, c>> \in Versions  BY DEF Versions
  <2>4. CASE v[1] # d
    <3>1. \A c \in Contents : numberOf'[<<d, c>>] = numberOf[<<d, c>>]
      BY <2>1, <2>3, <2>4 DEF TypeOK
    <3>2. later = own  BY <3>1 DEF Committed
    <3>3. {numberOf'[<<d, c>>] : c \in later} = numbers  BY <3>1, <3>2
    <3> QED BY <2>2, <3>2, <3>3
  <2>5. CASE v[1] = d
    <3>1. PICK b \in Contents : v = <<d, b>>  BY <2>5 DEF Versions
    <3>2. b \notin own  BY <2>1, <2>3, <3>1 DEF Taken, Clash
    <3>3. n \notin numbers
      BY <2>1, <2>3, <3>1 DEF Taken, Clash
    <3>4. n > 0 /\ (n = 1 \/ n - 1 \in numbers)
      <4>1. CASE n = 1  BY <4>1
      <4>2. CASE n # 1
        <5>1. PICK c \in Contents : numberOf[<<d, c>>] = n - 1
          BY <2>1, <2>5, <4>2 DEF Follows
        <5>2. n - 1 > 0 /\ n > 0  BY <2>1, <4>2 DEF Follows
        <5>3. c \in own  BY <5>1, <5>2 DEF Committed
        <5> QED BY <5>1, <5>2, <5>3
      <4> QED BY <4>1, <4>2
    <3>5. \A c \in Contents : numberOf'[<<d, c>>] = IF c = b THEN n ELSE numberOf[<<d, c>>]
      BY <2>1, <2>3, <3>1 DEF TypeOK
    <3>6. later = own \cup {b}  BY <3>2, <3>4, <3>5 DEF Committed
    <3>7. {numberOf'[<<d, c>>] : c \in later} = numbers \cup {n}
      BY <3>2, <3>5, <3>6
    <3>8. IsFiniteSet(own)
      <4>1. IsFiniteSet(Contents) /\ own \subseteq Contents  BY DEF IntakeAssumption
      <4> QED BY <4>1, FS_Subset
    <3>9. k \in Nat /\ Cardinality(later) = k + 1
      BY <3>2, <3>6, <3>8, FS_AddElement, FS_CardinalityType
    <3>10. numbers \cup {n} = 1 .. (k + 1)
      <4> HIDE DEF numbers, k
      <4>1. n = k + 1  BY <2>2, <3>3, <3>4, <3>9
      <4> QED BY <2>2, <3>9, <4>1
    <3> QED BY <3>7, <3>9, <3>10
  <2> QED BY <2>4, <2>5
<1> QED BY <1>1, <1>2

\* However syncs, uploads, rollbacks and redeliveries interleave, the committed
\* versions of a document are numbered without a gap and without a repetition.
THEOREM NumbersCorrect == Spec => []NumbersWithoutGap
<1> DEFINE NInv == Inv /\ NumberFollows /\ KeysHeld /\ NumbersWithoutGap
<1>1. Init => NInv
  <2> SUFFICES ASSUME Init PROVE NInv  OBVIOUS
  <2>1. NumberFollows /\ KeysHeld
    BY DEF Init, NumberFollows, KeysHeld, Inserting, Idle, Jobs
  <2>2. ASSUME NEW d \in Documents
        PROVE  {c \in Contents : Committed(<<d, c>>)} = {}
    BY DEF Init, Committed, Versions
  <2>3. NumbersWithoutGap
    <3>1. 1 .. Cardinality({}) = {}  BY FS_EmptySet
    <3> QED BY <2>2, <3>1 DEF NumbersWithoutGap
  <2> QED BY <2>1, <2>3, IntakeAssumption, InvInit
<1>2. NInv /\ [Next]_vars => NInv'
  <2> SUFFICES ASSUME NInv, [Next]_vars PROVE NInv'  OBVIOUS
  <2>1. CASE Next
    <3>1. Promises  BY <2>1, IntakeAssumption, PromisesStep
    <3>2. NumberFollows'  BY <3>1, NumberFollowsStep
    <3>3. NumbersWithoutGap'  BY <3>1, IntakeAssumption, NumbersStep DEF Inv, Promises
    <3> QED BY <2>1, <3>2, <3>3, IntakeAssumption, InvStep, KeysStep
  <2>2. CASE UNCHANGED vars
    <3>1. UNCHANGED <<at, numberOf, api, digest, document, number>>
      BY <2>2 DEF vars, rows, makers, syncMemory
    <3>2. NumberFollows'  BY <3>1 DEF NumberFollows, Follows
    <3>3. KeysHeld'
      BY <3>1 DEF KeysHeld, Inserting, Taken, Blocked, Clash, Target, Committed
    <3>4. NumbersWithoutGap'  BY <3>1 DEF NumbersWithoutGap, Committed
    <3> QED BY <2>2, <3>2, <3>3, <3>4, InvKept
  <2> QED BY <2>1, <2>2
<1>3. NInv => NumbersWithoutGap  OBVIOUS
<1> QED BY <1>1, <1>2, <1>3, PTL DEF Spec
=============================================================================
