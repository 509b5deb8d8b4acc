---------------------------- MODULE SourceIntake ----------------------------
(***************************************************************************)
(* From a source to parsed document versions: the scheduler and the        *)
(* requests that create jobs, sync_source_task, parse_version_task and the *)
(* request for knowledge processing that follows it (apps/worker/tasks.py, *)
(* apps/api/routes.py).                                                    *)
(*                                                                         *)
(* There is one source, which keeps its title and its file name.  A job is *)
(* a row that is committed and then sent to the broker by whoever made it; *)
(* the message is acknowledged when the task returns, so it comes back if  *)
(* its worker dies.  A document and its first version are one transaction, *)
(* so a document is committed as soon as it has a version, and unique      *)
(* (document_id, sha256) makes <<document, content>> the name of a         *)
(* version.                                                                *)
(***************************************************************************)
EXTENDS Integers, FiniteSets

CONSTANTS
  Contents,     \* what a version may hold; stands for the sha256 digest
  Served,       \* those of the source; the others are only uploaded
  Documents,    \* document rows of the source
  SyncJobs,     \* rows of sync_source jobs; an ended job's row is used again
  ParseJobs,    \* rows of parse_document jobs
  Workers,      \* tasks that run at the same time
  None,         \* no document, content, job or version
  MaxIncidents  \* bound of the uploads, and of everything else nobody has to expect

Jobs == SyncJobs \cup ParseJobs
Versions == Documents \X Contents

ASSUME IntakeAssumption ==
  /\ IsFiniteSet(Documents) /\ IsFiniteSet(Contents)
  /\ Served \subseteq Contents /\ Served # {}
  /\ SyncJobs \cap ParseJobs = {}
  /\ None \notin Documents \cup Contents \cup Jobs \cup Versions
  /\ Workers \in Nat \ {0} /\ MaxIncidents \in Nat

SyncSteps == {"look", "insert", "put", "commit", "dispatch", "resend", "finish", "undo"}
ParseSteps == {"parse", "persist", "provenance", "key", "send"}
Steps == {"away"} \cup SyncSteps \cup ParseSteps
Statuses == {"free", "queued", "running", "succeeded", "failed", "retried"}

VARIABLES
  content,    \* what the source serves now
  status,     \* status of each job
  at,         \* how far the task of each job has got at its worker
  broker,     \* jobs whose message waits for a worker
  digest,     \* of each sync: the content it fetched
  document,   \* of each sync: the document it selected or added
  number,     \* of each sync: the version number it computed
  child,      \* of each sync: the parse job it has to send
  subject,    \* of each parse: version_id of its input
  sawRows,    \* parses whose query for existing elements found some
  numberOf,   \* version_number of each committed version, 0 if there is none
  state,      \* status of each version
  objects,    \* versions whose file is in the object store
  elements,   \* versions with content_elements
  knowledge,  \* job knowledge:<version> of each version
  beat,       \* the scheduler, and the job it has to send
  api,        \* the request being served, and what it has to insert or send
  incidents   \* uploads so far, and edits, requested syncs, failures and deaths

syncMemory == <<digest, document, number, child>>
rows == <<numberOf, state, elements>>
makers == <<beat, api>>
vars == <<content, status, at, broker, syncMemory, subject, sawRows, rows,
          objects, knowledge, makers, incidents>>

Idle == [at |-> "idle", job |-> None, version |-> None, number |-> 0]
Made(j) == [at |-> "made", job |-> j, version |-> None, number |-> 0]
Stored(v, n) == [at |-> "stored", job |-> None, version |-> v, number |-> n]

TypeOK ==
  /\ content \in Served
  /\ status \in [Jobs -> Statuses] /\ at \in [Jobs -> Steps] /\ broker \subseteq Jobs
  /\ digest \in [SyncJobs -> Contents \cup {None}]
  /\ document \in [SyncJobs -> Documents \cup {None}]
  /\ number \in [SyncJobs -> Nat]
  /\ child \in [SyncJobs -> ParseJobs \cup {None}]
  /\ subject \in [ParseJobs -> Versions \cup {None}]
  /\ sawRows \subseteq ParseJobs
  /\ numberOf \in [Versions -> Nat]
  /\ state \in [Versions -> {"uploaded", "processing", "ready", "failed"}]
  /\ objects \subseteq Versions /\ elements \subseteq Versions
  /\ knowledge \in [Versions -> {"none", "queued", "sent", "failed"}]
  /\ beat \in [at : {"idle", "looked", "made"}, job : SyncJobs \cup {None}]
  /\ api \in [at : {"idle", "stored", "made"}, job : Jobs \cup {None},
              version : Versions \cup {None}, number : Nat]
  /\ incidents \in [{"upload", "other"} -> 0 .. MaxIncidents]

Init ==
  /\ content = (CHOOSE c \in Served : TRUE)
  /\ status = [j \in Jobs |-> "free"] /\ at = [j \in Jobs |-> "away"] /\ broker = {}
  /\ digest = [j \in SyncJobs |-> None] /\ document = [j \in SyncJobs |-> None]
  /\ number = [j \in SyncJobs |-> 0] /\ child = [j \in SyncJobs |-> None]
  /\ subject = [p \in ParseJobs |-> None]
  /\ sawRows = {}
  /\ numberOf = [v \in Versions |-> 0] /\ state = [v \in Versions |-> "uploaded"]
  /\ objects = {} /\ elements = {} /\ knowledge = [v \in Versions |-> "none"]
  /\ beat = [at |-> "idle", job |-> None] /\ api = Idle
  /\ incidents = [k \in {"upload", "other"} |-> 0]

-----------------------------------------------------------------------------
(* Rows and what queries find in them.                                      *)

Committed(v) == numberOf[v] > 0
Known == {v[1] : v \in {w \in Versions : Committed(w)}}

\* max(version_number) + 1 of a document.
IsNextNumber(d, n) ==
  /\ \A c \in Contents : numberOf[<<d, c>>] < n
  /\ n = 1 \/ \E c \in Contents : numberOf[<<d, c>>] = n - 1

Target(j) == <<document[j], digest[j]>>

\* Syncs whose transaction holds a version row that is not committed yet.
Inserting == {j \in SyncJobs : at[j] \in {"put", "commit"}}

\* Mutant: no constraint on (document_id, version_number).
ClashFile(v, n, w, m) == v = w

\* unique (document_id, sha256) and (document_id, version_number).
Clash(v, n, w, m) == v[1] = w[1] /\ (v[2] = w[2] \/ n = m)
Taken(v, n) == \E w \in Versions : Committed(w) /\ Clash(v, n, w, numberOf[w])
\* An insert waits for the transactions that hold one of its keys.
Blocked(v, n, j) == \E i \in Inserting \ {j} : Clash(v, n, Target(i), number[i])

Active(j) == status[j] \in {"queued", "running"}
SyncActive == \E j \in SyncJobs : Active(j)

One(S) == IF S = {} THEN {} ELSE {CHOOSE x \in S : TRUE}

\* Rows a new job may take: of a job that is over and not sent again, and of a
\* parse job that nobody sends any more.  Unused ones come first; which of them
\* makes no difference.
NewIn(over) ==
  LET free == {j \in over : status[j] = "free"} IN One(IF free = {} THEN over ELSE free)
NewSync == NewIn({j \in SyncJobs : ~Active(j) /\ at[j] = "away" /\ j \notin broker})
Idlers == {p \in ParseJobs : /\ at[p] = "away" /\ p \notin broker /\ api.job # p
                             /\ \A i \in SyncJobs : child[i] # p}
NewParse == NewIn(Idlers)

\* Bound: a row is kept for every sync that may still make a parse job.
Room == Cardinality({j \in SyncJobs : at[j] \in {"look", "insert", "put", "commit"}})
          < Cardinality(Idlers)

\* Bound: what does not have to happen happens MaxIncidents times.
Happens(kind) ==
  /\ incidents[kind] < MaxIncidents
  /\ incidents' = [incidents EXCEPT ![kind] = @ + 1]

Incident == Happens("other")

-----------------------------------------------------------------------------
(* The source.                                                              *)

Edit ==
  /\ Incident
  /\ content' \in Served \ {content}
  /\ UNCHANGED <<status, at, broker, syncMemory, subject, sawRows, rows,
                 objects, knowledge, makers>>

-----------------------------------------------------------------------------
(* schedule_due_sources: sources and active jobs are read before any job is *)
(* inserted.  Time is left out: next_sync_at may be past whenever it looks, *)
(* and the key of the period new, or else it does nothing.                  *)

BeatLook ==
  /\ beat.at = "idle" /\ ~SyncActive
  /\ beat' = [at |-> "looked", job |-> None]
  /\ UNCHANGED <<content, status, at, broker, syncMemory, subject, sawRows, rows,
                 objects, knowledge, api, incidents>>

BeatInsert(j) ==
  /\ beat.at = "looked" /\ j \in NewSync
  /\ status' = [status EXCEPT ![j] = "queued"]
  /\ beat' = [at |-> "made", job |-> j]
  /\ UNCHANGED <<content, at, broker, syncMemory, subject, sawRows, rows,
                 objects, knowledge, api, incidents>>

BeatIdles == beat' = [at |-> "idle", job |-> None]

BeatSend ==
  /\ beat.at = "made"
  /\ broker' = broker \cup {beat.job} /\ BeatIdles
  /\ UNCHANGED <<content, status, at, syncMemory, subject, sawRows, rows, objects,
                 knowledge, api, incidents>>

BeatSendFails ==
  /\ beat.at = "made" /\ Incident
  /\ status' = [status EXCEPT ![beat.job] = "failed"] /\ BeatIdles
  /\ UNCHANGED <<content, at, broker, syncMemory, subject, sawRows, rows, objects,
                 knowledge, api>>

\* The scheduler's worker dies: its job stays queued and is never sent.
BeatDies ==
  /\ beat.at = "made" /\ Incident /\ BeatIdles
  /\ UNCHANGED <<content, status, at, broker, syncMemory, subject, sawRows, rows,
                 objects, knowledge, api>>

-----------------------------------------------------------------------------
(* Requests.  At most one is served at a time.                              *)

Serving == api.at = "idle"

\* sync_source: the advisory lock makes check and insert one step.
RequestSync(j) ==
  /\ Serving /\ Incident /\ ~SyncActive /\ j \in NewSync
  /\ status' = [status EXCEPT ![j] = "queued"]
  /\ api' = Made(j)
  /\ UNCHANGED <<content, at, broker, syncMemory, subject, sawRows, rows, objects,
                 knowledge, beat>>

\* retry_job: a further job with the input of a failed one.  Bound: a failure is
\* retried once.  A worker's death may still bring the old message back.
Retried(old) == IF old \in broker THEN "retried" ELSE "free"

RetrySync(old, j) ==
  /\ Serving /\ status[old] = "failed" /\ at[old] = "away" /\ j \in NewSync
  /\ status' = [status EXCEPT ![old] = Retried(old), ![j] = "queued"]
  /\ api' = Made(j)
  /\ UNCHANGED <<content, at, broker, syncMemory, subject, sawRows, rows, objects,
                 knowledge, beat, incidents>>

RetryParse(old, p) ==
  /\ Serving /\ status[old] = "failed" /\ at[old] = "away" /\ Room /\ p \in NewParse
  /\ status' = [status EXCEPT ![old] = Retried(old), ![p] = "queued"]
  /\ subject' = [subject EXCEPT ![old] = IF old \in broker THEN @ ELSE None,
                                ![p] = subject[old]]
  /\ api' = Made(p)
  /\ UNCHANGED <<content, at, broker, syncMemory, sawRows, rows, objects, knowledge,
                 beat, incidents>>

\* upload_document to a document of the source: the file is stored before the
\* version is inserted, and stays when the insert is refused.
Upload(v, n) ==
  /\ Serving /\ Happens("upload")
  /\ v[1] \in Known /\ ~Committed(v) /\ IsNextNumber(v[1], n)
  /\ objects' = objects \cup {v}
  /\ api' = Stored(v, n)
  /\ UNCHANGED <<content, status, at, broker, syncMemory, subject, sawRows, rows,
                 knowledge, beat>>

UploadRefused ==
  /\ api.at = "stored" /\ Taken(api.version, api.number)
  /\ api' = Idle
  /\ UNCHANGED <<content, status, at, broker, syncMemory, subject, sawRows, rows,
                 objects, knowledge, beat, incidents>>

\* A version and its first parse job are committed.
AddVersion(v, n, p) ==
  /\ numberOf' = [numberOf EXCEPT ![v] = n]
  /\ state' = [state EXCEPT ![v] = "uploaded"]
  /\ status' = [status EXCEPT ![p] = "queued"]
  /\ subject' = [subject EXCEPT ![p] = v]
  /\ UNCHANGED elements

UploadCommit(p) ==
  /\ api.at = "stored" /\ Room /\ p \in NewParse
  /\ ~Taken(api.version, api.number) /\ ~Blocked(api.version, api.number, None)
  /\ AddVersion(api.version, api.number, p)
  /\ api' = Made(p)
  /\ UNCHANGED <<content, at, broker, syncMemory, sawRows, objects, knowledge, beat,
                 incidents>>

\* _dispatch_job: a refused message fails the job, and a parse job's version.
ApiSend ==
  /\ api.at = "made"
  /\ broker' = broker \cup {api.job} /\ api' = Idle
  /\ UNCHANGED <<content, status, at, syncMemory, subject, sawRows, rows, objects,
                 knowledge, beat, incidents>>

ApiSendFails ==
  /\ api.at = "made" /\ Incident
  /\ status' = [status EXCEPT ![api.job] = "failed"]
  /\ state' = IF api.job \in ParseJobs
              THEN [state EXCEPT ![subject[api.job]] = "failed"] ELSE state
  /\ api' = Idle
  /\ UNCHANGED <<content, at, broker, syncMemory, subject, sawRows, numberOf,
                 elements, objects, knowledge, beat>>

\* The API dies: what is committed stays, and is never sent.
ApiDies ==
  /\ api.at # "idle" /\ Incident /\ api' = Idle
  /\ UNCHANGED <<content, status, at, broker, syncMemory, subject, sawRows, rows,
                 objects, knowledge, beat>>

-----------------------------------------------------------------------------
\* A worker with a free process takes the message.
Delivered(j) ==
  /\ j \in broker /\ Cardinality({i \in Jobs : at[i] # "away"}) < Workers
  /\ broker' = broker \ {j}

\* A session ends, and with it what the task remembers.
Leaves(j) ==
  /\ at' = [at EXCEPT ![j] = "away"]
  /\ digest' = [i \in SyncJobs |-> IF i = j THEN None ELSE digest[i]]
  /\ document' = [i \in SyncJobs |-> IF i = j THEN None ELSE document[i]]
  /\ number' = [i \in SyncJobs |-> IF i = j THEN 0 ELSE number[i]]
  /\ child' = [i \in SyncJobs |-> IF i = j THEN None ELSE child[i]]
  /\ sawRows' = sawRows \ {j}

\* The task returns, and its message is acknowledged unless the worker dies
\* just then.  Nobody asks for a job that succeeded; one that failed may be
\* retried.
Acked(j) ==
  \/ UNCHANGED <<broker, incidents>>
  \/ Incident /\ broker' = broker \cup {j}

Returns(j, outcome) ==
  /\ Leaves(j)
  /\ status' = [status EXCEPT ![j] = IF outcome = "succeeded" THEN "free" ELSE outcome]
  /\ subject' = [p \in ParseJobs |->
                   IF p = j /\ outcome = "succeeded" /\ p \notin broker' THEN None
                   ELSE subject[p]]

(* sync_source_task.                                                        *)

SyncStart(j) ==
  /\ Delivered(j) /\ Room
  /\ status' = [status EXCEPT ![j] = "running"]
  /\ digest' = [digest EXCEPT ![j] = content]
  /\ at' = [at EXCEPT ![j] = "look"]
  /\ UNCHANGED <<content, document, number, child, subject, sawRows, rows, objects,
                 knowledge, makers, incidents>>

\* Documents the query may return; a new one if none is committed.
Selected(j) ==
  IF Known # {} THEN Known
  ELSE One({d \in Documents : \A i \in SyncJobs \ {j} : document[i] # d})

\* The content is new to the document.
SyncLook(j, d, n) ==
  /\ at[j] = "look" /\ d \in Selected(j) /\ ~Committed(<<d, digest[j]>>)
  /\ IsNextNumber(d, n)
  /\ document' = [document EXCEPT ![j] = d]
  /\ number' = [number EXCEPT ![j] = n]
  /\ at' = [at EXCEPT ![j] = "insert"]
  /\ UNCHANGED <<content, status, broker, digest, child, subject, sawRows, rows,
                 objects, knowledge, makers, incidents>>

\* Mutant: a version whose parsing was never begun is left alone.
SyncReparseFailed(j, d, p) ==
  LET v == <<d, digest[j]>> IN
  /\ at[j] = "look" /\ d \in Selected(j) /\ Committed(v)
  /\ state[v] = "failed" /\ p \in NewParse
  /\ status' = [status EXCEPT ![p] = "queued"]
  /\ subject' = [subject EXCEPT ![p] = v]
  /\ document' = [document EXCEPT ![j] = d]
  /\ child' = [child EXCEPT ![j] = p]
  /\ at' = [at EXCEPT ![j] = "resend"]
  /\ UNCHANGED <<content, broker, digest, number, sawRows, rows, objects, knowledge,
                 makers, incidents>>

\* The version exists, and its parsing has failed or has not begun.
SyncReparse(j, d, p) ==
  LET v == <<d, digest[j]>> IN
  /\ at[j] = "look" /\ d \in Selected(j) /\ Committed(v)
  /\ state[v] \in {"failed", "uploaded"} /\ p \in NewParse
  /\ status' = [status EXCEPT ![p] = "queued"]
  /\ subject' = [subject EXCEPT ![p] = v]
  /\ document' = [document EXCEPT ![j] = d]
  /\ child' = [child EXCEPT ![j] = p]
  /\ at' = [at EXCEPT ![j] = "resend"]
  /\ UNCHANGED <<content, broker, digest, number, sawRows, rows, objects, knowledge,
                 makers, incidents>>

\* Document and version are flushed, and the unique keys held.
SyncInsert(j) ==
  /\ at[j] = "insert"
  /\ ~Taken(Target(j), number[j]) /\ ~Blocked(Target(j), number[j], j)
  /\ at' = [at EXCEPT ![j] = "put"]
  /\ UNCHANGED <<content, status, broker, syncMemory, subject, sawRows, rows, objects,
                 knowledge, makers, incidents>>

SyncPut(j) ==
  /\ at[j] = "put"
  /\ objects' = objects \cup {Target(j)}
  /\ at' = [at EXCEPT ![j] = "commit"]
  /\ UNCHANGED <<content, status, broker, syncMemory, subject, sawRows, rows, knowledge,
                 makers, incidents>>

SyncCommit(j, p) ==
  /\ at[j] = "commit" /\ p \in NewParse
  /\ AddVersion(Target(j), number[j], p)
  /\ child' = [child EXCEPT ![j] = p]
  /\ at' = [at EXCEPT ![j] = "dispatch"]
  /\ UNCHANGED <<content, broker, digest, document, number, sawRows, objects, knowledge,
                 makers, incidents>>

SyncSend(j) ==
  /\ at[j] \in {"dispatch", "resend"}
  /\ broker' = broker \cup {child[j]}
  /\ at' = [at EXCEPT ![j] = "finish"]
  /\ UNCHANGED <<content, status, syncMemory, subject, sawRows, rows, objects, knowledge,
                 makers, incidents>>

\* Parsing what is new cannot be queued: version and sync fail.
SyncDispatchFails(j) ==
  /\ at[j] = "dispatch" /\ Incident /\ Leaves(j)
  /\ status' = [status EXCEPT ![child[j]] = "failed", ![j] = "failed"]
  /\ state' = [state EXCEPT ![Target(j)] = "failed"]
  /\ UNCHANGED <<content, broker, subject, numberOf, elements, objects, knowledge,
                 makers>>

\* A parse job for what is known fails alone, and the sync goes on.
SyncResendFails(j) ==
  /\ at[j] = "resend" /\ Incident
  /\ status' = [status EXCEPT ![child[j]] = "failed"]
  /\ at' = [at EXCEPT ![j] = "finish"]
  /\ UNCHANGED <<content, broker, syncMemory, subject, sawRows, rows, objects, knowledge,
                 makers>>

\* Also at once, if the version is parsed or being parsed: "unchanged".
SyncFinish(j) ==
  /\ \/ at[j] = "finish"
     \/ /\ at[j] = "look"
        /\ \E d \in Selected(j) : LET v == <<d, digest[j]>>
                                IN Committed(v) /\ state[v] \in {"processing", "ready"}
  /\ Acked(j) /\ Returns(j, "succeeded")
  /\ UNCHANGED <<content, rows, objects, knowledge, makers>>

\* An exception rolls back.
SyncRefused(j) ==
  /\ at[j] = "insert" /\ Taken(Target(j), number[j])
  /\ Acked(j) /\ Returns(j, "failed")
  /\ UNCHANGED <<content, rows, objects, knowledge, makers>>

SyncFails(j) ==
  /\ at[j] \in SyncSteps \ {"commit", "undo"} /\ Incident /\ UNCHANGED broker
  /\ Returns(j, "failed")
  /\ UNCHANGED <<content, rows, objects, knowledge, makers>>

\* A file that was stored for a version that is not committed is deleted, but
\* only after the rollback.
SyncCommitFails(j) ==
  /\ at[j] = "commit" /\ Incident
  /\ at' = [at EXCEPT ![j] = "undo"]
  /\ UNCHANGED <<content, status, broker, syncMemory, subject, sawRows, rows, objects,
                 knowledge, makers>>

SyncUndo(j) ==
  /\ at[j] = "undo" /\ Acked(j) /\ Returns(j, "failed")
  /\ objects' = objects \ {Target(j)}
  /\ UNCHANGED <<content, rows, knowledge, makers>>

-----------------------------------------------------------------------------
(* parse_version_task.                                                      *)

ParseStart(p) ==
  /\ Delivered(p)
  /\ status' = [status EXCEPT ![p] = "running"]
  /\ state' = [state EXCEPT ![subject[p]] = "processing"]
  /\ at' = [at EXCEPT ![p] = "parse"]
  /\ UNCHANGED <<content, syncMemory, subject, sawRows, numberOf, elements, objects,
                 knowledge, makers, incidents>>

\* The file is parsed, and the elements the version already has are read.
ParseRead(p) ==
  /\ at[p] = "parse" /\ subject[p] \in objects
  /\ sawRows' = IF subject[p] \in elements THEN sawRows \cup {p} ELSE sawRows
  /\ at' = [at EXCEPT ![p] = "persist"]
  /\ UNCHANGED <<content, status, broker, syncMemory, subject, rows, objects,
                 knowledge, makers, incidents>>

\* Elements another parse has inserted meanwhile clash with the ones to insert.
ElementsClash(p) == subject[p] \in elements /\ p \notin sawRows

ParsePersist(p) ==
  /\ at[p] = "persist" /\ ~ElementsClash(p)
  /\ elements' = elements \cup {subject[p]}
  /\ state' = [state EXCEPT ![subject[p]] = "ready"]
  /\ at' = [at EXCEPT ![p] = "provenance"]
  /\ UNCHANGED <<content, status, broker, syncMemory, subject, sawRows, numberOf, objects,
                 knowledge, makers, incidents>>

\* The job has succeeded; it asks for knowledge processing unless the key exists.
ParseDone(p) ==
  /\ at[p] = "provenance"
  /\ IF knowledge[subject[p]] = "none"
     THEN /\ status' = [status EXCEPT ![p] = "succeeded"]
          /\ at' = [at EXCEPT ![p] = "key"]
          /\ UNCHANGED <<broker, syncMemory, subject, sawRows, incidents>>
     ELSE Acked(p) /\ Returns(p, "succeeded")
  /\ UNCHANGED <<content, rows, objects, knowledge, makers>>

ParseRequest(p) ==
  /\ at[p] = "key" /\ knowledge[subject[p]] = "none"
  /\ knowledge' = [knowledge EXCEPT ![subject[p]] = "queued"]
  /\ at' = [at EXCEPT ![p] = "send"]
  /\ UNCHANGED <<content, status, broker, syncMemory, subject, sawRows, rows, objects,
                 makers, incidents>>

ParseSend(p) ==
  /\ at[p] = "send" /\ Acked(p) /\ Returns(p, "succeeded")
  /\ knowledge' = [knowledge EXCEPT ![subject[p]] = "sent"]
  /\ UNCHANGED <<content, rows, objects, makers>>

\* Parsing is durable: only the job for the knowledge fails.
ParseSendFails(p) ==
  /\ at[p] = "send" /\ Incident /\ UNCHANGED broker /\ Returns(p, "succeeded")
  /\ knowledge' = [knowledge EXCEPT ![subject[p]] = "failed"]
  /\ UNCHANGED <<content, rows, objects, makers>>

\* Mutant: the handler fails the job only.
ParseRaiseKept(p) ==
  /\ Returns(p, "failed")
  /\ UNCHANGED <<content, state, numberOf, elements, objects, knowledge, makers>>

\* An exception anywhere fails the version too, even one that is parsed.
ParseRaise(p) ==
  /\ Returns(p, "failed")
  /\ state' = [state EXCEPT ![subject[p]] = "failed"]
  /\ UNCHANGED <<content, numberOf, elements, objects, knowledge, makers>>

\* The file is gone, or a unique key of elements or of the knowledge job is taken.
ParseRefused(p) ==
  /\ \/ at[p] = "parse" /\ subject[p] \notin objects
     \/ at[p] = "persist" /\ ElementsClash(p)
     \/ at[p] = "key" /\ knowledge[subject[p]] # "none"
  /\ Acked(p) /\ ParseRaise(p)

ParseFails(p) ==
  /\ at[p] \in ParseSteps \ {"send"} /\ Incident /\ UNCHANGED broker
  /\ ParseRaise(p)

-----------------------------------------------------------------------------
(* Workers.                                                                 *)

\* acks_late: the message of a task whose worker dies is delivered again; what
\* it had not committed is rolled back, a stored file stays.
WorkerDies(j) ==
  /\ at[j] # "away" /\ Incident /\ Leaves(j)
  /\ broker' = broker \cup {j}
  /\ UNCHANGED <<content, status, subject, rows, objects, knowledge, makers>>

-----------------------------------------------------------------------------
SyncStep(j) ==
  \/ SyncInsert(j) \/ SyncPut(j) \/ SyncSend(j) \/ SyncFinish(j)
  \/ SyncRefused(j) \/ SyncUndo(j)
  \/ \E d \in Documents, n \in 1 .. Cardinality(Contents) : SyncLook(j, d, n)
  \/ \E d \in Documents, p \in ParseJobs : SyncReparse(j, d, p)
  \/ \E p \in ParseJobs : SyncCommit(j, p)

ParseStep(p) ==
  \/ ParseRead(p) \/ ParsePersist(p) \/ ParseDone(p) \/ ParseRequest(p)
  \/ ParseSend(p) \/ ParseRefused(p)

ApiStep == ApiSend \/ UploadRefused \/ \E p \in ParseJobs : UploadCommit(p)

BeatStep == BeatLook \/ BeatSend \/ \E j \in SyncJobs : BeatInsert(j)

Request ==
  \/ \E j \in SyncJobs : RequestSync(j)
  \/ \E old, j \in SyncJobs : RetrySync(old, j)
  \/ \E old, p \in ParseJobs : RetryParse(old, p)
  \/ \E v \in Versions, n \in 1 .. Cardinality(Contents) : Upload(v, n)

Fault ==
  \/ BeatSendFails \/ BeatDies \/ ApiSendFails \/ ApiDies
  \/ \E j \in SyncJobs : SyncDispatchFails(j) \/ SyncResendFails(j)
                        \/ SyncFails(j) \/ SyncCommitFails(j)
  \/ \E p \in ParseJobs : ParseFails(p) \/ ParseSendFails(p)
  \/ \E j \in Jobs : WorkerDies(j)

Next ==
  \/ Edit \/ BeatStep \/ ApiStep \/ Request \/ Fault
  \/ \E j \in SyncJobs : SyncStart(j) \/ SyncStep(j)
  \/ \E p \in ParseJobs : ParseStart(p) \/ ParseStep(p)

Spec == Init /\ [][Next]_vars

\* Beat fires when a period is over, workers take messages and go on, a request ends.
\* Nobody has to ask for anything, the source need not change and nothing fails.
Fairness ==
  /\ WF_vars(BeatStep) /\ WF_vars(ApiStep)
  /\ \A j \in SyncJobs : SF_vars(SyncStart(j)) /\ WF_vars(SyncStep(j))
  /\ \A p \in ParseJobs : SF_vars(ParseStart(p)) /\ WF_vars(ParseStep(p))

FairSpec == Spec /\ Fairness

-----------------------------------------------------------------------------
(***************************************************************************)
(* Nothing is left busy that nobody works on: a version that is processing *)
(* has a running parse and a running job is at a worker or will be         *)
(* delivered again.  A sync skips a version that is processing, the        *)
(* scheduler a source with a running sync, and only failed jobs can be     *)
(* retried: what broke this would stay so for ever.                        *)
(***************************************************************************)
BusyIsBacked ==
  /\ \A v \in Versions : state[v] = "processing" =>
       \E p \in ParseJobs : subject[p] = v /\ (at[p] # "away" \/ p \in broker)
  /\ \A j \in Jobs : status[j] = "running" => at[j] # "away" \/ j \in broker

(***************************************************************************)
(* However syncs, uploads, rollbacks and redeliveries interleave, the      *)
(* committed versions of a document are numbered 1, 2, ... without a gap   *)
(* and without a repetition.                                               *)
(***************************************************************************)
NumbersWithoutGap ==
  \A d \in Documents :
    LET own == {c \in Contents : Committed(<<d, c>>)}
    IN  {numberOf[<<d, c>>] : c \in own} = 1 .. Cardinality(own)

\* A queued sync that was never sent: it bars every other sync of the source.
Stranded ==
  \E j \in SyncJobs : status[j] = "queued" /\ j \notin broker /\ beat.job # j /\ api.job # j

\* A sync that failed has deleted the file of a version another one committed.
FileLost(c) == \E d \in Documents : Committed(<<d, c>>) /\ <<d, c>> \notin objects

(***************************************************************************)
(* What the source serves in the end is a parsed version for which         *)
(* knowledge processing has been asked, and stays so: failed steps, dead   *)
(* workers and refused messages are made up for by redelivery and by the   *)
(* next scheduled sync, except after the two accidents named above.        *)
(***************************************************************************)
ContentSettles ==
  <>[]( \/ \E d \in Documents : state[<<d, content>>] = "ready"
                                  /\ knowledge[<<d, content>>] # "none"
        \/ Stranded \/ FileLost(content) )
=============================================================================
