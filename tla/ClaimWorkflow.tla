--------------------------- MODULE ClaimWorkflow ---------------------------
(***************************************************************************)
(* The workflow of one claim, src/ContentProcessorWorkflow/src/steps: the  *)
(* run of ClaimProcessor, its four executors, the fan-out over the claim's *)
(* files with its semaphore and lock, the polling of the document records, *)
(* and the claim record in Cosmos DB that all of them and the API update   *)
(* by reading it, changing a field and replacing it.                       *)
(*                                                                         *)
(* A job is one call of ClaimProcessor.run: the claim's queue message can  *)
(* be delivered again after a crash, or while a job is still at work.  An  *)
(* action is one remote call, with the code up to the next one.  A call    *)
(* that changes something may also raise after its effect.                 *)
(***************************************************************************)
EXTENDS Naturals, FiniteSets

CONSTANTS
  File,            (* the files of the claim's manifest                     *)
  Job,             (* bound: deliveries of the claim's message              *)
  Stage,           (* statuses a document passes between its first and last *)
  RaiEnabled,      (* app_rai_enabled                                       *)
  MaxConcurrency,  (* permits of the fan-out's semaphore; 4 in the code     *)
  MaxPolls,        (* timeout_seconds over poll_interval_seconds            *)
  None

ASSUME WorkflowAssumption ==
  /\ RaiEnabled \in BOOLEAN
  /\ MaxConcurrency \in Nat \ {0}
  /\ MaxPolls \in Nat \ {0}

VARIABLES
  record,    (* the claim record                                            *)
  document,  (* the status of each document record, kept by ContentPipeline *)
  api,       (* where the API's start request is                            *)
  job,       (* the executor each job is in, and how far                    *)
  item,      (* the fan-out's task for each file                            *)
  consumer,  (* the event loop of ClaimProcessor.run                        *)
  foreign,   (* history: jobs since whose create others wrote the record    *)
  screened   (* history: files whose content the RAI agent has found safe   *)

vars == <<record, document, api, job, item, consumer, foreign, screened>>

-----------------------------------------------------------------------------
Terminal == {"Completed", "Error"}
DocStatus == {"processing"} \cup Stage \cup Terminal

(* What an entry of processed_documents says: the status of its document,  *)
(* or Failed when there was no document record to poll.                    *)
EntryStatus == DocStatus \cup {"Failed"}

Executor == {"document_processing", "rai_analysis", "summarizing", "gap_analysis"}

(* Claim_Steps; the stages are named after their executors.                *)
Final == {"Completed", "Failed"}
ClaimStatus == {"Pending"} \cup Final \cup Executor

(* processed_documents is keyed by file: its process_id is a function of   *)
(* claim and file name.  Summary and gaps are the files they were made of. *)
Claim == [status : ClaimStatus, docs : [File -> EntryStatus \cup {None}],
          summary : SUBSET File, gaps : SUBSET File, comment : BOOLEAN]

NewClaim(status) == [status |-> status, docs |-> [f \in File |-> None],
                     summary |-> {}, gaps |-> {}, comment |-> FALSE]

(* extracts is processed_files of the executor, copy the record as it last *)
(* read it, lock the holder of the fan-out's _upsert_lock; told: the       *)
(* ExecutorInvoked event of this executor has been taken.                  *)
JobState == [step : Executor,
             at : {"new", "lookup", "remove", "add", "fanout", "fetch", "agent",
                   "load", "save", "done", "failed", "killed"},
             extracts : SUBSET File, copy : Claim \cup {None},
             lock : File \cup {None}, told : BOOLEAN]

(* status is what the task will upsert or report, next where it goes then; *)
(* last is _last_polled_status.                                            *)
ItemState == [at : {"queued", "submit", "upsert", "store", "poll", "wait",
                    "final", "done", "failed"},
              status : EntryStatus, next : {"poll", "wait", "done"},
              copy : Claim \cup {None},
              last : DocStatus \cup {None}, polls : 0..MaxPolls]

(* None is not confused with anything that a variable may hold instead.    *)
ASSUME NoneAssumption ==
  None \notin File \cup Job \cup Claim \cup ClaimStatus
            \cup {"comment", "time", "returned", "failed", "raised", "killed"}

NewJob == [step |-> "document_processing", at |-> "new", extracts |-> {},
           copy |-> None, lock |-> None, told |-> FALSE]
NewItem == [at |-> "queued", status |-> "processing", next |-> "poll",
            copy |-> None, last |-> None, polls |-> 0]

(* want is the update under way: a status, the failure's comment, or the   *)
(* processed time with which every run ends.                               *)
ConsumerState == [at : {"off", "waiting", "load", "store", "over"},
                  want : Executor \cup Final \cup {"comment", "time", None},
                  copy : Claim \cup {None},
                  verdict : {"returned", "failed", "raised", "killed", None}]

TypeOK ==
  /\ record \in Claim \cup {None}
  /\ document \in [File -> DocStatus \cup {None}]
  /\ api \in {"new", "enqueued", "remove", "add", "done"}
  /\ job \in [Job -> JobState]
  /\ item \in [Job -> [File -> ItemState]]
  /\ consumer \in [Job -> ConsumerState]
  /\ foreign \subseteq Job
  /\ screened \subseteq File

-----------------------------------------------------------------------------
(* The record.                                                             *)

OthersSee(w) == foreign' = foreign \cup (Job \ {w})

(* update_async by writer w.  What it does to a record that was deleted    *)
(* after w read it is not in this repository: either outcome is possible.  *)
Replace(w, new) ==
  /\ record' = new \/ (record = None /\ record' = None)
  /\ OthersSee(w)

(* delete_async, and add_async, which refuses an id that is taken.         *)
Remove(w) == record' = None /\ OthersSee(w)
Add(w, new) ==
  /\ record = None
  /\ record' = new
  /\ foreign' = (foreign \cup Job) \ {w}

-----------------------------------------------------------------------------
(* start_claim_process of the API: the message first, then the record.     *)
Enqueue ==
  /\ api = "new"
  /\ api' = "enqueued"
  /\ UNCHANGED <<record, document, job, item, consumer, foreign, screened>>

ApiLookup ==
  /\ api = "enqueued"
  /\ api' = IF record # None THEN "remove" ELSE "add"
  /\ UNCHANGED <<record, document, job, item, consumer, foreign, screened>>

ApiRemove ==
  /\ api = "remove"
  /\ Remove(None)
  /\ api' = "add"
  /\ UNCHANGED <<document, job, item, consumer, screened>>

ApiAdd ==
  /\ api = "add"
  /\ Add(None, NewClaim("Pending")) \/ (record # None /\ UNCHANGED <<record, foreign>>)
  /\ api' = "done"
  /\ UNCHANGED <<document, job, item, consumer, screened>>

StartRequest == Enqueue \/ ApiLookup \/ ApiRemove \/ ApiAdd

-----------------------------------------------------------------------------
(* Executors.  Each step of an executor keeps what it does not name.       *)
Executes(j, at) == consumer[j].at # "over" /\ job[j].at = at
Goes(j, at) == job' = [job EXCEPT ![j].at = at]

(* A job of the claim: the queue service runs it, the start executor reads *)
(* the manifest.                                                           *)
Begin(j) ==
  /\ consumer[j].at = "off" /\ api # "new"
  /\ Goes(j, "lookup")
  /\ consumer' = [consumer EXCEPT ![j].at = "waiting"]
  /\ UNCHANGED <<record, document, api, item, foreign, screened>>

(* Create_Claim_Process.                                                   *)
LookupClaim(j) ==
  /\ Executes(j, "lookup")
  /\ Goes(j, IF record # None THEN "remove" ELSE "add")
  /\ UNCHANGED <<record, document, api, item, consumer, foreign, screened>>

RemoveClaim(j) ==
  /\ Executes(j, "remove")
  /\ Remove(j)
  /\ Goes(j, "add") \/ Goes(j, "failed")
  /\ UNCHANGED <<document, api, item, consumer, screened>>

AddClaim(j) ==
  /\ Executes(j, "add")
  /\ \/ /\ Add(j, NewClaim("document_processing"))
        /\ Goes(j, "fanout") \/ Goes(j, "failed")
     \/ record # None /\ Goes(j, "failed") /\ UNCHANGED <<record, foreign>>
  /\ UNCHANGED <<document, api, item, consumer, screened>>

-----------------------------------------------------------------------------
(* _process_one, the task of file f.                                       *)
Settled == {"done", "failed"}
(* Mutant: a task that raises keeps its permit.                             *)
InFlightForGood(j) == {f \in File : item[j][f].at \notin {"done", "queued"}}

InFlight(j) == {f \in File : item[j][f].at \notin Settled \cup {"queued"}}
TaskAt(j, f, at) == Executes(j, "fanout") /\ item[j][f].at = at

(* A task ends with its status, or by an exception; its variables go.      *)
TaskGoes(j, f, at) ==
  item' = [item EXCEPT ![j][f] =
    CASE at = "done" -> [NewItem EXCEPT !.at = at, !.status = item[j][f].status]
      [] at = "failed" -> [NewItem EXCEPT !.at = at]
      [] OTHER -> [@ EXCEPT !.at = at, !.copy = None]]
Upserts(j, f, status, next) ==
  item' = [item EXCEPT ![j][f] = [@ EXCEPT !.at = "upsert", !.status = status,
                                           !.next = next]]

Acquire(j, f) ==
  /\ TaskAt(j, f, "queued")
  /\ Cardinality(InFlight(j)) < MaxConcurrency
  /\ TaskGoes(j, f, "submit")
  /\ UNCHANGED <<record, document, api, job, consumer, foreign, screened>>

(* Downloads the file and submits it, which leaves an existing document    *)
(* record alone.                                                           *)
SubmitFile(j, f) ==
  /\ TaskAt(j, f, "submit")
  /\ document' = [document EXCEPT ![f] = IF @ = None THEN "processing" ELSE @]
  /\ Upserts(j, f, "processing", "poll") \/ TaskGoes(j, f, "failed")
  /\ UNCHANGED <<record, api, job, consumer, foreign, screened>>

(* Mutant: without the lock.                                                *)
LoadUnlocked(j, f) ==
  /\ TaskAt(j, f, "upsert")
  /\ IF record = None
     THEN TaskGoes(j, f, item[j][f].next) /\ UNCHANGED job
     ELSE /\ job' = [job EXCEPT ![j].lock = f]
          /\ item' = [item EXCEPT ![j][f] = [@ EXCEPT !.at = "store", !.copy = record]]
  /\ UNCHANGED <<record, document, api, consumer, foreign, screened>>

(* Upsert_Content_Process under _upsert_lock: nothing is written when the  *)
(* claim has no record.                                                    *)
LockAndLoad(j, f) ==
  /\ TaskAt(j, f, "upsert") /\ job[j].lock = None
  /\ IF record = None
     THEN TaskGoes(j, f, item[j][f].next) /\ UNCHANGED job
     ELSE /\ job' = [job EXCEPT ![j].lock = f]
          /\ item' = [item EXCEPT ![j][f] = [@ EXCEPT !.at = "store", !.copy = record]]
  /\ UNCHANGED <<record, document, api, consumer, foreign, screened>>

StoreEntry(j, f) ==
  /\ TaskAt(j, f, "store")
  /\ Replace(j, [item[j][f].copy EXCEPT !.docs[f] = item[j][f].status])
  /\ job' = [job EXCEPT ![j].lock = None]
  /\ TaskGoes(j, f, item[j][f].next) \/ TaskGoes(j, f, "failed")
  /\ UNCHANGED <<document, api, consumer, screened>>

(* get_status reads the status of the document's record, None without one; *)
(* get_processed reads the whole of it.                                    *)
GetStatus(f) == document[f]
Processed(f, polled) == IF document[f] = None THEN polled ELSE document[f]

(* One round of poll_status with _on_poll: no record is a failure, a new   *)
(* status that is not terminal is written to the claim.                    *)
Poll(j, f) ==
  /\ TaskAt(j, f, "poll")
  /\ LET now == GetStatus(f)
         i == item[j][f]
     IN  \/ /\ now = None
            /\ item' = [item EXCEPT ![j][f] = [i EXCEPT !.at = "final", !.status = "Failed"]]
         \/ /\ now \in Terminal
            /\ item' = [item EXCEPT ![j][f] = [i EXCEPT !.at = "final", !.status = now,
                                                        !.last = now]]
         \/ /\ now \in DocStatus \ Terminal
            /\ item' = [item EXCEPT ![j][f] =
                 [i EXCEPT !.at = IF now = i.last THEN "wait" ELSE "upsert",
                           !.status = now, !.next = "wait", !.last = now]]
  /\ UNCHANGED <<record, document, api, job, consumer, foreign, screened>>

(* The interval between two polls, up to the timeout.                      *)
Wait(j, f) ==
  /\ TaskAt(j, f, "wait")
  /\ LET n == item[j][f].polls + 1
     IN  item' = [item EXCEPT ![j][f] =
                    [@ EXCEPT !.at = IF n < MaxPolls THEN "poll" ELSE "final",
                              !.polls = n]]
  /\ UNCHANGED <<record, document, api, job, consumer, foreign, screened>>

(* get_processed reads the record once more: its status is the final one.  *)
GetProcessed(j, f) ==
  /\ TaskAt(j, f, "final")
  /\ Upserts(j, f, Processed(f, item[j][f].status), "done")
  /\ UNCHANGED <<record, document, api, job, consumer, foreign, screened>>

(* A call raises: the task reports an exception and lets go of the lock.   *)
TaskRaises(j, f) ==
  /\ \E at \in {"submit", "upsert", "store", "poll", "final"} : TaskAt(j, f, at)
  /\ item[j][f].at = "upsert" => job[j].lock = None
  /\ TaskGoes(j, f, "failed")
  /\ job' = IF job[j].lock = f THEN [job EXCEPT ![j].lock = None] ELSE job
  /\ UNCHANGED <<record, document, api, consumer, foreign, screened>>

(* The task group ends when every task has.                                *)
FanIn(j) ==
  /\ Executes(j, "fanout")
  /\ \A f \in File : item[j][f].at \in Settled
  /\ Goes(j, "done")
  /\ UNCHANGED <<record, document, api, item, consumer, foreign, screened>>

-----------------------------------------------------------------------------
(* Mutant: every document with a result, whatever its status.               *)
UsableAnyway(j) == {f \in File : item[j][f].at = "done"}

(* The executors after the fan-out use the documents with result 302.      *)
Usable(j) == {f \in File : item[j][f].at = "done" /\ item[j][f].status = "Completed"}

(* The content of each is fetched again by each executor; what cannot be   *)
(* fetched is passed over.  Without any content the agent is not asked.    *)
Fetch(j) ==
  /\ Executes(j, "fetch")
  /\ \E got \in SUBSET Usable(j) :
       job' = [job EXCEPT ![j].extracts = got,
                          ![j].at = IF got = {} THEN "done" ELSE "agent"]
  /\ UNCHANGED <<record, document, api, item, consumer, foreign, screened>>

(* The RAI agent finds the content safe; otherwise its executor raises.    *)
Screen(j) ==
  /\ Executes(j, "agent") /\ job[j].step = "rai_analysis"
  /\ screened' = screened \cup job[j].extracts
  /\ Goes(j, "done")
  /\ UNCHANGED <<record, document, api, item, consumer, foreign>>

(* The answer of the other agents; the gap executor drops one that is not  *)
(* a JSON object.                                                          *)
Answer(j) ==
  /\ Executes(j, "agent") /\ job[j].step \in {"summarizing", "gap_analysis"}
  /\ Goes(j, "load") \/ (job[j].step = "gap_analysis" /\ Goes(j, "done"))
  /\ UNCHANGED <<record, document, api, item, consumer, foreign, screened>>

(* Update_Claim_Process_Summary and Update_Claim_Process_Gaps.             *)
LoadClaim(j) ==
  /\ Executes(j, "load")
  /\ job' = [job EXCEPT ![j].copy = record,
                        ![j].at = IF record = None THEN "done" ELSE "save"]
  /\ UNCHANGED <<record, document, api, item, consumer, foreign, screened>>

SaveClaim(j) ==
  /\ Executes(j, "save")
  /\ LET c == job[j].copy
     IN  Replace(j, IF job[j].step = "summarizing"
                    THEN [c EXCEPT !.summary = job[j].extracts]
                    ELSE [c EXCEPT !.gaps = job[j].extracts])
  /\ \E at \in {"done", "failed"} :
       job' = [job EXCEPT ![j].at = at, ![j].copy = None]
  /\ UNCHANGED <<document, api, item, consumer, screened>>

(* A call of an executor raises, the agent's verdict unsafe included.      *)
ExecutorRaises(j) ==
  /\ \E at \in {"lookup", "remove", "add", "fetch", "agent", "load", "save"} :
       Executes(j, at)
  /\ job' = [job EXCEPT ![j].at = "failed", ![j].copy = None]
  /\ UNCHANGED <<record, document, api, item, consumer, foreign, screened>>

-----------------------------------------------------------------------------
(* run(): the events of the workflow, and what it writes for each.  The    *)
(* start executor runs before the first event is delivered, the others run *)
(* while theirs is handled; an executor starts when the one before is done *)
(* and its event has been taken.                                           *)
Listens(j) == consumer[j].at = "waiting" /\ consumer[j].verdict = None
Wants(j, what) == [consumer[j] EXCEPT !.at = "load", !.want = what]

ExecutorInvoked(j) ==
  /\ Listens(j) /\ ~job[j].told
  /\ job[j].step = "document_processing" => job[j].at \in {"done", "failed"}
  /\ consumer' = [consumer EXCEPT ![j] = Wants(j, job[j].step)]
  /\ job' = [job EXCEPT ![j].told = TRUE]
  /\ UNCHANGED <<record, document, api, item, foreign, screened>>

WorkflowFailed(j) ==
  /\ Listens(j) /\ job[j].at = "failed"
  /\ job[j].told \/ job[j].step = "document_processing"
  /\ consumer' = [consumer EXCEPT ![j] = [Wants(j, "Failed") EXCEPT !.verdict = "failed"]]
  /\ UNCHANGED <<record, document, api, job, item, foreign, screened>>

WorkflowOutput(j) ==
  /\ Listens(j) /\ job[j].at = "done" /\ job[j].told /\ job[j].step = "gap_analysis"
  /\ consumer' = [consumer EXCEPT ![j] = [Wants(j, "Completed") EXCEPT !.verdict = "returned"]]
  /\ UNCHANGED <<record, document, api, job, item, foreign, screened>>

(* The edges of _init_workflow.                                            *)
Successor(e) ==
  CASE e = "document_processing" -> IF RaiEnabled THEN "rai_analysis" ELSE "summarizing"
    [] e = "rai_analysis" -> "summarizing"
    [] OTHER -> "gap_analysis"

NextExecutor(j) ==
  /\ Listens(j) /\ job[j].at = "done" /\ job[j].told /\ job[j].step # "gap_analysis"
  /\ LET b == job[j]
     IN  job' = [job EXCEPT ![j] = [b EXCEPT !.step = Successor(b.step), !.at = "fetch",
                                            !.extracts = {}, !.told = FALSE]]
  /\ UNCHANGED <<record, document, api, item, consumer, foreign, screened>>

(* Mutant: the reason of a failure is not written.                          *)
ProceedsInSilence(j) ==
  LET c == consumer[j]
      on(what) == [c EXCEPT !.at = "load", !.want = what, !.copy = None]
      to(at) == [c EXCEPT !.at = at, !.want = None, !.copy = None]
  IN  consumer' = [consumer EXCEPT ![j] =
        CASE c.want \in Final -> on("time")
          [] c.want = "time" -> to("over")
          [] OTHER -> to("waiting")]

(* After an update: the comment follows the status Failed, and the time of *)
(* the finally block ends the run.                                         *)
Proceeds(j) ==
  LET c == consumer[j]
      on(what) == [c EXCEPT !.at = "load", !.want = what, !.copy = None]
      to(at) == [c EXCEPT !.at = at, !.want = None, !.copy = None]
  IN  consumer' = [consumer EXCEPT ![j] =
        CASE c.want = "Failed" -> on("comment")
          [] c.want \in {"comment", "Completed"} -> on("time")
          [] c.want = "time" -> to("over")
          [] OTHER -> to("waiting")]

(* An update raises: another exception leaves run(), by the finally block. *)
Breaks(j) ==
  LET c == [consumer[j] EXCEPT !.verdict = "raised", !.copy = None]
  IN  consumer' = [consumer EXCEPT ![j] =
        IF c.want = "time" THEN [c EXCEPT !.at = "over", !.want = None]
        ELSE [c EXCEPT !.at = "load", !.want = "time"]]

(* Update_Claim_Process_Status, _Comment, and the update of the time.      *)
Load(j) ==
  /\ consumer[j].at = "load"
  /\ IF record = None THEN Proceeds(j)
     ELSE consumer' = [consumer EXCEPT ![j].at = "store", ![j].copy = record]
  /\ UNCHANGED <<record, document, api, job, item, foreign, screened>>

(* Mutant: the comment is written with defaults for the other fields.       *)
UpdatedWithDefaults(c, what) ==
  CASE what = "comment" -> [NewClaim("document_processing") EXCEPT !.comment = TRUE]
    [] what = "time" -> c
    [] OTHER -> [c EXCEPT !.status = what]

Updated(c, what) ==
  CASE what = "comment" -> [c EXCEPT !.comment = TRUE]
    [] what = "time" -> c
    [] OTHER -> [c EXCEPT !.status = what]

Store(j) ==
  /\ consumer[j].at = "store"
  /\ Replace(j, Updated(consumer[j].copy, consumer[j].want))
  /\ Proceeds(j) \/ Breaks(j)
  /\ UNCHANGED <<document, api, job, item, screened>>

UpdateRaises(j) ==
  /\ consumer[j].at \in {"load", "store"}
  /\ Breaks(j)
  /\ UNCHANGED <<record, document, api, job, item, foreign, screened>>

(* The process is killed or its job cancelled, and its memory is gone.     *)
Kill(j) ==
  /\ consumer[j].at \notin {"off", "over"}
  /\ job' = [job EXCEPT ![j] = [NewJob EXCEPT !.at = "killed"]]
  /\ item' = [item EXCEPT ![j] = [f \in File |-> NewItem]]
  /\ consumer' = [consumer EXCEPT ![j] = [at |-> "over", want |-> None, copy |-> None,
                                          verdict |-> "killed"]]
  /\ UNCHANGED <<record, document, api, foreign, screened>>

-----------------------------------------------------------------------------
(* The content pipeline moves a submitted document, to and fro as          *)
(* ContentPipeline does; the document API can delete its record.  Moves    *)
(* that no task is there to see are left out.                              *)
DocumentMoves(f) ==
  /\ document[f] # None
  /\ \E j \in Job : TaskAt(j, f, "poll") \/ TaskAt(j, f, "final")
  /\ \E s \in (DocStatus \cup {None}) \ {document[f]} : document' = [document EXCEPT ![f] = s]
  /\ UNCHANGED <<record, api, job, item, consumer, foreign, screened>>

Init ==
  /\ record = None
  /\ document = [f \in File |-> None]
  /\ api = "new"
  /\ job = [j \in Job |-> NewJob]
  /\ item = [j \in Job |-> [f \in File |-> NewItem]]
  /\ consumer = [j \in Job |-> [at |-> "off", want |-> None, copy |-> None, verdict |-> None]]
  /\ foreign = Job
  /\ screened = {}

Task(j, f) ==
  \/ Acquire(j, f) \/ SubmitFile(j, f) \/ LockAndLoad(j, f) \/ StoreEntry(j, f)
  \/ Poll(j, f) \/ Wait(j, f) \/ GetProcessed(j, f)

Execute(j) ==
  \/ LookupClaim(j) \/ RemoveClaim(j) \/ AddClaim(j)
  \/ FanIn(j)
  \/ Fetch(j) \/ Screen(j) \/ Answer(j) \/ LoadClaim(j) \/ SaveClaim(j)

Consume(j) ==
  \/ ExecutorInvoked(j) \/ WorkflowFailed(j) \/ WorkflowOutput(j) \/ NextExecutor(j)
  \/ Load(j) \/ Store(j)

Advance(j) == Execute(j) \/ Consume(j) \/ \E f \in File : Task(j, f)

Fault(j) ==
  \/ ExecutorRaises(j) \/ UpdateRaises(j) \/ Kill(j)
  \/ \E f \in File : TaskRaises(j, f)

Next ==
  \/ StartRequest
  \/ \E j \in Job : Begin(j) \/ Advance(j) \/ Fault(j)
  \/ \E f \in File : DocumentMoves(f)

Spec == Init /\ [][Next]_vars

(* Calls return and the loop runs what can go on.  Nothing is asked of the *)
(* documents: they may move, or stay, for ever.                            *)
FairSpec == Spec /\ \A j \in Job : WF_vars(Advance(j))

-----------------------------------------------------------------------------
(* The list of documents is exact: as long as nobody else writes the       *)
(* record, it has the final status of every file whose task is through,    *)
(* although the tasks update one record concurrently.                      *)
ListExact ==
  \A j \in Job \ foreign : \A f \in File :
    item[j][f].at = "done" =>
      record # None /\ record.docs[f] = item[j][f].status

(* A summary or gap analysis is only of files that the same record lists   *)
(* as Completed.                                                           *)
ResultsFromListed ==
  foreign # Job =>
    record # None /\ \A f \in record.summary \cup record.gaps : record.docs[f] = "Completed"

(* A run that ends by an executor's failure leaves the claim failed, with  *)
(* the reason, for the job's own later updates do not undo it.             *)
FailureHasReason ==
  \A j \in Job \ foreign :
    consumer[j].at = "over" /\ consumer[j].verdict = "failed" =>
      record.status = "Failed" /\ record.comment

(* Completed and Failed are last words: no later update of the same job    *)
(* takes them back.                                                        *)
VerdictStays ==
  [][\A j \in Job : j \notin foreign \cup foreign' /\ record.status \in Final
       => record'.status = record.status]_vars

(* A job comes to its end, whether its documents do or not.                *)
JobsEnd == \A j \in Job : consumer[j].at # "off" ~> consumer[j].at = "over"

(* What is summarised or analysed has passed the safety gate.              *)
UsedIsScreened ==
  RaiEnabled /\ record # None => record.summary \cup record.gaps \subseteq screened
-----------------------------------------------------------------------------
(* What the proofs carry along for each job.                               *)
(* Up to the end of the fan-out the event loop has nothing to do, and up to*)
(* its start no task has run.                                              *)
FanOutFirst(j) ==
  /\ job[j].at = "new" <=> consumer[j].at = "off"
  /\ job[j].at \in {"new", "lookup", "remove", "add", "fanout"} =>
       /\ consumer[j].at \in {"off", "waiting"} /\ consumer[j].verdict = None
       /\ job[j].step = "document_processing" /\ job[j].extracts = {}
       /\ ~job[j].told
  /\ job[j].at \in {"new", "lookup", "remove", "add"} =>
       /\ job[j].lock = None
       /\ \A f \in File : item[j][f] = NewItem

(* Who is about to store has read a record, and a task has the lock.       *)
StoresWhatIsRead(j) ==
  /\ consumer[j].at = "store" => consumer[j].copy # None
  /\ consumer[j].at \in {"load", "store"} <=> consumer[j].want # None
  /\ job[j].at = "save" => job[j].copy # None
  /\ \A f \in File : item[j][f].at = "store" =>
       item[j][f].copy # None /\ job[j].lock = f

(* A task that will poll again has time left.                              *)
PollsLeft(j) ==
  \A f \in File :
    LET i == item[j][f]
    IN  \/ i.at \in {"queued", "submit", "poll", "wait"}
        \/ i.at \in {"upsert", "store"} /\ i.next # "done"
        => i.polls < MaxPolls

(* What the event loop is about to write fits how the run ended.           *)
WantsItsVerdict(j) ==
  LET c == consumer[j]
  IN  /\ c.verdict = "failed" => job[j].at = "failed"
      /\ c.verdict = "returned" => job[j].at = "done"
      /\ c.want \in {"Failed", "comment"} => c.verdict = "failed"
      /\ c.want = "Completed" => c.verdict = "returned"
      /\ c.want \in Executor \/ c.at = "waiting" => c.verdict = None

Coherent(j) ==
  FanOutFirst(j) /\ StoresWhatIsRead(j) /\ PollsLeft(j) /\ WantsItsVerdict(j)

(* The record of a job that alone has written it since its create.         *)
Listed == {f \in File : record.docs[f] = "Completed"}
OfListed(c) == c.summary \cup c.gaps \subseteq Listed

OwnRecord(j) ==
  /\ job[j].at \notin {"new", "lookup", "remove", "add"}
  /\ record # None /\ OfListed(record)
  /\ job[j].extracts \subseteq Usable(j)
  /\ \A f \in File : item[j][f].at = "done" => record.docs[f] = item[j][f].status

OwnCopies(j) ==
  /\ job[j].at = "fanout" =>
       /\ record.summary = {} /\ record.gaps = {}
       /\ \A f \in File : item[j][f].at = "store" => item[j][f].copy = record
  /\ job[j].at = "save" =>
       LET c == job[j].copy
       IN  c.docs = record.docs /\ c.status \notin Final /\ OfListed(c)
  /\ consumer[j].at = "store" =>
       LET c == consumer[j].copy
       IN  c.docs = record.docs /\ OfListed(c) /\ (c.status \in Final => c = record)

OwnVerdict(j) ==
  LET c == consumer[j]
  IN  /\ record.status \in Final =>
           /\ job[j].at \in {"done", "failed", "killed"}
           /\ c.at \in {"load", "store", "over"} /\ c.want \in {"comment", "time", None}
           /\ c.at = "store" => c.copy = record
      /\ c.verdict = "failed" =>
           /\ c.want \in {"comment", "time", None} => record.status = "Failed"
           /\ c.want \in {"time", None} => record.comment

Own(j) == OwnRecord(j) /\ OwnCopies(j) /\ OwnVerdict(j)

WorkflowInvariant ==
  /\ TypeOK
  /\ \A j \in Job : Coherent(j)
  /\ \A j \in Job \ foreign : Own(j)
=============================================================================
