---------------------------- MODULE ClaimIntake ----------------------------
(***************************************************************************)
(* One claim on its way in: the claim's folder of blobs with its manifest, *)
(* its record in Cosmos DB and its queue message, as the endpoints of      *)
(* claimprocessor.py and the detached intake task of claimsdemo.py change  *)
(* them.  A claim is "auto" (auto-submit and the sample claim: stored,     *)
(* recorded, answered, then classified and enqueued in the background) or  *)
(* "batch" (a container, uploads one by one, and a start).                 *)
(*                                                                         *)
(* The API runs in several processes, so that any two remote calls of two  *)
(* requests may interleave; a step is one remote call.  A request or the   *)
(* task is lost when its process dies.  What the workflow does to the      *)
(* record is in ClaimWorkflow; here it takes the message, replaces the     *)
(* record and ends.                                                        *)
(***************************************************************************)
EXTENDS Naturals

CONSTANTS
  Call,        (* requests to the API, each made at most once               *)
  File,        (* files a client uploads                                    *)
  Name,        (* names of blobs                                            *)
  NameOf,      (* the name sanitize_filename gives each file                *)
  None,        (* no manifest, no record, no blob, nothing read             *)
  MaxFaults    (* bound: remote calls that fail and processes that die      *)

VARIABLES
  kind,        (* how the claim comes in: "auto" or "batch"                 *)
  blob,        (* the file stored under each name                           *)
  manifest,    (* manifest.json: the claim's items                          *)
  record,      (* the claim record                                          *)
  messages,    (* the claim's messages in the queue                         *)
  call,        (* the requests under way                                    *)
  intake,      (* the auto-submit request and its detached task             *)
  workflow,    (* what the workflow read and where it is                    *)
  past         (* history: faults, what was ever asked of this claim, and   *)
               (* what went wrong with its record                           *)

vars == <<kind, blob, manifest, record, messages, call, intake, workflow, past>>

(* by is the request that added the item; the intake's are replaced.       *)
Item == [file : File, by : Call \cup {"intake"}, schema : {"default", "classified"}]
Record == [status : {"Pending", "Processing", "Completed", "Failed"}, comment : BOOLEAN]

ASSUME IntakeAssumption ==
  /\ NameOf \in [File -> Name] /\ File # {}
  /\ None \notin File \cup Record /\ \A S \in SUBSET Item : S # None
  /\ MaxFaults \in Nat

NewRecord(status) == [status |-> status, comment |-> FALSE]

Operation == {"upload", "start", "comment", "deleteClaim", "deleteRecord"}
CallAt == {"new", "blob", "read", "write", "enqueue", "lookup", "remove", "add",
           "store", "list", "purge", "done", "lost"}
IntakeAt == {"new", "record", "classify", "read", "write", "labels", "enqueue",
             "sorry", "mark", "markAdd", "markStore", "done", "rejected", "lost"}

NewCall == [op |-> "start", at |-> "new", file |-> CHOOSE f \in File : TRUE,
            items |-> None, seen |-> None, todo |-> {}]

Init ==
  /\ kind \in {"auto", "batch"}
  /\ blob = [n \in Name |-> None]
  /\ manifest = IF kind = "batch" THEN {} ELSE None   \* create_claim_container
  /\ record = None /\ messages = 0
  /\ call = [r \in Call |-> NewCall]
  /\ intake = [at |-> "new", seen |-> None]
  /\ workflow = [at |-> "idle", items |-> None]
  /\ past = [faults |-> 0, ops |-> {}, sent |-> FALSE, halfway |-> FALSE,
             undone |-> FALSE]

At(r, at)   == call[r].at = at
Goto(r, at) == call' = [call EXCEPT ![r].at = at]
CanFail     == past.faults < MaxFaults
Fault       == [past EXCEPT !.faults = @ + 1]

(* A replacement of the record has removed it: one that was cut short      *)
(* before is over.                                                         *)
Replaces == past' = [past EXCEPT !.halfway = FALSE]

(* delete_async, and add_async, which refuses an id that is taken; an      *)
(* update_async replaces the whole record, and may or may not bring back   *)
(* one that was deleted since it was read.                                 *)
AddRecord(new) == IF record = None THEN record' = new ELSE UNCHANGED record
StoreRecord(new) == record' = new \/ (record = None /\ UNCHANGED record)

(* What GET /claims/{id}/status answers.                                   *)
StatusAnswer ==
  CASE record = None -> 404
    [] record # None /\ record.status \in {"Completed", "Failed"} -> 302
    [] OTHER -> 200

-----------------------------------------------------------------------------
(* Requests.  A claim's id is known to clients once it is answered or      *)
(* listed; clients upload to the batch claims they made.                   *)
Known == kind = "batch" \/ record # None \/ intake.at \notin {"new", "record", "rejected"}

FirstStep(op) ==
  CASE op = "upload" -> "blob" [] op = "start" -> "enqueue"
    [] op = "deleteClaim" -> "list" [] OTHER -> "lookup"

Request(r) ==
  /\ At(r, "new") /\ Known
  /\ \E op \in Operation, f \in File :
       /\ op = "upload" => kind = "batch"
       /\ op # "upload" => f = NewCall.file
       /\ call' = [call EXCEPT ![r] =
                      [@ EXCEPT !.op = op, !.file = f, !.at = FirstStep(op)]]
       /\ past' = [past EXCEPT !.ops = @ \cup {op}]
  /\ UNCHANGED <<kind, blob, manifest, record, messages, intake, workflow>>

(* Any remote call of a request can fail, which answers an error, or its   *)
(* process dies: the request stops where it is.                            *)
RequestLost(r) ==
  /\ call[r].at \notin {"new", "done", "lost"} /\ CanFail
  /\ Goto(r, "lost")
  /\ past' = [Fault EXCEPT !.halfway = @ \/ At(r, "add")]
  /\ UNCHANGED <<kind, blob, manifest, record, messages, intake, workflow>>

(* Mutant: an upload that fails is answered like one that succeeds.        *)
UploadBlobMaybe(r) ==
  /\ At(r, "blob")
  /\ blob' \in {blob, [blob EXCEPT ![NameOf[call[r].file]] = call[r].file]}
  /\ Goto(r, "read")
  /\ UNCHANGED <<kind, manifest, record, messages, intake, workflow, past>>

(* add_file_to_claim: the blob, then the manifest read and written back.   *)
UploadBlob(r) ==
  /\ At(r, "blob")
  /\ blob' = [blob EXCEPT ![NameOf[call[r].file]] = call[r].file]
  /\ Goto(r, "read")
  /\ UNCHANGED <<kind, manifest, record, messages, intake, workflow, past>>

ReadManifest(r) ==
  /\ At(r, "read")
  /\ call' = [call EXCEPT ![r].items = manifest,
                          ![r].at = IF manifest = None THEN "done" ELSE "write"]
  /\ UNCHANGED <<kind, blob, manifest, record, messages, intake, workflow, past>>

WriteManifest(r) ==
  /\ At(r, "write")
  /\ manifest' = call[r].items
       \cup {[file |-> call[r].file, by |-> r, schema |-> "default"]}
  /\ call' = [call EXCEPT ![r].at = "done", ![r].items = None]
  /\ UNCHANGED <<kind, blob, record, messages, intake, workflow, past>>

(* start_claim_process: the message first, then the record is replaced.    *)
EnqueueStart(r) ==
  /\ At(r, "enqueue")
  /\ messages' = messages + 1
  /\ past' = [past EXCEPT !.sent = TRUE]
  /\ Goto(r, "lookup")
  /\ UNCHANGED <<kind, blob, manifest, record, intake, workflow>>

(* get_async, with which start, comment and the two deletions go on.       *)
AfterLookup(op) ==
  CASE record = None /\ op = "start" -> "add"
    [] record = None /\ op # "start" -> "done"                    \* 404
    [] record # None /\ op = "comment" -> "store"
    [] OTHER -> "remove"

LookupRecord(r) ==
  /\ At(r, "lookup")
  /\ call' = [call EXCEPT
       ![r].seen = IF call[r].op = "comment" THEN record ELSE None,
       ![r].at = AfterLookup(call[r].op)]
  /\ UNCHANGED <<kind, blob, manifest, record, messages, intake, workflow, past>>

RemoveRecord(r) ==
  /\ At(r, "remove")
  /\ record' = None
  /\ \/ call[r].op = "start" /\ Goto(r, "add") /\ Replaces
     \/ call[r].op # "start" /\ Goto(r, "done") /\ UNCHANGED past
  /\ UNCHANGED <<kind, blob, manifest, messages, intake, workflow>>

(* Mutant: the record that was there is not replaced by a new one.         *)
AddsNothing(r) == record' = record

AddsPending(r) == AddRecord(NewRecord("Pending"))

AddPending(r) ==
  /\ At(r, "add")
  /\ AddsPending(r)
  /\ Goto(r, "done")
  /\ UNCHANGED <<kind, blob, manifest, messages, intake, workflow, past>>

(* add_comment_to_claim puts back the record it read, with the comment:    *)
(* also over a mark or a deletion that came since.                         *)
Pends(rec) == rec # None /\ rec.status = "Pending"

StoreComment(r) ==
  /\ At(r, "store")
  /\ StoreRecord([call[r].seen EXCEPT !.comment = TRUE])
  /\ call' = [call EXCEPT ![r].at = "done", ![r].seen = None]
  /\ past' = [past EXCEPT !.undone = @ \/ (Pends(record') /\ ~Pends(record))]
  /\ UNCHANGED <<kind, blob, manifest, messages, intake, workflow>>

(* delete_claim_container: delete_folder lists the claim's blobs and       *)
(* deletes them one by one; whatever happens there, the record is next.    *)
ListFolder(r) ==
  /\ At(r, "list")
  /\ call' = [call EXCEPT ![r].at = "purge", ![r].todo =
       {n \in Name : blob[n] # None} \cup (IF manifest = None THEN {} ELSE {"manifest"})]
  /\ UNCHANGED <<kind, blob, manifest, record, messages, intake, workflow, past>>

PurgeOne(r) ==
  /\ At(r, "purge")
  /\ \E n \in call[r].todo :
       /\ call' = [call EXCEPT ![r].todo = @ \ {n}]
       /\ IF n = "manifest" THEN manifest' = None /\ UNCHANGED blob
          ELSE blob' = [blob EXCEPT ![n] = None] /\ UNCHANGED manifest
  /\ UNCHANGED <<kind, record, messages, intake, workflow, past>>

PurgeEnds(r) ==
  /\ At(r, "purge")
  /\ \/ call[r].todo = {} /\ UNCHANGED past
     \/ CanFail /\ past' = Fault
  /\ call' = [call EXCEPT ![r].at = "lookup", ![r].todo = {}]
  /\ UNCHANGED <<kind, blob, manifest, record, messages, intake, workflow>>

RequestStep(r) ==
  \/ UploadBlob(r) \/ ReadManifest(r) \/ WriteManifest(r) \/ EnqueueStart(r)
  \/ LookupRecord(r) \/ RemoveRecord(r) \/ AddPending(r) \/ StoreComment(r)
  \/ ListFolder(r) \/ PurgeOne(r) \/ PurgeEnds(r)

-----------------------------------------------------------------------------
(* auto_submit and start_claim.  Nobody knows the claim's id while         *)
(* _create_claim_intake_shell stores its files and placeholder items.      *)
IntakeGoes(at) == intake' = [intake EXCEPT !.at = at]
IntakeAtIs(at) == kind = "auto" /\ intake.at = at
Intake(schema) == {[file |-> f, by |-> "intake", schema |-> schema] : f \in File}

(* The files are stored in their order, a later one over an earlier one of *)
(* the same name.                                                          *)
Stored == {b \in [Name -> File \cup {None}] :
             \A n \in Name : IF b[n] = None THEN \A f \in File : NameOf[f] # n
                             ELSE NameOf[b[n]] = n}

CreateShell ==
  /\ IntakeAtIs("new")
  /\ blob' \in Stored
  /\ \/ manifest' = Intake("default") /\ IntakeGoes("record") /\ UNCHANGED past
     \/ /\ CanFail /\ past' = Fault
        /\ manifest' \in {{}, None} /\ IntakeGoes("rejected")
  /\ UNCHANGED <<kind, record, messages, call, workflow>>

(* The record is the last thing before the answer; then the task starts.   *)
Accept ==
  /\ IntakeAtIs("record")
  /\ \/ record' = NewRecord("Pending") /\ IntakeGoes("classify") /\ UNCHANGED past
     \/ /\ CanFail /\ past' = Fault
        /\ record' \in {NewRecord("Pending"), None} /\ IntakeGoes("rejected")
  /\ UNCHANGED <<kind, blob, manifest, messages, call, workflow>>

(* The documents are classified side by side; one that fails gets a        *)
(* sentinel category.  Building the router may fail as a whole.            *)
Classify ==
  /\ IntakeAtIs("classify")
  /\ \/ IntakeGoes("read") /\ UNCHANGED past
     \/ CanFail /\ past' = Fault /\ IntakeGoes("sorry")
  /\ UNCHANGED <<kind, blob, manifest, record, messages, call, workflow>>

(* replace_claim_items; a manifest that is gone raises.                    *)
ReadForReplace ==
  /\ IntakeAtIs("read")
  /\ IntakeGoes(IF manifest = None THEN "sorry" ELSE "write")
  /\ UNCHANGED <<kind, blob, manifest, record, messages, call, workflow, past>>

(* Mutant: the placeholder items are written again.                        *)
PlaceholderItems == Intake("default")

FinalItems == Intake("classified")

ReplaceItems ==
  /\ IntakeAtIs("write")
  /\ \/ manifest' = FinalItems /\ IntakeGoes("labels") /\ UNCHANGED past
     \/ CanFail /\ past' = Fault /\ IntakeGoes("sorry") /\ UNCHANGED manifest
  /\ UNCHANGED <<kind, blob, record, messages, call, workflow>>

(* The classification sidecar is written with best effort: no guard and no *)
(* other step depends on it.                                               *)
WriteLabels ==
  /\ IntakeAtIs("labels") /\ IntakeGoes("enqueue")
  /\ UNCHANGED <<kind, blob, manifest, record, messages, call, workflow, past>>

(* Mutant: the task returns without the mark.                              *)
SendFailsUnmarked == IntakeGoes("done")

SendFails == IntakeGoes("mark")

(* A failed send marks the claim failed, though the message may be there.  *)
EnqueueClaim ==
  /\ IntakeAtIs("enqueue")
  /\ \/ /\ messages' = messages + 1
        /\ past' = [past EXCEPT !.sent = TRUE] /\ IntakeGoes("done")
     \/ /\ CanFail /\ past' = Fault /\ SendFails
        /\ messages' \in {messages, messages + 1}
  /\ UNCHANGED <<kind, blob, manifest, record, call, workflow>>

(* Any other exception: a sidecar of failures, then the mark.              *)
Sorry ==
  /\ IntakeAtIs("sorry") /\ IntakeGoes("mark")
  /\ UNCHANGED <<kind, blob, manifest, record, messages, call, workflow, past>>

(* _mark_claim_failed: get, then add or update; its errors are swallowed.  *)
MarkLookup ==
  /\ IntakeAtIs("mark")
  /\ intake' = [intake EXCEPT !.seen = record,
                              !.at = IF record = None THEN "markAdd" ELSE "markStore"]
  /\ UNCHANGED <<kind, blob, manifest, record, messages, call, workflow, past>>

MarkFailed ==
  /\ \/ IntakeAtIs("markAdd") /\ AddRecord(NewRecord("Failed"))
     \/ IntakeAtIs("markStore")
        /\ StoreRecord([status |-> "Failed", comment |-> TRUE])
  /\ intake' = [intake EXCEPT !.at = "done", !.seen = None]
  /\ UNCHANGED <<kind, blob, manifest, messages, call, workflow, past>>

(* The process dies, or the mark itself fails: nothing resumes the task.   *)
IntakeLost ==
  /\ intake.at \in {"classify", "read", "write", "labels", "enqueue", "sorry",
                    "mark", "markAdd", "markStore"}
  /\ CanFail /\ past' = Fault
  /\ intake' = [intake EXCEPT !.at = "lost", !.seen = None]
  /\ UNCHANGED <<kind, blob, manifest, record, messages, call, workflow>>

TaskStep ==
  \/ Classify \/ ReadForReplace \/ ReplaceItems \/ WriteLabels \/ EnqueueClaim
  \/ Sorry \/ MarkLookup \/ MarkFailed

-----------------------------------------------------------------------------
(* The workflow: a message is taken, the manifest read, the record looked  *)
(* up, deleted and added anew (Create_Claim_Process); a manifest that is   *)
(* gone fails the run, and so does an id that was taken meanwhile.  A      *)
(* failed run may leave its message for another try.                       *)
Ended(status) == IF record = None THEN None ELSE [record EXCEPT !.status = status]
Retried == messages' \in {messages, messages + 1}
WorkflowGoes(at) == workflow' = [workflow EXCEPT !.at = at]

WorkflowBegins ==
  /\ workflow.at \in {"idle", "over"} /\ messages > 0
  /\ workflow' = [at |-> IF manifest = None THEN "over" ELSE "lookup",
                  items |-> manifest]
  /\ IF manifest = None
       THEN messages' \in {messages - 1, messages} /\ record' = Ended("Failed")
       ELSE messages' = messages - 1 /\ UNCHANGED record
  /\ UNCHANGED <<kind, blob, manifest, call, intake, past>>

WorkflowLooks ==
  /\ workflow.at = "lookup"
  /\ WorkflowGoes(IF record = None THEN "add" ELSE "remove")
  /\ UNCHANGED <<kind, blob, manifest, record, messages, call, intake, past>>

WorkflowRemoves ==
  /\ workflow.at = "remove"
  /\ record' = None /\ WorkflowGoes("add") /\ Replaces
  /\ UNCHANGED <<kind, blob, manifest, messages, call, intake>>

WorkflowAdds ==
  /\ workflow.at = "add"
  /\ \/ /\ record = None /\ record' = NewRecord("Processing")
        /\ WorkflowGoes("running") /\ UNCHANGED messages
     \/ record # None /\ record' = Ended("Failed") /\ WorkflowGoes("over") /\ Retried
  /\ UNCHANGED <<kind, blob, manifest, call, intake, past>>

(* A call of the run fails, which marks the record if it is there, or the  *)
(* process dies.  The message comes back, or was the last attempt's.       *)
WorkflowFails ==
  /\ workflow.at \in {"lookup", "remove", "add", "running"} /\ CanFail
  /\ past' = [Fault EXCEPT !.halfway = @ \/ workflow.at = "add"]
  /\ record' \in {record, Ended("Failed")} /\ WorkflowGoes("over") /\ Retried
  /\ UNCHANGED <<kind, blob, manifest, call, intake>>

WorkflowEnds ==
  /\ workflow.at = "running"
  /\ WorkflowGoes("over")
  /\ \/ record' = Ended("Completed") /\ UNCHANGED messages
     \/ record' = Ended("Failed") /\ Retried
  /\ UNCHANGED <<kind, blob, manifest, call, intake, past>>

-----------------------------------------------------------------------------
Next ==
  \/ \E r \in Call : Request(r) \/ RequestLost(r) \/ RequestStep(r)
  \/ CreateShell \/ Accept \/ TaskStep \/ IntakeLost
  \/ WorkflowBegins \/ WorkflowLooks \/ WorkflowRemoves \/ WorkflowAdds
  \/ WorkflowFails \/ WorkflowEnds

(* The event loop runs the detached task as long as its process lives.     *)
Spec == Init /\ [][Next]_vars /\ WF_vars(TaskStep)

-----------------------------------------------------------------------------
Items == (SUBSET Item) \cup {None}
CallRecord ==
  [op : Operation, at : CallAt, file : File, items : Items, seen : Record \cup {None},
   todo : SUBSET (Name \cup {"manifest"})]

TypeOK ==
  /\ kind \in {"auto", "batch"}
  /\ blob \in [Name -> File \cup {None}]
  /\ manifest \in Items
  /\ record \in Record \cup {None}
  /\ messages \in Nat
  /\ call \in [Call -> CallRecord]
  /\ intake \in [at : IntakeAt, seen : Record \cup {None}]
  /\ workflow \in [at : {"idle", "lookup", "remove", "add", "running", "over"}, items : Items]
  /\ past \in [faults : 0..MaxFaults, ops : SUBSET Operation, sent : BOOLEAN,
               halfway : BOOLEAN, undone : BOOLEAN]

Deletions == {"deleteClaim", "deleteRecord"}

(* Until the claim's container is deleted, what the manifest lists is      *)
(* stored: the file a client uploaded is found under the item's name.      *)
(* (auto_submit "validates and stores the original files".)                *)
ItemsHaveFiles ==
  "deleteClaim" \notin past.ops /\ manifest # None =>
    \A i \in manifest : blob[NameOf[i.file]] = i.file

(* A claim that came through auto-submit reaches the workflow only after   *)
(* its documents were classified: the workflow never reads the placeholder *)
(* schemas, unless a client started the claim itself meanwhile.            *)
WorkflowReadsClassified ==
  kind = "auto" /\ workflow.items # None /\ "start" \notin past.ops =>
    workflow.items = Intake("classified")

(* A claim whose client was answered is found when its status is polled,   *)
(* until someone deletes it, except while a start or the workflow replaces *)
(* the record, and after a fault that cut the last replacement short: then *)
(* nothing in the code adds the record again, but a later start or attempt *)
(* of the workflow.                                                        *)
Answered == intake.at \notin {"new", "record", "rejected"}
Replacing == workflow.at = "add" \/ \E r \in Call : At(r, "add")

AcceptedIsFound ==
  Answered /\ past.ops \cap Deletions = {} /\ ~past.halfway /\ ~Replacing
    => StatusAnswer # 404

(* An accepted claim comes to stay what it is: its message is sent, or it  *)
(* is no longer pending (marked failed, taken by a workflow, or deleted),  *)
(* or the task died with its process.  A comment that was read before the  *)
(* mark or a deletion and stored after it makes the claim pending again;   *)
(* nothing but such a comment does.                                        *)
AcceptedSettles ==
  IntakeAtIs("classify") ~>
    [](past.sent \/ ~Pends(record) \/ intake.at = "lost" \/ past.undone)

(* The same without the exception, which such a comment refutes.           *)
PendingEnds ==
  IntakeAtIs("classify") ~> [](past.sent \/ ~Pends(record) \/ intake.at = "lost")
=============================================================================
