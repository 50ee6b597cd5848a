------------------------- MODULE ClaimIntakeProofs -------------------------
(***************************************************************************)
(* Proofs about ClaimIntake for any number of requests, files and faults:  *)
(* its types, that an accepted claim is found, that the workflow reads the *)
(* classified items, and that the manifest lists what is stored.           *)
(***************************************************************************)
EXTENDS ClaimIntake, TLAPS

USE IntakeAssumption

(* What the steps of a request are for: where a call is tells what it was  *)
(* asked, and only a batch claim takes uploads.                            *)
Purpose(c, ops) ==
  /\ c.at # "new" => c.op \in ops
  /\ c.at \in {"blob", "read", "write"} => c.op = "upload" /\ kind = "batch"
  /\ c.at \in {"enqueue", "add"} => c.op = "start"
  /\ c.at = "lookup" => c.op # "upload"
  /\ c.at = "remove" => c.op \in {"start"} \cup Deletions
  /\ c.at = "store" => c.op = "comment" /\ c.seen # None
  /\ c.at \in {"list", "purge"} => c.op = "deleteClaim"
  /\ c.at = "write" => c.items # None

IntakeInv ==
  /\ TypeOK
  /\ \A r \in Call : Purpose(call[r], past.ops)
  /\ kind = "batch" => intake.at = "new"
  /\ intake.at = "markStore" => intake.seen # None

LEMMA InitCall == NewCall \in CallRecord /\ NewCall.at = "new"
BY DEF NewCall, CallRecord, Operation, CallAt, Items

LEMMA IntakeInit == Init => IntakeInv
BY InitCall DEF Init, IntakeInv, TypeOK, Items, Purpose, IntakeAt

(* The call of r becomes c and every other call stays.                     *)
Becomes(r, c) ==
  /\ call'[r] = c
  /\ \A q \in Call \ {r} : call'[q] = call[q]
  /\ call' \in [Call -> CallRecord]

LEMMA BecomesFacts ==
  ASSUME TypeOK, NEW r \in Call, NEW c \in CallRecord, call' = [call EXCEPT ![r] = c]
  PROVE  Becomes(r, c)
BY DEF TypeOK, Becomes

LEMMA GotoFacts ==
  ASSUME TypeOK, NEW r \in Call, NEW at \in CallAt, Goto(r, at)
  PROVE  Becomes(r, [call[r] EXCEPT !.at = at])
<1>1. [call[r] EXCEPT !.at = at] \in CallRecord
  BY DEF TypeOK, CallRecord
<1> QED BY <1>1, BecomesFacts DEF Goto, TypeOK

(* A new request: its call, and what it was asked.                         *)
LEMMA RequestMoves ==
  ASSUME IntakeInv, NEW r \in Call, Request(r)
  PROVE  \E c \in CallRecord, op \in Operation :
           /\ Becomes(r, c)
           /\ past' = [past EXCEPT !.ops = @ \cup {op}]
           /\ Purpose(c, past.ops \cup {op})
           /\ c.at \in {"blob", "enqueue", "list", "lookup"}
<1>1. PICK op \in Operation, f \in File :
        /\ op = "upload" => kind = "batch"
        /\ call' = [call EXCEPT ![r] =
                      [@ EXCEPT !.op = op, !.file = f, !.at = FirstStep(op)]]
        /\ past' = [past EXCEPT !.ops = @ \cup {op}]
  BY DEF Request
<1>2. /\ FirstStep(op) \in {"blob", "enqueue", "list", "lookup"}
      /\ FirstStep(op) = "blob" <=> op = "upload"
      /\ FirstStep(op) = "enqueue" <=> op = "start"
      /\ FirstStep(op) = "list" <=> op = "deleteClaim"
  BY DEF FirstStep
<1> DEFINE c == [call[r] EXCEPT !.op = op, !.file = f, !.at = FirstStep(op)]
<1>3. call[r] \in CallRecord /\ FirstStep(op) \in CallAt
  BY <1>2 DEF IntakeInv, TypeOK, CallAt
<1>4. c \in CallRecord /\ c.at = FirstStep(op) /\ c.op = op
  BY <1>3 DEF CallRecord
<1>5. call' = [call EXCEPT ![r] = c]
  BY <1>1
<1> HIDE DEF c
<1>6. Becomes(r, c)
  BY <1>4, <1>5, BecomesFacts DEF IntakeInv
<1>7. Purpose(c, past.ops \cup {op})
  BY <1>1, <1>2, <1>4 DEF Purpose
<1> QED BY <1>1, <1>2, <1>4, <1>6, <1>7

(* Any other step of a request keeps what it was asked.                    *)
LEMMA StepMoves ==
  ASSUME IntakeInv, NEW r \in Call, RequestStep(r) \/ RequestLost(r)
  PROVE  \E c \in CallRecord :
           /\ Becomes(r, c)
           /\ Purpose(c, past.ops)
           /\ c.op = call[r].op /\ c.file = call[r].file
           /\ c.at = "write" => c.items = IF At(r, "read") THEN manifest ELSE call[r].items
<1> DEFINE Moved(c) == /\ c \in CallRecord /\ Purpose(c, past.ops)
                       /\ c.op = call[r].op /\ c.file = call[r].file
                       /\ c.at = "write" => c.items = IF At(r, "read") THEN manifest
                                                      ELSE call[r].items
<1>0. call[r] \in CallRecord /\ Purpose(call[r], past.ops)
  BY DEF IntakeInv, TypeOK
<1> SUFFICES \E c : Moved(c) /\ call' = [call EXCEPT ![r] = c]
  BY BecomesFacts DEF IntakeInv
<1>g. ASSUME NEW at \in CallAt, Goto(r, at), at # "write",
             Purpose([call[r] EXCEPT !.at = at], past.ops)
      PROVE  \E c : Moved(c) /\ call' = [call EXCEPT ![r] = c]
  <2>1. Moved([call[r] EXCEPT !.at = at])
    BY <1>0, <1>g DEF CallRecord
  <2> QED BY <1>g, <2>1 DEF Goto
<1>1. CASE RequestLost(r)
  BY <1>0, <1>1, <1>g DEF RequestLost, CallAt, CallRecord, Purpose
<1>2. CASE UploadBlob(r)
  <2>1. Purpose([call[r] EXCEPT !.at = "read"], past.ops)
    BY <1>0, <1>2 DEF UploadBlob, At, CallRecord, Purpose
  <2> QED BY <2>1, <1>2, <1>g DEF UploadBlob, CallAt
<1>3. CASE ReadManifest(r)
  <2> DEFINE c == [call[r] EXCEPT !.items = manifest,
                                  !.at = IF manifest = None THEN "done" ELSE "write"]
  <2>1. c \in CallRecord
    BY <1>0 DEF IntakeInv, TypeOK, CallRecord, CallAt
  <2>2. /\ c.op = call[r].op /\ c.file = call[r].file /\ c.items = manifest
        /\ c.at = IF manifest = None THEN "done" ELSE "write"
    BY <1>0 DEF CallRecord
  <2>3. call' = [call EXCEPT ![r] = c] /\ At(r, "read")
    BY <1>3 DEF ReadManifest
  <2> HIDE DEF c
  <2>4. Purpose(c, past.ops)
    BY <1>0, <2>2, <2>3 DEF At, Purpose
  <2> QED BY <2>1, <2>2, <2>3, <2>4
<1>4. CASE WriteManifest(r)
  <2> DEFINE c == [call[r] EXCEPT !.at = "done", !.items = None]
  <2>1. c \in CallRecord /\ c.op = call[r].op /\ c.file = call[r].file /\ c.at = "done"
    BY <1>0 DEF CallRecord, CallAt, Items
  <2>2. call' = [call EXCEPT ![r] = c] /\ At(r, "write")
    BY <1>4 DEF WriteManifest
  <2> HIDE DEF c
  <2>3. Purpose(c, past.ops)
    BY <1>0, <2>1, <2>2 DEF At, Purpose
  <2> QED BY <2>1, <2>2, <2>3
<1>5. CASE EnqueueStart(r)
  <2>1. Purpose([call[r] EXCEPT !.at = "lookup"], past.ops)
    BY <1>0, <1>5 DEF EnqueueStart, At, CallRecord, Purpose
  <2> QED BY <2>1, <1>5, <1>g DEF EnqueueStart, CallAt
<1>6. CASE LookupRecord(r)
  <2> DEFINE seen == IF call[r].op = "comment" THEN record ELSE None
             at == AfterLookup(call[r].op)
             c == [call[r] EXCEPT !.seen = seen, !.at = at]
  <2>1. /\ at \in {"add", "done", "store", "remove"}
        /\ at = "add" => call[r].op = "start"
        /\ at = "store" => call[r].op = "comment" /\ seen # None
        /\ at = "remove" => call[r].op # "comment"
        /\ seen \in Record \cup {None}
    BY DEF IntakeInv, TypeOK, AfterLookup
  <2>2. call' = [call EXCEPT ![r] = c] /\ At(r, "lookup")
    BY <1>6 DEF LookupRecord
  <2> HIDE DEF seen, at
  <2>3. /\ c \in CallRecord /\ c.op = call[r].op /\ c.file = call[r].file
        /\ c.at = at /\ c.seen = seen
    BY <1>0, <2>1 DEF CallRecord, CallAt
  <2> HIDE DEF c
  <2>4. Purpose(c, past.ops)
    BY <1>0, <2>1, <2>2, <2>3 DEF At, Purpose, CallRecord, Operation, Deletions
  <2> QED BY <2>1, <2>2, <2>3, <2>4
<1>7. CASE RemoveRecord(r)
  <2>1. PICK at \in {"add", "done"} :
          At(r, "remove") /\ Goto(r, at) /\ (at = "add" => call[r].op = "start")
    BY <1>7 DEF RemoveRecord
  <2>2. Purpose([call[r] EXCEPT !.at = at], past.ops)
    BY <1>0, <2>1 DEF At, CallRecord, Purpose
  <2> QED BY <2>1, <2>2, <1>g DEF CallAt
<1>8. CASE AddPending(r)
  <2>1. Purpose([call[r] EXCEPT !.at = "done"], past.ops)
    BY <1>0, <1>8 DEF AddPending, At, CallRecord, Purpose
  <2> QED BY <2>1, <1>8, <1>g DEF AddPending, CallAt
<1>9. CASE StoreComment(r)
  <2> DEFINE c == [call[r] EXCEPT !.at = "done", !.seen = None]
  <2>1. c \in CallRecord /\ c.op = call[r].op /\ c.file = call[r].file /\ c.at = "done"
    BY <1>0 DEF CallRecord, CallAt
  <2>2. call' = [call EXCEPT ![r] = c] /\ At(r, "store")
    BY <1>9 DEF StoreComment
  <2> HIDE DEF c
  <2>3. Purpose(c, past.ops)
    BY <1>0, <2>1, <2>2 DEF At, Purpose
  <2> QED BY <2>1, <2>2, <2>3
<1>10. CASE ListFolder(r) \/ PurgeOne(r) \/ PurgeEnds(r)
  <2>1. PICK at \in {"purge", "lookup"}, todo \in SUBSET (Name \cup {"manifest"}) :
          call' = [call EXCEPT ![r] = [call[r] EXCEPT !.at = at, !.todo = todo]]
    <3>1. CASE ListFolder(r)
      BY <3>1 DEF ListFolder
    <3>2. CASE PurgeOne(r)
      <4>1. PICK n \in call[r].todo : call' = [call EXCEPT ![r].todo = @ \ {n}]
        BY <3>2 DEF PurgeOne
      <4>2. call[r].at = "purge" /\ call[r].todo \ {n} \in SUBSET (Name \cup {"manifest"})
        BY <1>0, <3>2 DEF PurgeOne, At, CallRecord
      <4>3. [call[r] EXCEPT !.todo = @ \ {n}]
              = [call[r] EXCEPT !.at = "purge", !.todo = @ \ {n}]
        BY <1>0, <4>2 DEF CallRecord
      <4> QED BY <4>1, <4>2, <4>3
    <3>3. CASE PurgeEnds(r)
      BY <3>3 DEF PurgeEnds
    <3> QED BY <1>10, <3>1, <3>2, <3>3
  <2> DEFINE c == [call[r] EXCEPT !.at = at, !.todo = todo]
  <2>2. c \in CallRecord /\ c.op = call[r].op /\ c.file = call[r].file /\ c.at = at
    BY <1>0 DEF CallRecord, CallAt
  <2>3. call[r].at \in {"list", "purge"}
    BY <1>10 DEF ListFolder, PurgeOne, PurgeEnds, At
  <2> HIDE DEF c
  <2>4. Purpose(c, past.ops)
    BY <1>0, <2>2, <2>3 DEF Purpose
  <2> QED BY <2>1, <2>2, <2>4 DEF c
<1> QED BY <1>1, <1>2, <1>3, <1>4, <1>5, <1>6, <1>7, <1>8, <1>9, <1>10 DEF RequestStep

---------------------------------------------------------------------------

LEMMA RecordFacts ==
  /\ \A status \in {"Pending", "Processing", "Completed", "Failed"} :
       NewRecord(status) \in Record /\ [status |-> status, comment |-> TRUE] \in Record
  /\ \A rec \in Record : [rec EXCEPT !.comment = TRUE] \in Record
  /\ \A rec \in Record, status \in {"Completed", "Failed"} :
       [rec EXCEPT !.status = status] \in Record
BY DEF NewRecord, Record

PastType == [faults : 0..MaxFaults, ops : SUBSET Operation, sent : BOOLEAN,
             halfway : BOOLEAN, undone : BOOLEAN]

(* What a step does to the history keeps its type.                         *)
LEMMA EditedPast ==
  ASSUME NEW p \in PastType, NEW b \in BOOLEAN
  PROVE  /\ [p EXCEPT !.halfway = b] \in PastType
         /\ [p EXCEPT !.halfway = b].ops = p.ops
         /\ [p EXCEPT !.halfway = b].halfway = b
         /\ [p EXCEPT !.undone = b] \in PastType
         /\ [p EXCEPT !.undone = b].ops = p.ops
BY DEF PastType

LEMMA PastFacts ==
  ASSUME TypeOK
  PROVE  /\ past \in PastType
         /\ CanFail => /\ Fault \in PastType /\ Fault.ops = past.ops
                        /\ Fault.halfway = past.halfway
BY DEF TypeOK, PastType, CanFail, Fault

LEMMA ItemFacts ==
  /\ \A f \in File, r \in Call : [file |-> f, by |-> r, schema |-> "default"] \in Item
  /\ Intake("default") \subseteq Item /\ Intake("classified") \subseteq Item
BY DEF Item, Intake

(* A step of a request keeps the types.                                    *)
LEMMA CallStepInv ==
  ASSUME IntakeInv, NEW r \in Call, RequestStep(r) \/ RequestLost(r)
  PROVE  IntakeInv'
<1> USE DEF IntakeInv
<1>1. PICK c \in CallRecord : Becomes(r, c) /\ Purpose(c, past.ops)
  BY StepMoves
<1>2. kind' = kind /\ workflow' = workflow /\ intake' = intake
  BY DEF RequestStep, RequestLost, UploadBlob, ReadManifest, WriteManifest, EnqueueStart,
     LookupRecord, RemoveRecord, AddPending, StoreComment, ListFolder, PurgeOne, PurgeEnds
<1>3. past' \in PastType /\ past'.ops = past.ops
  <2>1. CASE RequestLost(r)
    <3> DEFINE h == Fault.halfway \/ At(r, "add")
    <3>1. CanFail /\ past' = [Fault EXCEPT !.halfway = h] /\ h \in BOOLEAN
      BY <2>1 DEF RequestLost
    <3> HIDE DEF h
    <3> QED BY <3>1, PastFacts, EditedPast
  <2>2. CASE EnqueueStart(r)
    BY <2>2 DEF EnqueueStart, TypeOK, PastType
  <2>3. CASE PurgeEnds(r) \/ RemoveRecord(r)
    BY <2>3, PastFacts, EditedPast DEF PurgeEnds, RemoveRecord, Replaces
  <2>4. CASE StoreComment(r)
    <3> DEFINE u == past.undone \/ (Pends(record') /\ ~Pends(record))
    <3>1. past' = [past EXCEPT !.undone = u] /\ u \in BOOLEAN
      BY <2>4 DEF StoreComment
    <3> HIDE DEF u
    <3> QED BY <3>1, PastFacts, EditedPast
  <2> QED BY <2>1, <2>2, <2>3, <2>4
          DEF RequestStep, UploadBlob, ReadManifest, WriteManifest, LookupRecord,
              AddPending, ListFolder, PurgeOne, TypeOK, PastType
<1>4. call[r] \in CallRecord /\ Purpose(call[r], past.ops)
  BY DEF TypeOK
<1>5. /\ blob' \in [Name -> File \cup {None}] /\ manifest' \in Items
      /\ record' \in Record \cup {None} /\ messages' \in Nat
  <2> USE DEF TypeOK
  <2>1. CASE UploadBlob(r)
    BY <2>1, <1>4 DEF UploadBlob, CallRecord
  <2>2. CASE WriteManifest(r)
    <3>1. call[r].items \in SUBSET Item /\ call[r].file \in File
      BY <2>2, <1>4 DEF WriteManifest, At, CallRecord, Items, Purpose
    <3> QED BY <2>2, <3>1, ItemFacts DEF WriteManifest, Items
  <2>3. CASE EnqueueStart(r)
    BY <2>3 DEF EnqueueStart
  <2>4. CASE RemoveRecord(r)
    BY <2>4 DEF RemoveRecord
  <2>5. CASE AddPending(r)
    BY <2>5, RecordFacts DEF AddPending, AddsPending, AddRecord
  <2>6. CASE StoreComment(r)
    <3>1. call[r].seen \in Record
      BY <2>6, <1>4 DEF StoreComment, At, CallRecord, Purpose
    <3> QED BY <2>6, <3>1, RecordFacts DEF StoreComment, StoreRecord
  <2>7. CASE PurgeOne(r)
    BY <2>7 DEF PurgeOne, Items
  <2> QED BY <2>1, <2>2, <2>3, <2>4, <2>5, <2>6, <2>7
          DEF RequestStep, RequestLost, ReadManifest, LookupRecord, ListFolder, PurgeEnds
<1>6. TypeOK'
  BY <1>1, <1>2, <1>3, <1>5 DEF TypeOK, Becomes, PastType
<1>7. \A q \in Call : Purpose(call'[q], past.ops)
  BY <1>1 DEF Becomes
<1> QED BY <1>2, <1>3, <1>6, <1>7 DEF Purpose

LEMMA IntakeStep == IntakeInv /\ [Next]_vars => IntakeInv'
<1> SUFFICES ASSUME IntakeInv, [Next]_vars PROVE IntakeInv'
  OBVIOUS
<1> USE DEF IntakeInv
<1>0. CASE UNCHANGED vars
  BY <1>0 DEF vars, TypeOK, Purpose
<1>1. ASSUME NEW r \in Call, Request(r) PROVE IntakeInv'
  <2>1. PICK c \in CallRecord, op \in Operation :
          /\ Becomes(r, c)
          /\ past' = [past EXCEPT !.ops = @ \cup {op}]
          /\ Purpose(c, past.ops \cup {op})
    BY <1>1, RequestMoves
  <2>2. UNCHANGED <<kind, blob, manifest, record, messages, intake, workflow>>
    BY <1>1 DEF Request
  <2>3. TypeOK'
    BY <2>1, <2>2 DEF TypeOK, Becomes
  <2>4. past'.ops = past.ops \cup {op}
    BY <2>1 DEF TypeOK
  <2>5. \A q \in Call : Purpose(call'[q], past.ops \cup {op})
    BY <2>1 DEF Becomes, Purpose
  <2> QED BY <2>2, <2>3, <2>4, <2>5 DEF Purpose
<1>2. ASSUME NEW r \in Call, RequestStep(r) \/ RequestLost(r) PROVE IntakeInv'
  BY <1>2, CallStepInv
(* The steps of the task and of the workflow leave the requests alone.     *)
<1>r. ASSUME TypeOK', call' = call, kind' = kind, past'.ops = past.ops,
             kind = "batch" => intake'.at = "new",
             intake'.at = "markStore" => intake'.seen # None
      PROVE  IntakeInv'
  BY <1>r DEF Purpose
<1>f. CanFail => /\ Fault \in [faults : 0..MaxFaults, ops : SUBSET Operation,
                     sent : BOOLEAN, halfway : BOOLEAN, undone : BOOLEAN]
                 /\ Fault.ops = past.ops
  BY PastFacts DEF PastType
<1>i. ASSUME NEW at \in IntakeAt, IntakeGoes(at)
      PROVE  intake' \in [at : IntakeAt, seen : Record \cup {None}] /\ intake'.at = at
  BY <1>i DEF IntakeGoes, TypeOK
<1>3. CASE CreateShell
  BY <1>3, <1>r, <1>f, <1>i, ItemFacts
  DEF CreateShell, TypeOK, IntakeAtIs, IntakeAt, Stored, Items
<1>4. CASE Accept
  BY <1>4, <1>r, <1>f, <1>i, RecordFacts DEF Accept, TypeOK, IntakeAtIs, IntakeAt
<1>5. CASE Classify
  BY <1>5, <1>r, <1>f, <1>i DEF Classify, TypeOK, IntakeAtIs, IntakeAt
<1>6. CASE ReadForReplace \/ WriteLabels \/ Sorry
  BY <1>6, <1>r, <1>i DEF ReadForReplace, WriteLabels, Sorry, TypeOK, IntakeAtIs, IntakeAt
<1>7. CASE ReplaceItems
  BY <1>7, <1>r, <1>f, <1>i, ItemFacts
  DEF ReplaceItems, FinalItems, TypeOK, IntakeAtIs, IntakeAt, Items
<1>8. CASE EnqueueClaim
  <2>1. /\ past' \in PastType /\ past'.ops = past.ops
        /\ IntakeGoes("done") \/ IntakeGoes("mark")
    <3>1. CASE past' = [past EXCEPT !.sent = TRUE] /\ IntakeGoes("done")
      BY <3>1 DEF TypeOK, PastType
    <3>2. CASE CanFail /\ past' = Fault /\ SendFails
      BY <3>2, PastFacts DEF SendFails
    <3> QED BY <1>8, <3>1, <3>2 DEF EnqueueClaim
  <2>2. /\ messages' \in Nat /\ kind # "batch"
        /\ UNCHANGED <<kind, blob, manifest, record, call, workflow>>
    BY <1>8 DEF EnqueueClaim, TypeOK, IntakeAtIs
  <2>3. /\ intake' \in [at : IntakeAt, seen : Record \cup {None}]
        /\ intake'.at \in {"done", "mark"}
    BY <2>1, <1>i DEF IntakeAt
  <2>4. TypeOK'
    BY <2>1, <2>2, <2>3 DEF TypeOK, PastType
  <2> QED BY <2>1, <2>2, <2>3, <2>4, <1>r
<1>9. CASE MarkLookup
  BY <1>9, <1>r DEF MarkLookup, TypeOK, IntakeAtIs, IntakeAt
<1>10. CASE MarkFailed
  <2>1. record' \in Record \cup {None}
    BY <1>10, RecordFacts DEF MarkFailed, AddRecord, StoreRecord, TypeOK
  <2> QED BY <1>10, <2>1, <1>r DEF MarkFailed, TypeOK, IntakeAtIs, IntakeAt
<1>11. CASE IntakeLost
  <2>1. /\ intake' \in [at : IntakeAt, seen : Record \cup {None}] /\ intake'.at = "lost"
        /\ kind # "batch"
    BY <1>11 DEF IntakeLost, TypeOK, IntakeAt
  <2>2. TypeOK'
    BY <1>11, <2>1, <1>f DEF IntakeLost, TypeOK
  <2>3. call' = call /\ kind' = kind /\ CanFail /\ past' = Fault
    BY <1>11 DEF IntakeLost
  <2>4. past'.ops = past.ops
    BY <2>3, <1>f
  <2>5. (kind = "batch" => intake'.at = "new")
        /\ (intake'.at = "markStore" => intake'.seen # None)
    BY <2>1
  <2> QED BY <2>2, <2>3, <2>4, <2>5, <1>r
<1>12. CASE WorkflowBegins
  <2>1. Ended("Failed") \in Record \cup {None}
    BY RecordFacts DEF Ended, TypeOK
  <2> QED BY <1>12, <2>1, <1>r DEF WorkflowBegins, TypeOK, Items
<1>e. /\ Ended("Failed") \in Record \cup {None} /\ Ended("Completed") \in Record \cup {None}
      /\ Retried => messages' \in Nat
  BY RecordFacts DEF Ended, Retried, TypeOK
<1>w. ASSUME NEW at \in {"add", "remove", "running", "over"}, WorkflowGoes(at)
      PROVE  workflow' \in [at : {"idle", "lookup", "remove", "add", "running", "over"},
                            items : Items]
  BY <1>w DEF WorkflowGoes, TypeOK
<1>13. CASE WorkflowLooks
  BY <1>13, <1>r, <1>w DEF WorkflowLooks, TypeOK
<1>14. CASE WorkflowRemoves
  <2>1. past' \in PastType /\ past'.ops = past.ops
    BY <1>14, PastFacts, EditedPast DEF WorkflowRemoves, Replaces
  <2> QED BY <1>14, <2>1, <1>r, <1>w DEF WorkflowRemoves, TypeOK, PastType
<1>15. CASE WorkflowAdds
  BY <1>15, <1>r, <1>w, <1>e, RecordFacts DEF WorkflowAdds, TypeOK
<1>16. CASE WorkflowFails
  <2> DEFINE h == Fault.halfway \/ workflow.at = "add"
  <2>1. CanFail /\ past' = [Fault EXCEPT !.halfway = h] /\ h \in BOOLEAN
    BY <1>16, PastFacts DEF WorkflowFails, TypeOK
  <2> HIDE DEF h
  <2>2. past' \in PastType /\ past'.ops = past.ops
    BY <2>1, PastFacts, EditedPast
  <2> QED BY <1>16, <2>2, <1>r, <1>w, <1>e DEF WorkflowFails, TypeOK, PastType
<1>17. CASE WorkflowEnds
  BY <1>17, <1>r, <1>w, <1>e DEF WorkflowEnds, TypeOK
<1> QED BY <1>0, <1>1, <1>2, <1>3, <1>4, <1>5, <1>6, <1>7, <1>8, <1>9, <1>10, <1>11, <1>12,
           <1>13, <1>14, <1>15, <1>16, <1>17 DEF Next, TaskStep

(* Every variable keeps the shape the code gives it.                       *)
THEOREM TypeCorrect == Spec => []TypeOK
<1>1. IntakeInv => TypeOK
  BY DEF IntakeInv
<1> QED BY <1>1, IntakeInit, IntakeStep, PTL DEF Spec

---------------------------------------------------------------------------
(* An accepted claim is found.                                             *)

(* What was asked is never forgotten, and that a replacement was cut short *)
(* not before the next one, which is then between its two halves.          *)
LEMMA PastGrows ==
  ASSUME IntakeInv, [Next]_vars
  PROVE  past.ops \subseteq past'.ops /\ (past.halfway => past'.halfway \/ Replacing')
<1> DEFINE Grows == past.ops \subseteq past'.ops /\ (past.halfway => past'.halfway)
<1> SUFFICES Grows \/ (past.ops \subseteq past'.ops /\ Replacing')
  OBVIOUS
<1> USE DEF IntakeInv
<1>0. past \in PastType
  BY DEF TypeOK, PastType
<1>f. ASSUME CanFail, NEW b \in BOOLEAN,
             past' = Fault \/ past' = [Fault EXCEPT !.halfway = @ \/ b]
      PROVE  Grows
  BY <1>0, <1>f DEF Fault, PastType
<1>1. CASE UNCHANGED vars
  BY <1>1 DEF vars
<1>2. ASSUME NEW r \in Call, Request(r) \/ RequestLost(r) \/ RequestStep(r)
      PROVE  Grows \/ (past.ops \subseteq past'.ops /\ Replacing')
  <2>1. CASE Request(r)
    BY <1>0, <2>1 DEF Request, PastType
  <2>2. CASE RequestLost(r)
    BY <1>f, <2>2 DEF RequestLost, At
  <2>3. CASE EnqueueStart(r) \/ PurgeEnds(r) \/ StoreComment(r)
    BY <1>0, <1>f, <2>3 DEF EnqueueStart, PurgeEnds, StoreComment, PastType
  <2>4. CASE RemoveRecord(r) /\ Goto(r, "add") /\ Replaces
    <3>1. Becomes(r, [call[r] EXCEPT !.at = "add"])
      BY <2>4, GotoFacts DEF CallAt
    <3>2. call'[r].at = "add"
      BY <3>1 DEF Becomes, TypeOK, CallRecord
    <3> QED BY <1>0, <2>4, <3>2 DEF Replaces, Replacing, At, PastType
  <2> QED BY <1>2, <2>1, <2>2, <2>3, <2>4
          DEF RequestStep, UploadBlob, ReadManifest, WriteManifest, LookupRecord,
              RemoveRecord, AddPending, ListFolder, PurgeOne
<1>3. CASE CreateShell \/ Accept \/ TaskStep \/ IntakeLost
  <2>1. past' = past \/ (CanFail /\ past' = Fault) \/ past' = [past EXCEPT !.sent = TRUE]
    BY <1>3 DEF CreateShell, Accept, TaskStep, Classify, ReadForReplace, ReplaceItems,
       WriteLabels, EnqueueClaim, Sorry, MarkLookup, MarkFailed, IntakeLost
  <2> QED BY <1>0, <1>f, <2>1 DEF PastType
<1>4. CASE WorkflowBegins \/ WorkflowLooks \/ WorkflowAdds \/ WorkflowEnds
  BY <1>4 DEF WorkflowBegins, WorkflowLooks, WorkflowAdds, WorkflowEnds
<1>5. CASE WorkflowRemoves
  <2>1. workflow'.at = "add"
    BY <1>5 DEF WorkflowRemoves, WorkflowGoes, TypeOK
  <2> QED BY <1>0, <1>5, <2>1 DEF WorkflowRemoves, Replaces, Replacing, PastType
<1>6. CASE WorkflowFails
  BY <1>6, <1>f DEF WorkflowFails
<1> QED BY <1>1, <1>2, <1>3, <1>4, <1>5, <1>6 DEF Next

FoundInv ==
  Answered /\ past.ops \cap Deletions = {} /\ ~past.halfway => record # None \/ Replacing

LEMMA FoundInit == Init => FoundInv
BY DEF Init, FoundInv, Answered

LEMMA FoundCallStep ==
  ASSUME IntakeInv, FoundInv, NEW r \in Call, [Next]_vars,
         Request(r) \/ RequestLost(r) \/ RequestStep(r)
  PROVE  FoundInv'
<1> USE DEF FoundInv, Answered, Replacing, At
<1>1. past.ops \subseteq past'.ops /\ (past.halfway => past'.halfway \/ Replacing')
  BY PastGrows
<1>2. intake' = intake /\ workflow' = workflow
  BY DEF Request, RequestLost, RequestStep, UploadBlob, ReadManifest, WriteManifest,
     EnqueueStart, LookupRecord, RemoveRecord, AddPending, StoreComment, ListFolder,
     PurgeOne, PurgeEnds
<1>3. \A q \in Call \ {r} : call'[q] = call[q]
  BY StepMoves, RequestMoves DEF Becomes
<1>4. CASE record' # None
  BY <1>4
<1>5. CASE record' = record /\ call[r].at # "add"
  BY <1>1, <1>2, <1>3, <1>5
<1>6. CASE RequestLost(r) /\ call[r].at = "add"
  <2>1. past'.halfway
    <3>1. past' = [Fault EXCEPT !.halfway = @ \/ At(r, "add")] /\ At(r, "add")
      BY <1>6 DEF RequestLost
    <3>2. CanFail /\ past' = [Fault EXCEPT !.halfway = TRUE]
      BY <1>6, <3>1 DEF RequestLost, At
    <3> QED BY <3>2, PastFacts, EditedPast DEF IntakeInv
  <2> QED BY <2>1
<1>7. CASE RemoveRecord(r)
  <2>1. call[r].op \in past.ops /\ call[r].op \in {"start"} \cup Deletions
    BY <1>7 DEF RemoveRecord, IntakeInv, Purpose
  <2>2. CASE call[r].op = "start"
    <3>1. Becomes(r, [call[r] EXCEPT !.at = "add"])
      BY <1>7, <2>2, GotoFacts DEF RemoveRecord, CallAt, IntakeInv
    <3>2. call'[r].at = "add"
      BY <3>1 DEF Becomes, IntakeInv, TypeOK, CallRecord
    <3> QED BY <3>2
  <2>3. CASE call[r].op \in Deletions
    BY <2>1, <2>3, <1>1
  <2> QED BY <2>1, <2>2, <2>3
<1>8. CASE AddPending(r) \/ StoreComment(r)
  <2>1. CASE AddPending(r)
    <3>1. record' # None
      BY <2>1, RecordFacts, IntakeAssumption DEF AddPending, AddsPending, AddRecord
    <3> QED BY <3>1, <1>4
  <2>2. CASE StoreComment(r)
    <3>1. call[r].seen \in Record
      BY <2>2 DEF StoreComment, IntakeInv, TypeOK, CallRecord, Purpose
    <3>2. [call[r].seen EXCEPT !.comment = TRUE] # None
      BY <3>1, RecordFacts, IntakeAssumption
    <3> QED BY <2>2, <3>2, <1>4, <1>5 DEF StoreComment, StoreRecord
  <2> QED BY <1>8, <2>1, <2>2
<1> QED BY <1>5, <1>6, <1>7, <1>8
        DEF Request, RequestLost, RequestStep, UploadBlob, ReadManifest, WriteManifest,
            EnqueueStart, LookupRecord, ListFolder, PurgeOne, PurgeEnds

LEMMA EndedFacts ==
  ASSUME TypeOK, NEW status \in {"Completed", "Failed"}
  PROVE  Ended(status) = record \/ Ended(status) # None
<1>1. CASE record = None
  BY <1>1 DEF Ended
<1>2. CASE record # None
  <2>1. record \in Record
    BY <1>2 DEF TypeOK
  <2>2. [record EXCEPT !.status = status] \in Record
    BY <2>1, RecordFacts
  <2> QED BY <1>2, <2>2, IntakeAssumption DEF Ended
<1> QED BY <1>1, <1>2

LEMMA FoundStep == IntakeInv /\ FoundInv /\ [Next]_vars => FoundInv'
<1> SUFFICES ASSUME IntakeInv, FoundInv, [Next]_vars PROVE FoundInv'
  OBVIOUS
<1> USE DEF FoundInv, Answered, Replacing, At
<1>0. past.ops \subseteq past'.ops /\ (past.halfway => past'.halfway \/ Replacing')
  BY PastGrows
<1>1. CASE UNCHANGED vars
  BY <1>1 DEF vars
<1>2. ASSUME NEW r \in Call, Request(r) \/ RequestLost(r) \/ RequestStep(r) PROVE FoundInv'
  BY <1>2, FoundCallStep
(* A step that keeps the record, and does not answer the client.           *)
<1>k. ASSUME call' = call, record' = record \/ record' # None,
             workflow.at = "add" => record' # None \/ workflow'.at = "add",
             Answered \/ ~Answered'
      PROVE  FoundInv'
  BY <1>0, <1>k
<1>3. CASE CreateShell \/ Accept
  <2>1. CASE CreateShell
    BY <2>1, <1>k DEF CreateShell, IntakeAtIs, IntakeGoes, IntakeInv, TypeOK
  <2>2. CASE Accept /\ record' = NewRecord("Pending")
    BY <2>2, RecordFacts, IntakeAssumption
  <2>3. CASE Accept /\ IntakeGoes("rejected")
    BY <2>3, <1>k DEF Accept, IntakeGoes, IntakeInv, TypeOK
  <2> QED BY <1>3, <2>1, <2>2, <2>3 DEF Accept
<1>4. CASE Classify \/ ReadForReplace \/ ReplaceItems \/ WriteLabels \/ EnqueueClaim \/ Sorry
           \/ MarkLookup \/ IntakeLost
  <2>1. call' = call /\ record' = record /\ workflow' = workflow
    BY <1>4 DEF Classify, ReadForReplace, ReplaceItems, WriteLabels, EnqueueClaim, Sorry,
       MarkLookup, IntakeLost
  <2>2. intake.at \notin {"new", "record", "rejected"}
    BY <1>4 DEF Classify, ReadForReplace, ReplaceItems, WriteLabels, EnqueueClaim, Sorry,
       MarkLookup, IntakeLost, IntakeAtIs
  <2> QED BY <2>1, <2>2, <1>k
<1>5. CASE MarkFailed
  <2>1. record' # None \/ record' = record
    BY <1>5, RecordFacts, IntakeAssumption DEF MarkFailed, AddRecord, StoreRecord
  <2>2. call' = call /\ workflow' = workflow /\ intake.at \in {"markAdd", "markStore"}
    BY <1>5 DEF MarkFailed, IntakeAtIs
  <2> QED BY <2>1, <2>2, <1>k
<1>6. CASE WorkflowBegins
  <2>1. record' = record \/ record' # None
    BY <1>6, EndedFacts DEF WorkflowBegins, IntakeInv
  <2> QED BY <1>6, <2>1, <1>k DEF WorkflowBegins
<1>w. ASSUME NEW at, WorkflowGoes(at)
      PROVE  workflow'.at = at
  BY <1>w DEF WorkflowGoes, IntakeInv, TypeOK
<1>7. CASE WorkflowLooks \/ WorkflowRemoves
  BY <1>7, <1>k, <1>w DEF WorkflowLooks, WorkflowRemoves
<1>8. CASE WorkflowAdds \/ WorkflowEnds
  <2>1. record' = record \/ record' # None
    BY <1>8, EndedFacts, RecordFacts, IntakeAssumption
    DEF WorkflowAdds, WorkflowEnds, IntakeInv
  <2>2. WorkflowAdds => record' # None
    BY EndedFacts, RecordFacts, IntakeAssumption DEF WorkflowAdds, IntakeInv
  <2>3. WorkflowEnds => workflow.at = "running"
    BY DEF WorkflowEnds
  <2> QED BY <1>8, <2>1, <2>2, <2>3, <1>k DEF WorkflowAdds, WorkflowEnds
(* A run that fails between the two halves is a replacement cut short.     *)
<1>9. CASE WorkflowFails
  <2>1. record' = record \/ record' # None
    BY <1>9, EndedFacts DEF WorkflowFails, IntakeInv
  <2>2. CASE workflow.at # "add"
    BY <1>9, <2>1, <2>2, <1>k DEF WorkflowFails
  <2>3. CASE workflow.at = "add"
    <3>1. CanFail /\ past' = [Fault EXCEPT !.halfway = TRUE]
      BY <1>9, <2>3 DEF WorkflowFails
    <3>2. past'.halfway
      BY <3>1, PastFacts, EditedPast DEF IntakeInv
    <3> QED BY <3>2
  <2> QED BY <2>2, <2>3
<1> QED BY <1>1, <1>2, <1>3, <1>4, <1>5, <1>6, <1>7, <1>8, <1>9 DEF Next, TaskStep

(* A claim whose client was answered is found until it is deleted, but     *)
(* while a start or the workflow's Create_Claim_Process is between the two *)
(* halves of a replacement of its record, and after one of them failed or  *)
(* died there, until the next replacement begins.                          *)
THEOREM AcceptedClaimsAreFound == Spec => []AcceptedIsFound
<1>1. FoundInv => AcceptedIsFound
  BY DEF FoundInv, AcceptedIsFound, StatusAnswer
<1> QED BY <1>1, IntakeInit, IntakeStep, FoundInit, FoundStep, PTL DEF Spec

---------------------------------------------------------------------------
(* The workflow reads the classified items.                                *)

Started == messages > 0 \/ workflow.at # "idle"

ClassifiedInv ==
  kind = "auto" /\ "start" \notin past.ops =>
    /\ Started => intake.at \in {"mark", "markAdd", "markStore", "done", "lost"}
    /\ Started \/ intake.at \in {"labels", "enqueue"} => manifest \in {FinalItems, None}
    /\ workflow.items \in {FinalItems, None}

LEMMA ClassifiedInit == Init => ClassifiedInv
BY DEF Init, ClassifiedInv, Started

LEMMA ClassifiedStep == IntakeInv /\ ClassifiedInv /\ [Next]_vars => ClassifiedInv'
<1> SUFFICES ASSUME IntakeInv, ClassifiedInv, [Next]_vars, kind' = "auto",
                    "start" \notin past'.ops
             PROVE  ClassifiedInv'
  BY DEF ClassifiedInv
<1> USE DEF ClassifiedInv, Started
<1>0. kind = "auto" /\ "start" \notin past.ops
  <2>1. kind' = kind
    BY DEF vars, Next, Request, RequestLost, RequestStep, UploadBlob, ReadManifest,
       WriteManifest, EnqueueStart, LookupRecord, RemoveRecord, AddPending, StoreComment,
       ListFolder, PurgeOne, PurgeEnds, CreateShell, Accept, TaskStep, Classify,
       ReadForReplace, ReplaceItems, WriteLabels, EnqueueClaim, Sorry, MarkLookup,
       MarkFailed, IntakeLost, WorkflowBegins, WorkflowLooks, WorkflowRemoves, WorkflowAdds,
       WorkflowFails, WorkflowEnds
  <2> QED BY <2>1, PastGrows
(* Whatever leaves the workflow and the messages alone, and the manifest   *)
(* or empties it, needs to be looked at only where the intake goes.        *)
<1>k. ASSUME messages' = messages, workflow' = workflow, manifest' \in {manifest, None},
             intake' = intake \/ (~Started /\ intake'.at \notin {"labels", "enqueue"})
      PROVE  ClassifiedInv'
  BY <1>0, <1>k
<1>1. CASE UNCHANGED vars
  BY <1>1, <1>k DEF vars
<1>2. ASSUME NEW r \in Call, Request(r) \/ RequestLost(r) \/ RequestStep(r)
      PROVE  ClassifiedInv'
  <2>1. Purpose(call[r], past.ops)
    BY DEF IntakeInv
  <2>2. ~WriteManifest(r)
    BY <1>0, <2>1 DEF WriteManifest, At, Purpose
  <2>3. ~EnqueueStart(r)
    BY <1>0, <2>1 DEF EnqueueStart, At, Purpose
  <2>4. /\ messages' = messages /\ workflow' = workflow /\ intake' = intake
        /\ manifest' \in {manifest, None}
    BY <1>2, <2>2, <2>3
    DEF Request, RequestLost, RequestStep, UploadBlob, ReadManifest, LookupRecord,
        RemoveRecord, AddPending, StoreComment, ListFolder, PurgeOne, PurgeEnds
  <2> QED BY <2>4, <1>k
<1>i. ASSUME NEW at, IntakeGoes(at)
      PROVE  intake'.at = at
  BY <1>i DEF IntakeGoes, IntakeInv, TypeOK
<1>3. CASE CreateShell
  <2>1. ~Started /\ intake'.at \in {"record", "rejected"}
    BY <1>0, <1>3, <1>i DEF CreateShell, IntakeAtIs
  <2> QED BY <1>0, <1>3, <2>1 DEF CreateShell
<1>4. CASE Accept \/ Classify \/ ReadForReplace
  <2>1. ~Started /\ intake'.at \notin {"labels", "enqueue"}
    BY <1>0, <1>4, <1>i DEF Accept, Classify, ReadForReplace, IntakeAtIs
  <2> QED BY <1>4, <2>1, <1>k DEF Accept, Classify, ReadForReplace
<1>5. CASE ReplaceItems
  <2>1. ~Started /\ intake.at = "write"
    BY <1>0, <1>5 DEF ReplaceItems, IntakeAtIs
  <2>2. manifest' = FinalItems \/ intake'.at = "sorry"
    BY <1>5, <1>i DEF ReplaceItems
  <2> QED BY <1>0, <1>5, <2>1, <2>2 DEF ReplaceItems
<1>6. CASE WriteLabels
  BY <1>0, <1>6, <1>i DEF WriteLabels, IntakeAtIs
<1>7. CASE EnqueueClaim
  <2>1. intake.at = "enqueue" /\ intake'.at \in {"done", "mark"}
    BY <1>7, <1>i DEF EnqueueClaim, SendFails, IntakeAtIs
  <2> QED BY <1>0, <1>7, <2>1 DEF EnqueueClaim
<1>8. CASE Sorry
  BY <1>0, <1>8, <1>i DEF Sorry, IntakeAtIs
<1>9. CASE MarkLookup \/ MarkFailed \/ IntakeLost
  <2>1. /\ intake'.at \in {"markAdd", "markStore", "done", "lost"}
        /\ messages' = messages /\ workflow' = workflow /\ manifest' = manifest
    BY <1>9 DEF MarkLookup, MarkFailed, IntakeLost, IntakeInv, TypeOK
  <2> QED BY <1>0, <2>1
<1>10. CASE WorkflowBegins
  <2>1. /\ workflow'.at # "idle" /\ workflow'.items = manifest
        /\ intake' = intake /\ manifest' = manifest /\ Started
    BY <1>10 DEF WorkflowBegins
  <2> QED BY <1>0, <2>1
<1>11. CASE WorkflowLooks \/ WorkflowRemoves \/ WorkflowAdds \/ WorkflowFails \/ WorkflowEnds
  <2>1. workflow.at # "idle" /\ intake' = intake /\ manifest' = manifest
    BY <1>11 DEF WorkflowLooks, WorkflowRemoves, WorkflowAdds, WorkflowFails, WorkflowEnds
  <2>2. PICK at \in {"add", "remove", "running", "over"} : WorkflowGoes(at)
    BY <1>11 DEF WorkflowLooks, WorkflowRemoves, WorkflowAdds, WorkflowFails, WorkflowEnds
  <2>3. workflow'.items = workflow.items /\ workflow'.at # "idle"
    BY <2>2 DEF WorkflowGoes, IntakeInv, TypeOK
  <2> QED BY <1>0, <2>1, <2>3
<1> QED BY <1>1, <1>2, <1>3, <1>4, <1>5, <1>6, <1>7, <1>8, <1>9, <1>10, <1>11
        DEF Next, TaskStep

(* The workflow never reads the placeholder items of an auto-submitted     *)
(* claim that no client started.                                           *)
THEOREM ClassifiedBeforeRead == Spec => []WorkflowReadsClassified
<1>1. ClassifiedInv => WorkflowReadsClassified
  BY DEF ClassifiedInv, WorkflowReadsClassified, FinalItems
<1> QED BY <1>1, IntakeInit, IntakeStep, ClassifiedInit, ClassifiedStep, PTL DEF Spec

---------------------------------------------------------------------------
(* The manifest lists what is stored, if no two files share a name.        *)

OwnName == \A f, g \in File : NameOf[f] = NameOf[g] => f = g

Has(f)   == blob[NameOf[f]] = f
Stays(f) == blob'[NameOf[f]] = f

FilesInv ==
  "deleteClaim" \notin past.ops =>
    /\ manifest # None => \A i \in manifest : Has(i.file)
    /\ \A r \in Call :
         /\ call[r].at \in {"read", "write"} => Has(call[r].file)
         /\ call[r].at = "write" => \A i \in call[r].items : Has(i.file)
    /\ intake.at \notin {"new", "rejected"} => \A f \in File : Has(f)

LEMMA FilesInit == Init => FilesInv
BY InitCall DEF Init, FilesInv

LEMMA FilesCallStep ==
  ASSUME OwnName, IntakeInv, FilesInv, NEW r \in Call,
         RequestStep(r) \/ RequestLost(r), "deleteClaim" \notin past.ops
  PROVE  FilesInv'
<1> USE DEF FilesInv
<1>0. call[r] \in CallRecord /\ Purpose(call[r], past.ops) /\ intake' = intake
  BY DEF IntakeInv, TypeOK, RequestStep, RequestLost, UploadBlob, ReadManifest,
     WriteManifest, EnqueueStart, LookupRecord, RemoveRecord, AddPending, StoreComment,
     ListFolder, PurgeOne, PurgeEnds
<1>1. PICK c \in CallRecord :
        /\ Becomes(r, c) /\ Purpose(c, past.ops)
        /\ c.op = call[r].op /\ c.file = call[r].file
        /\ c.at = "write" => c.items = IF At(r, "read") THEN manifest ELSE call[r].items
  BY StepMoves
<1>2. ~ListFolder(r) /\ ~PurgeOne(r) /\ ~PurgeEnds(r)
  BY <1>0 DEF ListFolder, PurgeOne, PurgeEnds, At, Purpose
<1>3. \A i \in Item : i.file \in File
  BY DEF Item
<1>4. \A q \in Call : call'[q].at \in {"read", "write"} => (call[q] # call'[q] => q = r)
  BY <1>1 DEF Becomes
(* It is enough that files stay stored, and to look at r.                  *)
<1>k. ASSUME \A f \in File : Has(f) => Stays(f),
             c.at \in {"read", "write"} => Stays(c.file),
             c.at = "write" => \A i \in c.items : Stays(i.file),
             manifest' # None => manifest' = manifest \/ \A i \in manifest' : Stays(i.file)
      PROVE  FilesInv'
  <2>1. manifest' # None => \A i \in manifest' : Stays(i.file)
    BY <1>k, <1>3 DEF IntakeInv, TypeOK, Items
  <2>2. ASSUME NEW q \in Call
        PROVE  /\ call'[q].at \in {"read", "write"} => Stays(call'[q].file)
               /\ call'[q].at = "write" => \A i \in call'[q].items : Stays(i.file)
    <3>1. CASE q = r
      BY <1>1, <1>k, <3>1 DEF Becomes
    <3>2. CASE q # r
      <4>1. call'[q] = call[q] /\ call[q] \in CallRecord /\ Purpose(call[q], past.ops)
        BY <1>1, <3>2 DEF Becomes, IntakeInv, TypeOK
      <4>2. call[q].at = "write" => call[q].items \in SUBSET Item
        BY <4>1 DEF CallRecord, Items, Purpose
      <4>3. call[q].file \in File
        BY <4>1 DEF CallRecord
      <4> QED BY <1>3, <1>k, <4>1, <4>2, <4>3
    <3> QED BY <3>1, <3>2
  <2>3. intake'.at \notin {"new", "rejected"} => \A f \in File : Stays(f)
    BY <1>0, <1>k
  <2> QED BY <2>1, <2>2, <2>3 DEF Has, Stays
<1>5. CASE UploadBlob(r)
  <2>1. /\ blob' = [blob EXCEPT ![NameOf[call[r].file]] = call[r].file]
        /\ manifest' = manifest /\ Goto(r, "read")
    BY <1>5 DEF UploadBlob
  <2>2. /\ call[r].file \in File /\ blob \in [Name -> File \cup {None}]
        /\ NameOf[call[r].file] \in Name
    BY <1>0, IntakeAssumption DEF CallRecord, IntakeInv, TypeOK
  <2>3. Stays(c.file) /\ \A f \in File : Has(f) => Stays(f)
    BY <1>1, <2>1, <2>2, IntakeAssumption DEF OwnName, Has, Stays
  <2>4. c.at = "read"
    BY <1>0, <1>1, <2>1, GotoFacts DEF Becomes, CallRecord, CallAt, IntakeInv
  <2> QED BY <2>1, <2>3, <2>4, <1>k
<1>6. CASE ReadManifest(r)
  <2>1. blob' = blob /\ manifest' = manifest /\ call[r].at = "read" /\ At(r, "read")
    BY <1>6 DEF ReadManifest, At
  <2>2. c.at = "write" => c.items = manifest /\ c.items # None
    BY <1>1, <2>1 DEF Purpose
  <2>3. \A f : Stays(f) <=> Has(f)
    BY <2>1 DEF Has, Stays
  <2> QED BY <1>1, <2>1, <2>2, <2>3, <1>k
<1>7. CASE WriteManifest(r)
  <2>1. /\ blob' = blob /\ call[r].at = "write"
        /\ manifest' = call[r].items
             \cup {[file |-> call[r].file, by |-> r, schema |-> "default"]}
        /\ call' = [call EXCEPT ![r].at = "done", ![r].items = None]
    BY <1>7 DEF WriteManifest, At
  <2>2. c.at = "done"
    <3>1. [call[r] EXCEPT !.at = "done", !.items = None].at = "done"
      BY <1>0 DEF CallRecord
    <3>2. call'[r] = [call[r] EXCEPT !.at = "done", !.items = None]
      BY <2>1 DEF IntakeInv, TypeOK
    <3> QED BY <1>1, <3>1, <3>2 DEF Becomes
  <2>3. \A f : Stays(f) <=> Has(f)
    BY <2>1 DEF Has, Stays
  <2>4. \A i \in manifest' : Stays(i.file)
    BY <2>1, <2>3
  <2> QED BY <2>2, <2>3, <2>4, <1>k
<1>8. CASE EnqueueStart(r) \/ LookupRecord(r) \/ RemoveRecord(r) \/ AddPending(r)
           \/ StoreComment(r) \/ RequestLost(r)
  <2>1. blob' = blob /\ manifest' = manifest
    BY <1>8 DEF EnqueueStart, LookupRecord, RemoveRecord, AddPending, StoreComment,
       RequestLost
  <2>2. c.at \notin {"read", "write"}
    <3>1. CASE call[r].op # "upload"
      BY <1>1, <3>1 DEF Purpose
    <3>2. CASE call[r].op = "upload"
      <4>1. RequestLost(r)
        BY <1>0, <1>8, <3>2 DEF EnqueueStart, LookupRecord, RemoveRecord, AddPending,
           StoreComment, At, Purpose, Deletions
      <4>2. Becomes(r, [call[r] EXCEPT !.at = "lost"])
        BY <4>1, GotoFacts DEF RequestLost, CallAt, IntakeInv
      <4> QED BY <1>0, <1>1, <4>2 DEF Becomes, CallRecord
    <3> QED BY <3>1, <3>2
  <2>3. \A f : Stays(f) <=> Has(f)
    BY <2>1 DEF Has, Stays
  <2> QED BY <2>1, <2>2, <2>3, <1>k
<1> QED BY <1>2, <1>5, <1>6, <1>7, <1>8 DEF RequestStep

LEMMA FilesStep == OwnName /\ IntakeInv /\ FilesInv /\ [Next]_vars => FilesInv'
<1> SUFFICES ASSUME OwnName, IntakeInv, FilesInv, [Next]_vars, "deleteClaim" \notin past'.ops
             PROVE  FilesInv'
  BY DEF FilesInv
<1> USE DEF FilesInv
<1>0. "deleteClaim" \notin past.ops
  BY PastGrows
<1>k. ASSUME blob' = blob, call' = call, manifest' \in {manifest, None, {}},
             intake'.at \in {"new", "rejected"} \/ intake.at \notin {"new", "rejected"}
      PROVE  FilesInv'
  BY <1>0, <1>k DEF Has, Stays
<1>1. CASE UNCHANGED vars
  BY <1>1, <1>k DEF vars
<1>2. ASSUME NEW r \in Call, Request(r) PROVE FilesInv'
  <2>1. PICK c \in CallRecord :
          Becomes(r, c) /\ c.at \in {"blob", "enqueue", "list", "lookup"}
    BY <1>2, RequestMoves
  <2>2. blob' = blob /\ manifest' = manifest /\ intake' = intake
    BY <1>2 DEF Request
  <2>3. \A q \in Call : call'[q].at \in {"read", "write"} => call'[q] = call[q]
    BY <2>1 DEF Becomes
  <2> QED BY <1>0, <2>2, <2>3 DEF Has, Stays
<1>3. ASSUME NEW r \in Call, RequestStep(r) \/ RequestLost(r) PROVE FilesInv'
  BY <1>0, <1>3, FilesCallStep
<1>i. ASSUME NEW at, IntakeGoes(at)
      PROVE  intake'.at = at
  BY <1>i DEF IntakeGoes, IntakeInv, TypeOK
<1>4. CASE CreateShell
  <2>1. kind = "auto" /\ call' = call /\ blob' \in Stored
    BY <1>4 DEF CreateShell, IntakeAtIs
  <2>2. \A f \in File : Stays(f)
    BY <2>1, IntakeAssumption DEF Stored, Has, Stays, OwnName
  <2>3. \A q \in Call : call'[q].at \notin {"read", "write"}
    BY <2>1 DEF IntakeInv, Purpose
  <2>4. manifest' # None => \A i \in manifest' : i.file \in File
    BY <1>4, ItemFacts DEF CreateShell, Item
  <2> QED BY <2>2, <2>3, <2>4 DEF Has, Stays
<1>5. CASE Accept \/ Classify \/ ReadForReplace \/ WriteLabels \/ EnqueueClaim \/ Sorry
           \/ MarkLookup \/ MarkFailed \/ IntakeLost
  <2>1. blob' = blob /\ call' = call /\ manifest' = manifest
    BY <1>5 DEF Accept, Classify, ReadForReplace, WriteLabels, EnqueueClaim, Sorry,
       MarkLookup, MarkFailed, IntakeLost
  <2>2. intake.at \notin {"new", "rejected"}
    BY <1>5 DEF Accept, Classify, ReadForReplace, WriteLabels, EnqueueClaim, Sorry,
       MarkLookup, MarkFailed, IntakeLost, IntakeAtIs
  <2> QED BY <2>1, <2>2, <1>k
<1>6. CASE ReplaceItems
  <2>1. blob' = blob /\ call' = call /\ intake.at = "write"
    BY <1>6 DEF ReplaceItems, IntakeAtIs
  <2>2. manifest' = manifest \/ \A i \in manifest' : i.file \in File
    BY <1>6, ItemFacts DEF ReplaceItems, FinalItems, Item
  <2> QED BY <1>0, <2>1, <2>2 DEF Has, Stays
<1>7. CASE WorkflowBegins \/ WorkflowLooks \/ WorkflowRemoves \/ WorkflowAdds \/ WorkflowFails
           \/ WorkflowEnds
  BY <1>7, <1>k DEF WorkflowBegins, WorkflowLooks, WorkflowRemoves, WorkflowAdds,
     WorkflowFails, WorkflowEnds
<1> QED BY <1>1, <1>2, <1>3, <1>4, <1>5, <1>6, <1>7 DEF Next, TaskStep

(* As long as no two files share a name, and until the claim's container   *)
(* is deleted, every item of the manifest has its file in storage.         *)
THEOREM ItemsAreStored == OwnName /\ Spec => []ItemsHaveFiles
<1>1. FilesInv => ItemsHaveFiles
  BY DEF FilesInv, ItemsHaveFiles, Has
<1>2. Init /\ OwnName => IntakeInv /\ FilesInv
  BY IntakeInit, FilesInit
<1>3. OwnName => (IntakeInv /\ FilesInv /\ [Next]_vars => (IntakeInv /\ FilesInv)')
  BY IntakeStep, FilesStep
<1>4. CASE OwnName
  BY <1>1, <1>2, <1>3, <1>4, PTL DEF Spec
<1> QED BY <1>4
=============================================================================
