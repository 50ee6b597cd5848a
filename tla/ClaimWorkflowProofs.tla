------------------------ MODULE ClaimWorkflowProofs ------------------------
(***************************************************************************)
(* Proofs about ClaimWorkflow: types, and the inductive invariant under    *)
(* which the record of a job that alone writes it is exact, in spite of the*)
(* updates its tasks, its executor and its event loop make side by side.   *)
(***************************************************************************)
EXTENDS ClaimWorkflow, TLAPS

-----------------------------------------------------------------------------
(* Types.                                                                  *)

At == {"new", "lookup", "remove", "add", "fanout", "fetch", "agent",
       "load", "save", "done", "failed", "killed"}
TaskAts == {"queued", "submit", "upsert", "store", "poll", "wait", "final",
            "done", "failed"}

LEMMA NewClaimType == \A s \in ClaimStatus : NewClaim(s) \in Claim
BY DEF NewClaim, Claim

LEMMA NewTypes == WorkflowAssumption => NewJob \in JobState /\ NewItem \in ItemState
BY DEF NewJob, NewItem, JobState, ItemState, Executor, EntryStatus, DocStatus, WorkflowAssumption

LEMMA ReplaceType ==
  ASSUME TypeOK, NEW w, NEW new \in Claim, Replace(w, new)
  PROVE  record' \in Claim \cup {None} /\ foreign' \subseteq Job
BY DEF TypeOK, Replace, OthersSee

LEMMA EntryType ==
  ASSUME NEW c \in Claim, NEW f \in File, NEW s \in EntryStatus
  PROVE  [c EXCEPT !.docs[f] = s] \in Claim
<1>1. [c.docs EXCEPT ![f] = s] \in [File -> EntryStatus \cup {None}]
  BY DEF Claim
<1>2. [c EXCEPT !.docs[f] = s] = [c EXCEPT !.docs = [c.docs EXCEPT ![f] = s]]
  BY DEF Claim
<1> QED BY <1>1, <1>2 DEF Claim

LEMMA GoesType ==
  ASSUME TypeOK, NEW j \in Job, NEW at \in At, Goes(j, at)
  PROVE  job' \in [Job -> JobState]
<1>1. [job[j] EXCEPT !.at = at] \in JobState
  BY ZenonT(30) DEF TypeOK, JobState, At
<1>2. job' = [job EXCEPT ![j] = [job[j] EXCEPT !.at = at]]
  BY DEF Goes
<1> QED BY <1>1, <1>2 DEF TypeOK

LEMMA ItemType ==
  ASSUME TypeOK, NEW j \in Job, NEW f \in File, NEW i \in ItemState,
         item' = [item EXCEPT ![j][f] = i]
  PROVE  item' \in [Job -> [File -> ItemState]]
BY DEF TypeOK

LEMMA TaskGoesType ==
  ASSUME TypeOK, WorkflowAssumption, NEW j \in Job, NEW f \in File, NEW at \in TaskAts,
         TaskGoes(j, f, at)
  PROVE  item' \in [Job -> [File -> ItemState]]
<1>1. item[j][f] \in ItemState
  BY DEF TypeOK
<1> DEFINE i == CASE at = "done" -> [NewItem EXCEPT !.at = at, !.status = item[j][f].status]
                  [] at = "failed" -> [NewItem EXCEPT !.at = at]
                  [] OTHER -> [item[j][f] EXCEPT !.at = at, !.copy = None]
<1>2. i \in ItemState
  <2>1. CASE at = "done"
    BY <1>1, <2>1, NewTypes DEF ItemState
  <2>2. CASE at = "failed"
    BY <1>1, <2>2, NewTypes DEF ItemState
  <2>3. CASE at \notin {"done", "failed"}
    BY <1>1, <2>3 DEF ItemState, TaskAts
  <2> QED BY <2>1, <2>2, <2>3
<1>3. item' = [item EXCEPT ![j][f] = i]
  BY <1>1 DEF TaskGoes, TypeOK
<1> HIDE DEF i
<1> QED BY <1>2, <1>3, ItemType

LEMMA UpsertsType ==
  ASSUME TypeOK, NEW j \in Job, NEW f \in File, NEW s \in EntryStatus,
         NEW n \in {"poll", "wait", "done"}, Upserts(j, f, s, n)
  PROVE  item' \in [Job -> [File -> ItemState]]
<1>1. item[j][f] \in ItemState
  BY DEF TypeOK
<1> DEFINE i == [item[j][f] EXCEPT !.at = "upsert", !.status = s, !.next = n]
<1>2. i \in ItemState
  BY <1>1 DEF ItemState
<1>3. item' = [item EXCEPT ![j][f] = i]
  BY DEF Upserts
<1> HIDE DEF i
<1> QED BY <1>2, <1>3, ItemType

LEMMA ProceedsType ==
  ASSUME TypeOK, NEW j \in Job, Proceeds(j) \/ Breaks(j)
  PROVE  consumer' \in [Job -> ConsumerState]
<1>1. consumer[j] \in ConsumerState
  BY DEF TypeOK
<1>2. PICK c \in ConsumerState : consumer' = [consumer EXCEPT ![j] = c]
  <2>1. CASE Proceeds(j)
    <3> DEFINE on(what) == [consumer[j] EXCEPT !.at = "load", !.want = what, !.copy = None]
               to(at) == [consumer[j] EXCEPT !.at = at, !.want = None, !.copy = None]
    <3>1. on("comment") \in ConsumerState /\ on("time") \in ConsumerState
      BY <1>1 DEF ConsumerState
    <3>2. to("over") \in ConsumerState /\ to("waiting") \in ConsumerState
      BY <1>1 DEF ConsumerState
    <3>3. \/ consumer' = [consumer EXCEPT ![j] = on("comment")]
          \/ consumer' = [consumer EXCEPT ![j] = on("time")]
          \/ consumer' = [consumer EXCEPT ![j] = to("over")]
          \/ consumer' = [consumer EXCEPT ![j] = to("waiting")]
      BY <2>1 DEF Proceeds
    <3> HIDE DEF on, to
    <3> QED BY <3>1, <3>2, <3>3
  <2>2. CASE Breaks(j)
    <3> DEFINE c == [consumer[j] EXCEPT !.verdict = "raised", !.copy = None]
               over == [c EXCEPT !.at = "over", !.want = None]
               last == [c EXCEPT !.at = "load", !.want = "time"]
    <3>1. over \in ConsumerState /\ last \in ConsumerState
      BY <1>1 DEF ConsumerState
    <3>2. \/ consumer' = [consumer EXCEPT ![j] = over]
          \/ consumer' = [consumer EXCEPT ![j] = last]
      BY <2>2 DEF Breaks
    <3> HIDE DEF over, last
    <3> QED BY <3>1, <3>2
  <2> QED BY <2>1, <2>2
<1> QED BY <1>2 DEF TypeOK

LEMMA JobType ==
  ASSUME TypeOK, NEW j \in Job, NEW b \in JobState, job' = [job EXCEPT ![j] = b]
  PROVE  job' \in [Job -> JobState]
BY DEF TypeOK

LEMMA ConsumerType ==
  ASSUME TypeOK, NEW j \in Job, NEW c \in ConsumerState, consumer' = [consumer EXCEPT ![j] = c]
  PROVE  consumer' \in [Job -> ConsumerState]
BY DEF TypeOK

LEMMA TaskTypes ==
  ASSUME TypeOK, WorkflowAssumption, NEW j \in Job, NEW f \in File,
         StoresWhatIsRead(j), PollsLeft(j), Task(j, f) \/ TaskRaises(j, f)
  PROVE  TypeOK'
<1>0. item[j][f] \in ItemState /\ job[j] \in JobState
  BY DEF TypeOK
<1>1. CASE Acquire(j, f)
  BY <1>1, TaskGoesType DEF Acquire, TypeOK, TaskAts
<1>2. CASE SubmitFile(j, f)
  <2>1. item' \in [Job -> [File -> ItemState]]
    BY <1>2, TaskGoesType, UpsertsType DEF SubmitFile, TaskAts, EntryStatus, DocStatus
  <2>2. document' \in [File -> DocStatus \cup {None}]
    BY <1>2 DEF SubmitFile, TypeOK, DocStatus
  <2> QED BY <1>2, <2>1, <2>2 DEF SubmitFile, TypeOK
<1>3. CASE LockAndLoad(j, f)
  <2>1. CASE record = None
    <3>1. item[j][f].next \in TaskAts
      BY <1>0 DEF ItemState, TaskAts
    <3>2. item' \in [Job -> [File -> ItemState]]
      BY <1>3, <2>1, <3>1, TaskGoesType DEF LockAndLoad
    <3> QED BY <1>3, <2>1, <3>2 DEF LockAndLoad, TypeOK
  <2>2. CASE record # None
    <3>1. [item[j][f] EXCEPT !.at = "store", !.copy = record] \in ItemState
      BY <1>0 DEF TypeOK, ItemState
    <3>2. item' \in [Job -> [File -> ItemState]]
      BY <1>3, <2>2, <3>1, ItemType DEF LockAndLoad
    <3>3. [job[j] EXCEPT !.lock = f] \in JobState
      BY <1>0 DEF JobState
    <3>4. job' \in [Job -> JobState]
      BY <1>3, <2>2, <3>3, JobType DEF LockAndLoad
    <3> QED BY <1>3, <3>2, <3>4 DEF LockAndLoad, TypeOK
  <2> QED BY <2>1, <2>2
<1>4. CASE StoreEntry(j, f)
  <2>1. item[j][f].copy \in Claim /\ item[j][f].status \in EntryStatus
    BY <1>0, <1>4 DEF StoreEntry, TaskAt, StoresWhatIsRead, ItemState
  <2>2. [item[j][f].copy EXCEPT !.docs[f] = item[j][f].status] \in Claim
    BY <2>1, EntryType
  <2>3. record' \in Claim \cup {None} /\ foreign' \subseteq Job
    BY <1>4, <2>2, ReplaceType DEF StoreEntry
  <2>4. item[j][f].next \in TaskAts
    BY <1>0 DEF ItemState, TaskAts
  <2>5. item' \in [Job -> [File -> ItemState]]
    BY <1>4, <2>4, TaskGoesType DEF StoreEntry, TaskAts
  <2>6. [job[j] EXCEPT !.lock = None] \in JobState
    BY <1>0 DEF JobState
  <2>7. job' \in [Job -> JobState]
    BY <1>4, <2>6, JobType DEF StoreEntry
  <2> QED BY <1>4, <2>3, <2>5, <2>7 DEF StoreEntry, TypeOK
<1>5. CASE Poll(j, f)
  <2> DEFINE now == document[f]
             i == item[j][f]
  <2>1. now \in DocStatus \cup {None}
    BY DEF TypeOK
  <2>2. now = None => [i EXCEPT !.at = "final", !.status = "Failed"] \in ItemState
    BY <1>0 DEF ItemState, EntryStatus
  <2>3. now \in Terminal =>
          [i EXCEPT !.at = "final", !.status = now, !.last = now] \in ItemState
    BY <1>0 DEF ItemState, EntryStatus, DocStatus
  <2>4. now \in DocStatus \ Terminal =>
          [i EXCEPT !.at = IF now = i.last THEN "wait" ELSE "upsert",
                    !.status = now, !.next = "wait", !.last = now] \in ItemState
    BY <1>0 DEF ItemState, EntryStatus
  <2>5. item' \in [Job -> [File -> ItemState]]
    BY <1>5, <2>2, <2>3, <2>4, ItemType DEF Poll, GetStatus
  <2> QED BY <1>5, <2>5 DEF Poll, TypeOK, GetStatus
<1>6. CASE Wait(j, f)
  <2> DEFINE n == item[j][f].polls + 1
             i == [item[j][f] EXCEPT !.at = IF n < MaxPolls THEN "poll" ELSE "final",
                                     !.polls = n]
  <2>1. n \in 0..MaxPolls
    BY <1>0, <1>6 DEF Wait, TaskAt, PollsLeft, ItemState, WorkflowAssumption
  <2>2. i \in ItemState
    BY <1>0, <2>1 DEF ItemState
  <2>3. item' = [item EXCEPT ![j][f] = i]
    BY <1>6 DEF Wait
  <2> HIDE DEF i
  <2>4. item' \in [Job -> [File -> ItemState]]
    BY <2>2, <2>3, ItemType
  <2> QED BY <1>6, <2>4 DEF Wait, TypeOK
<1>7. CASE GetProcessed(j, f)
  <2>1. item[j][f].status \in EntryStatus /\ document[f] \in DocStatus \cup {None}
    BY <1>0 DEF TypeOK, ItemState
  <2>2. item' \in [Job -> [File -> ItemState]]
    BY <1>7, <2>1, UpsertsType DEF GetProcessed, EntryStatus, Processed
  <2> QED BY <1>7, <2>2 DEF GetProcessed, TypeOK, Processed
<1>8. CASE TaskRaises(j, f)
  <2>1. item' \in [Job -> [File -> ItemState]]
    BY <1>8, TaskGoesType DEF TaskRaises, TaskAts
  <2>2. [job[j] EXCEPT !.lock = None] \in JobState
    BY <1>0 DEF JobState
  <2>3. job' \in [Job -> JobState]
    BY <1>8, <2>2, JobType DEF TaskRaises, TypeOK
  <2> QED BY <1>8, <2>1, <2>3 DEF TaskRaises, TypeOK
<1> QED BY <1>1, <1>2, <1>3, <1>4, <1>5, <1>6, <1>7, <1>8 DEF Task

LEMMA ExecutorTypes ==
  ASSUME TypeOK, WorkflowAssumption, NEW j \in Job, StoresWhatIsRead(j),
         Begin(j) \/ Execute(j) \/ ExecutorRaises(j) \/ Kill(j)
  PROVE  TypeOK'
<1>0. job[j] \in JobState /\ consumer[j] \in ConsumerState
  BY DEF TypeOK
<1>1. CASE Begin(j)
  <2>1. job' \in [Job -> JobState]
    BY <1>1, GoesType DEF Begin, At
  <2>2. [consumer[j] EXCEPT !.at = "waiting"] \in ConsumerState
    BY <1>0 DEF ConsumerState
  <2>3. consumer' \in [Job -> ConsumerState]
    BY <1>1, <2>2, ConsumerType DEF Begin
  <2> QED BY <1>1, <2>1, <2>3 DEF Begin, TypeOK
<1>2. CASE LookupClaim(j)
  <2>1. job' \in [Job -> JobState]
    BY <1>2, GoesType DEF LookupClaim, At
  <2> QED BY <1>2, <2>1 DEF LookupClaim, TypeOK
<1>3. CASE RemoveClaim(j)
  <2>1. job' \in [Job -> JobState]
    BY <1>3, GoesType DEF RemoveClaim, At
  <2> QED BY <1>3, <2>1 DEF RemoveClaim, Remove, OthersSee, TypeOK
<1>4. CASE AddClaim(j)
  <2>1. job' \in [Job -> JobState]
    BY <1>4, GoesType DEF AddClaim, At
  <2>2. NewClaim("document_processing") \in Claim
    BY NewClaimType DEF ClaimStatus, Executor
  <2>3. record' \in Claim \cup {None} /\ foreign' \subseteq Job
    BY <1>4, <2>2 DEF AddClaim, Add, TypeOK
  <2> QED BY <1>4, <2>1, <2>3 DEF AddClaim, TypeOK
<1>5. CASE FanIn(j)
  <2>1. job' \in [Job -> JobState]
    BY <1>5, GoesType DEF FanIn, At
  <2> QED BY <1>5, <2>1 DEF FanIn, TypeOK
<1>6. CASE Fetch(j)
  <2>1. PICK got \in SUBSET Usable(j) :
          job' = [job EXCEPT ![j] = [job[j] EXCEPT !.extracts = got,
                                       !.at = IF got = {} THEN "done" ELSE "agent"]]
    BY ZenonT(30), <1>0, <1>6 DEF Fetch, TypeOK, JobState
  <2>2. got \subseteq File
    BY DEF Usable
  <2>3. [job[j] EXCEPT !.extracts = got,
                       !.at = IF got = {} THEN "done" ELSE "agent"] \in JobState
    BY <1>0, <2>2 DEF JobState
  <2>4. job' \in [Job -> JobState]
    BY <2>1, <2>3, JobType
  <2> QED BY <1>6, <2>4 DEF Fetch, TypeOK
<1>7. CASE Screen(j)
  <2>1. job' \in [Job -> JobState]
    BY <1>7, GoesType DEF Screen, At
  <2>2. screened' \subseteq File
    BY <1>0, <1>7 DEF Screen, TypeOK, JobState
  <2> QED BY <1>7, <2>1, <2>2 DEF Screen, TypeOK
<1>8. CASE Answer(j)
  <2>1. job' \in [Job -> JobState]
    BY <1>8, GoesType DEF Answer, At
  <2> QED BY <1>8, <2>1 DEF Answer, TypeOK
<1>9. CASE LoadClaim(j)
  <2> DEFINE b == [job[j] EXCEPT !.copy = record,
                                 !.at = IF record = None THEN "done" ELSE "save"]
  <2>1. job' = [job EXCEPT ![j] = b]
    BY <1>0, <1>9 DEF LoadClaim, TypeOK, JobState
  <2>2. b \in JobState
    BY <1>0 DEF JobState, TypeOK
  <2> HIDE DEF b
  <2>3. job' \in [Job -> JobState]
    BY <2>1, <2>2, JobType
  <2> QED BY <1>9, <2>3 DEF LoadClaim, TypeOK
<1>10. CASE SaveClaim(j)
  <2> DEFINE c == job[j].copy
             new == IF job[j].step = "summarizing"
                    THEN [c EXCEPT !.summary = job[j].extracts]
                    ELSE [c EXCEPT !.gaps = job[j].extracts]
  <2>1. c \in Claim /\ job[j].extracts \subseteq File
    BY <1>0, <1>10 DEF SaveClaim, Executes, StoresWhatIsRead, JobState
  <2>2. new \in Claim
    BY <2>1 DEF Claim
  <2>3. Replace(j, new)
    BY <1>10 DEF SaveClaim
  <2>4. record' \in Claim \cup {None} /\ foreign' \subseteq Job
    BY <2>2, <2>3, ReplaceType
  <2>5. PICK at \in {"done", "failed"} :
          job' = [job EXCEPT ![j] = [job[j] EXCEPT !.at = at, !.copy = None]]
    BY <1>0, <1>10 DEF SaveClaim, TypeOK, JobState
  <2>6. [job[j] EXCEPT !.at = at, !.copy = None] \in JobState
    BY <1>0 DEF JobState
  <2>7. job' \in [Job -> JobState]
    BY <2>5, <2>6, JobType
  <2> QED BY <1>10, <2>4, <2>7 DEF SaveClaim, TypeOK
<1>11. CASE ExecutorRaises(j)
  <2>1. job' = [job EXCEPT ![j] = [job[j] EXCEPT !.at = "failed", !.copy = None]]
    BY <1>0, <1>11 DEF ExecutorRaises, TypeOK, JobState
  <2>2. [job[j] EXCEPT !.at = "failed", !.copy = None] \in JobState
    BY <1>0 DEF JobState
  <2>3. job' \in [Job -> JobState]
    BY <2>1, <2>2, JobType
  <2> QED BY <1>11, <2>3 DEF ExecutorRaises, TypeOK
<1>12. CASE Kill(j)
  <2>1. [NewJob EXCEPT !.at = "killed"] \in JobState /\ NewItem \in ItemState
    BY NewTypes DEF JobState
  <2>2. job' \in [Job -> JobState]
    BY <1>12, <2>1, JobType DEF Kill
  <2>3. item' \in [Job -> [File -> ItemState]]
    BY <1>12, <2>1 DEF Kill, TypeOK
  <2>4. consumer' \in [Job -> ConsumerState]
    BY <1>12 DEF Kill, TypeOK, ConsumerState
  <2> QED BY <1>12, <2>2, <2>3, <2>4 DEF Kill, TypeOK
<1> QED BY <1>1, <1>2, <1>3, <1>4, <1>5, <1>6, <1>7, <1>8, <1>9, <1>10, <1>11, <1>12 DEF Execute

LEMMA ConsumerTypes ==
  ASSUME TypeOK, NEW j \in Job, StoresWhatIsRead(j), Consume(j) \/ UpdateRaises(j)
  PROVE  TypeOK'
<1>0. job[j] \in JobState /\ consumer[j] \in ConsumerState
  BY DEF TypeOK
<1>1. CASE ExecutorInvoked(j)
  <2>1. Wants(j, job[j].step) \in ConsumerState
    BY <1>0 DEF Wants, ConsumerState, JobState
  <2>2. consumer' \in [Job -> ConsumerState]
    BY <1>1, <2>1, ConsumerType DEF ExecutorInvoked
  <2>3. [job[j] EXCEPT !.told = TRUE] \in JobState
    BY <1>0 DEF JobState
  <2>4. job' \in [Job -> JobState]
    BY <1>1, <2>3, JobType DEF ExecutorInvoked
  <2> QED BY <1>1, <2>2, <2>4 DEF ExecutorInvoked, TypeOK
<1>2. CASE WorkflowFailed(j)
  <2>1. [Wants(j, "Failed") EXCEPT !.verdict = "failed"] \in ConsumerState
    BY <1>0 DEF Wants, ConsumerState, Final
  <2>2. consumer' \in [Job -> ConsumerState]
    BY <1>2, <2>1, ConsumerType DEF WorkflowFailed
  <2> QED BY <1>2, <2>2 DEF WorkflowFailed, TypeOK
<1>3. CASE WorkflowOutput(j)
  <2>1. [Wants(j, "Completed") EXCEPT !.verdict = "returned"] \in ConsumerState
    BY <1>0 DEF Wants, ConsumerState, Final
  <2>2. consumer' \in [Job -> ConsumerState]
    BY <1>3, <2>1, ConsumerType DEF WorkflowOutput
  <2> QED BY <1>3, <2>2 DEF WorkflowOutput, TypeOK
<1>4. CASE NextExecutor(j)
  <2>1. Successor(job[j].step) \in Executor
    BY DEF Successor, Executor
  <2> DEFINE b == [job[j] EXCEPT !.step = Successor(job[j].step), !.at = "fetch",
                                 !.extracts = {}, !.told = FALSE]
  <2>2. job' = [job EXCEPT ![j] = b]
    BY <1>0, <1>4 DEF NextExecutor, TypeOK, JobState
  <2>3. b \in JobState
    BY <1>0, <2>1 DEF JobState
  <2> HIDE DEF b
  <2>4. job' \in [Job -> JobState]
    BY <2>2, <2>3, JobType
  <2> QED BY <1>4, <2>4 DEF NextExecutor, TypeOK
<1>5. CASE Load(j)
  <2>1. CASE record = None
    BY <1>5, <2>1, ProceedsType DEF Load, TypeOK
  <2>2. CASE record # None
    <3> DEFINE c == [consumer[j] EXCEPT !.at = "store", !.copy = record]
    <3>1. consumer' = [consumer EXCEPT ![j] = c]
      BY <1>0, <1>5, <2>2 DEF Load, TypeOK, ConsumerState
    <3>2. c \in ConsumerState
      BY <1>0 DEF ConsumerState, TypeOK
    <3> HIDE DEF c
    <3>3. consumer' \in [Job -> ConsumerState]
      BY <3>1, <3>2, ConsumerType
    <3> QED BY <1>5, <3>3 DEF Load, TypeOK
  <2> QED BY <2>1, <2>2
<1>6. CASE Store(j)
  <2>1. consumer[j].copy \in Claim /\ consumer[j].want # None
    BY <1>0, <1>6 DEF Store, StoresWhatIsRead, ConsumerState
  <2>2. Updated(consumer[j].copy, consumer[j].want) \in Claim
    BY <1>0, <2>1 DEF Updated, Claim, ClaimStatus, ConsumerState
  <2>3. record' \in Claim \cup {None} /\ foreign' \subseteq Job
    BY <1>6, <2>2, ReplaceType DEF Store
  <2>4. consumer' \in [Job -> ConsumerState]
    BY <1>6, ProceedsType DEF Store
  <2> QED BY <1>6, <2>3, <2>4 DEF Store, TypeOK
<1>7. CASE UpdateRaises(j)
  BY <1>7, ProceedsType DEF UpdateRaises, TypeOK
<1> QED BY <1>1, <1>2, <1>3, <1>4, <1>5, <1>6, <1>7 DEF Consume

LEMMA ApiTypes ==
  ASSUME TypeOK, StartRequest \/ \E f \in File : DocumentMoves(f)
  PROVE  TypeOK'
<1>1. NewClaim("Pending") \in Claim
  BY NewClaimType DEF ClaimStatus
<1>2. CASE StartRequest
  BY <1>1, <1>2 DEF StartRequest, Enqueue, ApiLookup, ApiRemove, ApiAdd, Add, Remove,
       OthersSee, TypeOK
<1>3. CASE \E f \in File : DocumentMoves(f)
  BY <1>3 DEF DocumentMoves, TypeOK
<1> QED BY <1>2, <1>3

LEMMA TypeStep ==
  ASSUME TypeOK, \A j \in Job : Coherent(j), [Next]_vars
  PROVE  TypeOK'
<1>1. CASE UNCHANGED vars
  BY <1>1 DEF vars, TypeOK
<1>2. CASE Next
  BY <1>2, WorkflowAssumption, TaskTypes, ExecutorTypes, ConsumerTypes, ApiTypes
     DEF Next, Advance, Fault, Coherent
<1> QED BY <1>1, <1>2

-----------------------------------------------------------------------------
(* What a step of job j leaves to the other jobs.                          *)

(* The part of job i that only its own steps change.                       *)
Same(i) == job'[i] = job[i] /\ item'[i] = item[i] /\ consumer'[i] = consumer[i]

JobStep(j) == Begin(j) \/ Advance(j) \/ Fault(j)

LEMMA OthersSame ==
  ASSUME TypeOK, NEW j \in Job, NEW i \in Job, i # j, JobStep(j)
  PROVE  Same(i)
<1>1. CASE \E f \in File : Task(j, f) \/ TaskRaises(j, f)
  BY <1>1 DEF Task, TaskRaises, Acquire, SubmitFile, LockAndLoad, StoreEntry, Poll, Wait,
       GetProcessed, TaskGoes, Upserts, Same, TypeOK, GetStatus, Processed
<1>2. CASE Begin(j) \/ Execute(j) \/ ExecutorRaises(j) \/ Kill(j)
  BY <1>2 DEF Begin, Execute, ExecutorRaises, Kill, LookupClaim, RemoveClaim, AddClaim, FanIn,
       Fetch, Screen, Answer, LoadClaim, SaveClaim, Goes, Same, TypeOK
<1>3. CASE Consume(j) \/ UpdateRaises(j)
  BY <1>3 DEF Consume, UpdateRaises, ExecutorInvoked, WorkflowFailed, WorkflowOutput,
       NextExecutor, Load, Store, Proceeds, Breaks, Same, TypeOK
<1> QED BY <1>1, <1>2, <1>3 DEF JobStep, Advance, Fault

(* The record does not change behind the back of a job: either it stays as *)
(* it is, or every other job counts as one whose record others have written*)
LEMMA OthersSeeWrites ==
  ASSUME NEW j \in Job, NEW i \in Job, i # j, JobStep(j)
  PROVE  \/ record' = record /\ foreign' = foreign
         \/ i \in foreign'
<1>1. CASE \E f \in File : Task(j, f) \/ TaskRaises(j, f)
  BY <1>1 DEF Task, TaskRaises, Acquire, SubmitFile, LockAndLoad, StoreEntry, Poll, Wait,
       GetProcessed, Replace, OthersSee, GetStatus, Processed
<1>2. CASE Begin(j) \/ Execute(j) \/ ExecutorRaises(j) \/ Kill(j)
  BY <1>2 DEF Begin, Execute, ExecutorRaises, Kill, LookupClaim, RemoveClaim, AddClaim, FanIn,
       Fetch, Screen, Answer, LoadClaim, SaveClaim, Replace, Remove, Add, OthersSee
<1>3. CASE Consume(j) \/ UpdateRaises(j)
  BY <1>3 DEF Consume, UpdateRaises, ExecutorInvoked, WorkflowFailed, WorkflowOutput,
       NextExecutor, Load, Store, Replace, OthersSee
<1> QED BY <1>1, <1>2, <1>3 DEF JobStep, Advance, Fault

LEMMA SameCoherent ==
  ASSUME NEW j \in Job, Same(j), Coherent(j)
  PROVE  Coherent(j)'
BY DEF Same, Coherent, FanOutFirst, StoresWhatIsRead, PollsLeft, WantsItsVerdict

LEMMA SameOwn ==
  ASSUME NEW j \in Job, Same(j), record' = record, Own(j)
  PROVE  Own(j)'
BY DEF Same, Own, OwnRecord, OwnCopies, OwnVerdict, OfListed, Listed, Usable

-----------------------------------------------------------------------------
(* The tasks of job j.                                                     *)

LEMMA TaskGoesFacts ==
  ASSUME TypeOK, NEW j \in Job, NEW f \in File, NEW at, TaskGoes(j, f, at)
  PROVE  /\ \A g \in File \ {f} : item'[j][g] = item[j][g]
         /\ item'[j][f].at = at
         /\ at = "done" => item'[j][f].status = item[j][f].status
         /\ at \notin {"done", "failed"} =>
              item'[j][f].polls = item[j][f].polls /\ item'[j][f].next = item[j][f].next
<1>1. item[j][f] \in ItemState
  BY DEF TypeOK
<1> DEFINE i == CASE at = "done" -> [NewItem EXCEPT !.at = at, !.status = item[j][f].status]
                  [] at = "failed" -> [NewItem EXCEPT !.at = at]
                  [] OTHER -> [item[j][f] EXCEPT !.at = at, !.copy = None]
<1>2. item' = [item EXCEPT ![j][f] = i]
  BY DEF TaskGoes, TypeOK
<1>3. /\ i.at = at
      /\ at = "done" => i.status = item[j][f].status
      /\ at \notin {"done", "failed"} => i.polls = item[j][f].polls /\ i.next = item[j][f].next
  BY <1>1 DEF ItemState, NewItem
<1> HIDE DEF i
<1> QED BY <1>2, <1>3 DEF TypeOK

LEMMA LoadFacts ==
  ASSUME TypeOK, NEW j \in Job, NEW f \in File,
         item' = [item EXCEPT ![j][f] = [@ EXCEPT !.at = "store", !.copy = record]]
  PROVE  /\ \A g \in File \ {f} : item'[j][g] = item[j][g]
         /\ item'[j][f].at = "store" /\ item'[j][f].copy = record
         /\ item'[j][f].polls = item[j][f].polls /\ item'[j][f].next = item[j][f].next
         /\ item'[j][f].status = item[j][f].status
<1>1. item[j][f] \in ItemState
  BY DEF TypeOK
<1>2. item'[j][f] = [item[j][f] EXCEPT !.at = "store", !.copy = record]
  BY DEF TypeOK
<1> QED BY <1>1, <1>2 DEF ItemState, TypeOK

LEMMA PollFacts ==
  ASSUME TypeOK, NEW j \in Job, NEW f \in File, Poll(j, f)
  PROVE  /\ job[j].at = "fanout" /\ consumer[j].at # "over" /\ item[j][f].at = "poll"
         /\ \A g \in File \ {f} : item'[j][g] = item[j][g]
         /\ item'[j][f].at \in {"final", "wait", "upsert"}
         /\ item'[j][f].polls = item[j][f].polls
         /\ consumer' = consumer /\ job' = job
<1> DEFINE i == item[j][f]
<1>1. i \in ItemState
  BY DEF TypeOK
<1>2. PICK k : /\ item' = [item EXCEPT ![j][f] = k]
               /\ k.at \in {"final", "wait", "upsert"} /\ k.polls = i.polls
  <2> DEFINE now == document[f]
             none == [i EXCEPT !.at = "final", !.status = "Failed"]
             last == [i EXCEPT !.at = "final", !.status = now, !.last = now]
             new == [i EXCEPT !.at = IF now = i.last THEN "wait" ELSE "upsert",
                              !.status = now, !.next = "wait", !.last = now]
  <2>1. \/ item' = [item EXCEPT ![j][f] = none]
        \/ item' = [item EXCEPT ![j][f] = last]
        \/ item' = [item EXCEPT ![j][f] = new]
    BY DEF Poll, GetStatus
  <2>2. none.at = "final" /\ none.polls = i.polls
    BY <1>1 DEF ItemState
  <2>3. last.at = "final" /\ last.polls = i.polls
    BY <1>1 DEF ItemState
  <2>4. new.at \in {"wait", "upsert"} /\ new.polls = i.polls
    BY <1>1 DEF ItemState
  <2> HIDE DEF none, last, new
  <2> QED BY <2>1, <2>2, <2>3, <2>4
<1>3. (\A g \in File \ {f} : item'[j][g] = item[j][g]) /\ item'[j][f] = k
  BY <1>2 DEF TypeOK
<1> QED BY <1>2, <1>3 DEF Poll, TaskAt, Executes, GetStatus

(* Where a task can be after a step of its own, and with which lock.       *)
LEMMA TaskSteps ==
  ASSUME TypeOK, NEW j \in Job, NEW f \in File, Coherent(j),
         Task(j, f) \/ TaskRaises(j, f)
  PROVE  /\ job[j].at = "fanout" /\ consumer[j].at # "over" /\ consumer' = consumer
         /\ job'[j] = job[j] \/ \E l \in File \cup {None} : job'[j] = [job[j] EXCEPT !.lock = l]
         /\ \A g \in File \ {f} : item'[j][g] = item[j][g]
         /\ item'[j][f].at = "store" => item'[j][f].copy # None /\ job'[j].lock = f
         /\ \/ job'[j].lock = job[j].lock
            \/ job[j].lock \in {None, f}
<1> USE DEF TaskAt, Executes
<1>0. item[j][f] \in ItemState /\ job[j] \in JobState
  BY DEF TypeOK
<1>1. CASE Acquire(j, f)
  BY <1>0, <1>1, TaskGoesFacts DEF Acquire
<1>2. CASE SubmitFile(j, f)
  <2>1. CASE TaskGoes(j, f, "failed")
    BY <1>0, <1>2, <2>1, TaskGoesFacts DEF SubmitFile
  <2>2. CASE Upserts(j, f, "processing", "poll")
    BY <1>0, <1>2, <2>2 DEF SubmitFile, Upserts, ItemState, TypeOK
  <2> QED BY <1>2, <2>1, <2>2 DEF SubmitFile
<1>3. CASE LockAndLoad(j, f)
  <2>1. CASE record = None
    <3>1. item[j][f].next # "store"
      BY <1>0 DEF ItemState
    <3> QED BY <1>0, <1>3, <2>1, <3>1, TaskGoesFacts DEF LockAndLoad
  <2>2. CASE record # None
    <3>1. job'[j] = [job[j] EXCEPT !.lock = f] /\ job[j].lock = None
      BY <1>0, <1>3, <2>2 DEF LockAndLoad, TypeOK
    <3>2. /\ \A g \in File \ {f} : item'[j][g] = item[j][g]
          /\ item'[j][f].copy = record
      BY <1>3, <2>2, LoadFacts DEF LockAndLoad
    <3>3. job'[j].lock = f
      BY <1>0, <3>1 DEF JobState
    <3> QED BY <1>3, <2>2, <3>1, <3>2, <3>3 DEF LockAndLoad
  <2> QED BY <2>1, <2>2
<1>4. CASE StoreEntry(j, f)
  <2>1. item[j][f].next # "store"
    BY <1>0 DEF ItemState
  <2>2. job'[j] = [job[j] EXCEPT !.lock = None] /\ job[j].lock = f
    BY <1>4 DEF StoreEntry, Coherent, StoresWhatIsRead, TypeOK
  <2>3. PICK at \in {item[j][f].next, "failed"} : TaskGoes(j, f, at)
    BY <1>4 DEF StoreEntry
  <2>4. /\ \A g \in File \ {f} : item'[j][g] = item[j][g]
        /\ item'[j][f].at # "store"
    BY <2>1, <2>3, TaskGoesFacts
  <2> QED BY <1>4, <2>2, <2>4 DEF StoreEntry
<1>5. CASE Poll(j, f)
  BY <1>5, PollFacts DEF Poll, GetStatus
<1>6. CASE Wait(j, f)
  BY <1>0, <1>6 DEF Wait, ItemState, TypeOK
<1>7. CASE GetProcessed(j, f)
  BY <1>0, <1>7 DEF GetProcessed, Upserts, ItemState, TypeOK, Processed
<1>8. CASE TaskRaises(j, f)
  <2>1. /\ \A g \in File \ {f} : item'[j][g] = item[j][g]
        /\ item'[j][f].at = "failed"
    BY <1>8, TaskGoesFacts DEF TaskRaises
  <2>2. \/ job'[j] = job[j]
        \/ job[j].lock = f /\ job'[j] = [job[j] EXCEPT !.lock = None]
    BY <1>8 DEF TaskRaises, TypeOK
  <2> QED BY <1>0, <1>8, <2>1, <2>2 DEF TaskRaises
<1> QED BY <1>1, <1>2, <1>3, <1>4, <1>5, <1>6, <1>7, <1>8 DEF Task

LEMMA TaskPolls ==
  ASSUME TypeOK, WorkflowAssumption, NEW j \in Job, NEW f \in File, Coherent(j),
         Task(j, f) \/ TaskRaises(j, f)
  PROVE  LET i == item'[j][f]
         IN  \/ i.at \in {"queued", "submit", "poll", "wait"}
             \/ i.at \in {"upsert", "store"} /\ i.next # "done"
             => i.polls < MaxPolls
<1> USE DEF TaskAt, Executes
<1>0. item[j][f] \in ItemState
  BY DEF TypeOK
<1> DEFINE i == item[j][f]
<1>9. \/ i.at \in {"queued", "submit", "poll", "wait"}
      \/ i.at \in {"upsert", "store"} /\ i.next # "done"
      => i.polls < MaxPolls
  BY DEF Coherent, PollsLeft
<1>1. CASE Acquire(j, f)
  BY <1>0, <1>1, <1>9, TaskGoesFacts DEF Acquire
<1>2. CASE SubmitFile(j, f)
  <2>1. CASE TaskGoes(j, f, "failed")
    BY <2>1, TaskGoesFacts
  <2>2. CASE Upserts(j, f, "processing", "poll")
    BY <1>0, <1>2, <1>9, <2>2 DEF SubmitFile, Upserts, ItemState, TypeOK
  <2> QED BY <1>2, <2>1, <2>2 DEF SubmitFile
<1>3. CASE LockAndLoad(j, f)
  <2>1. CASE record = None
    BY <1>0, <1>3, <1>9, <2>1, TaskGoesFacts DEF LockAndLoad, ItemState
  <2>2. CASE record # None
    BY <1>3, <1>9, <2>2, LoadFacts DEF LockAndLoad
  <2> QED BY <2>1, <2>2
<1>4. CASE StoreEntry(j, f)
  BY <1>0, <1>4, <1>9, TaskGoesFacts DEF StoreEntry, ItemState
<1>5. CASE Poll(j, f)
  BY <1>5, <1>9, PollFacts
<1>6. CASE Wait(j, f)
  BY <1>0, <1>6, <1>9, WorkflowAssumption DEF Wait, ItemState, TypeOK
<1>7. CASE GetProcessed(j, f)
  BY <1>0, <1>7 DEF GetProcessed, Upserts, ItemState, TypeOK, Processed
<1>8. CASE TaskRaises(j, f)
  BY <1>8, TaskGoesFacts DEF TaskRaises
<1> QED BY <1>1, <1>2, <1>3, <1>4, <1>5, <1>6, <1>7, <1>8 DEF Task

LEMMA TaskCoherent ==
  ASSUME TypeOK, WorkflowAssumption, NoneAssumption, NEW j \in Job, NEW f \in File, Coherent(j),
         Task(j, f) \/ TaskRaises(j, f)
  PROVE  Coherent(j)'
<1>0. job[j] \in JobState /\ job'[j].at = job[j].at /\ job'[j].step = job[j].step
      /\ job'[j].extracts = job[j].extracts /\ job'[j].told = job[j].told
      /\ job'[j].copy = job[j].copy
  <2>1. job[j] \in JobState
    BY DEF TypeOK
  <2>2. job'[j] = job[j] \/ \E l \in File \cup {None} : job'[j] = [job[j] EXCEPT !.lock = l]
    BY TaskSteps
  <2> QED BY <2>1, <2>2 DEF JobState
<1>1. FanOutFirst(j)'
  BY <1>0, TaskSteps DEF FanOutFirst, Coherent
<1>2. StoresWhatIsRead(j)'
  BY <1>0, TaskSteps, NoneAssumption DEF StoresWhatIsRead, Coherent, NoneAssumption
<1>3. PollsLeft(j)'
  BY TaskSteps, TaskPolls DEF PollsLeft, Coherent
<1>4. WantsItsVerdict(j)'
  BY <1>0, TaskSteps DEF WantsItsVerdict, Coherent
<1> QED BY <1>1, <1>2, <1>3, <1>4 DEF Coherent

-----------------------------------------------------------------------------
(* The executors of job j.                                                 *)

LEMMA GoesFacts ==
  ASSUME TypeOK, NEW j \in Job, NEW at, Goes(j, at)
  PROVE  /\ job'[j].at = at /\ job'[j].step = job[j].step
         /\ job'[j].extracts = job[j].extracts /\ job'[j].copy = job[j].copy
         /\ job'[j].lock = job[j].lock /\ job'[j].told = job[j].told
<1>1. job[j] \in JobState /\ job'[j] = [job[j] EXCEPT !.at = at]
  BY DEF Goes, TypeOK
<1> QED BY <1>1 DEF JobState

(* The steps of an executor that is past the fan-out.                      *)
LEMMA LaterSteps ==
  ASSUME TypeOK, NEW j \in Job,
         Fetch(j) \/ Screen(j) \/ Answer(j) \/ LoadClaim(j) \/ SaveClaim(j)
  PROVE  /\ job[j].at \in {"fetch", "agent", "load", "save"} /\ item' = item /\ consumer' = consumer
         /\ job'[j].at \in {"agent", "load", "save", "done", "failed"}
         /\ job'[j].lock = job[j].lock
         /\ job'[j].at = "save" => job'[j].copy = record /\ record # None
<1>0. job[j] \in JobState
  BY DEF TypeOK
<1>1. CASE Fetch(j)
  <2>1. PICK got \in SUBSET Usable(j) :
          job'[j] = [job[j] EXCEPT !.extracts = got,
                                   !.at = IF got = {} THEN "done" ELSE "agent"]
    BY <1>0, <1>1 DEF Fetch, TypeOK, JobState
  <2>2. job'[j].at \in {"agent", "done"} /\ job'[j].lock = job[j].lock
    BY <1>0, <2>1 DEF JobState
  <2> QED BY <1>1, <2>2 DEF Fetch, Executes
<1>2. CASE Screen(j)
  BY <1>2, GoesFacts DEF Screen, Executes
<1>3. CASE Answer(j)
  BY <1>3, GoesFacts DEF Answer, Executes
<1>4. CASE LoadClaim(j)
  <2>1. job'[j] = [job[j] EXCEPT !.copy = record,
                                 !.at = IF record = None THEN "done" ELSE "save"]
    BY <1>0, <1>4 DEF LoadClaim, TypeOK, JobState
  <2>2. /\ job'[j].at = IF record = None THEN "done" ELSE "save"
        /\ job'[j].copy = record /\ job'[j].lock = job[j].lock
    BY <1>0, <2>1 DEF JobState
  <2> QED BY <1>4, <2>2 DEF LoadClaim, Executes
<1>5. CASE SaveClaim(j)
  <2>1. PICK at \in {"done", "failed"} : job'[j] = [job[j] EXCEPT !.at = at, !.copy = None]
    BY <1>0, <1>5 DEF SaveClaim, TypeOK, JobState
  <2> QED BY <1>0, <1>5, <2>1 DEF SaveClaim, Executes, JobState
<1> QED BY <1>1, <1>2, <1>3, <1>4, <1>5

LEMMA ExecutorCoherent ==
  ASSUME TypeOK, WorkflowAssumption, NoneAssumption, NEW j \in Job, Coherent(j),
         Begin(j) \/ Execute(j) \/ ExecutorRaises(j) \/ Kill(j)
  PROVE  Coherent(j)'
<1>0. job[j] \in JobState /\ consumer[j] \in ConsumerState
  BY DEF TypeOK
<1> DEFINE Early == {"new", "lookup", "remove", "add", "fanout"}
<1>1. CASE Begin(j)
  <2>1. consumer'[j] = [consumer[j] EXCEPT !.at = "waiting"]
    BY <1>1 DEF Begin, TypeOK
  <2>2. /\ consumer'[j].at = "waiting" /\ consumer'[j].want = consumer[j].want
        /\ consumer'[j].verdict = consumer[j].verdict
    BY <1>0, <2>1 DEF ConsumerState
  <2>3. job'[j].at = "lookup"
    BY <1>1, GoesFacts DEF Begin
  <2>4. FanOutFirst(j)'
    BY <1>1, <2>2, <2>3, GoesFacts DEF Begin, Coherent, FanOutFirst
  <2>5. StoresWhatIsRead(j)' /\ PollsLeft(j)'
    BY <1>1, <2>2, <2>3, GoesFacts DEF Begin, Coherent, StoresWhatIsRead, PollsLeft
  <2>6. WantsItsVerdict(j)'
    BY <1>1, <2>2, <2>3, NoneAssumption
       DEF Begin, Coherent, WantsItsVerdict, FanOutFirst, NoneAssumption
  <2> QED BY <2>4, <2>5, <2>6 DEF Coherent
<1>2. CASE LookupClaim(j) \/ RemoveClaim(j) \/ AddClaim(j) \/ FanIn(j)
  <2>1. /\ item' = item /\ consumer' = consumer
        /\ job[j].at \in {"lookup", "remove", "add", "fanout"}
    BY <1>2 DEF LookupClaim, RemoveClaim, AddClaim, FanIn, Executes
  <2>2. /\ job'[j].at \in {"remove", "add", "fanout", "done", "failed"}
        /\ job'[j].at \in {"remove", "add"} => job[j].at \in {"lookup", "remove"}
        /\ job'[j].step = job[j].step /\ job'[j].extracts = job[j].extracts
        /\ job'[j].lock = job[j].lock /\ job'[j].told = job[j].told
    BY <1>2, GoesFacts DEF LookupClaim, RemoveClaim, AddClaim, FanIn, Executes
  <2>3. FanOutFirst(j)'
    BY <2>1, <2>2 DEF Coherent, FanOutFirst
  <2>4. StoresWhatIsRead(j)' /\ PollsLeft(j)'
    BY <2>1, <2>2 DEF Coherent, StoresWhatIsRead, PollsLeft
  <2>5. WantsItsVerdict(j)'
    BY <2>1, <2>2, NoneAssumption DEF Coherent, WantsItsVerdict, FanOutFirst, NoneAssumption
  <2> QED BY <2>3, <2>4, <2>5 DEF Coherent
<1>3. CASE Fetch(j) \/ Screen(j) \/ Answer(j) \/ LoadClaim(j) \/ SaveClaim(j)
  <2>1. FanOutFirst(j)'
    BY <1>3, LaterSteps DEF Coherent, FanOutFirst
  <2>2. StoresWhatIsRead(j)' /\ PollsLeft(j)'
    BY <1>3, LaterSteps DEF Coherent, StoresWhatIsRead, PollsLeft
  <2>3. WantsItsVerdict(j)'
    BY <1>3, LaterSteps DEF Coherent, WantsItsVerdict
  <2> QED BY <2>1, <2>2, <2>3 DEF Coherent
<1>4. CASE ExecutorRaises(j)
  <2>1. job'[j] = [job[j] EXCEPT !.at = "failed", !.copy = None]
    BY <1>0, <1>4 DEF ExecutorRaises, TypeOK, JobState
  <2>2. /\ job[j].at \in {"lookup", "remove", "add", "fetch", "agent", "load", "save"}
        /\ item' = item /\ consumer' = consumer
        /\ job'[j].at = "failed" /\ job'[j].lock = job[j].lock
    BY <1>0, <1>4, <2>1 DEF ExecutorRaises, Executes, JobState
  <2>3. FanOutFirst(j)'
    BY <2>2 DEF Coherent, FanOutFirst
  <2>4. StoresWhatIsRead(j)' /\ PollsLeft(j)'
    BY <2>2 DEF Coherent, StoresWhatIsRead, PollsLeft
  <2>5. WantsItsVerdict(j)'
    BY <2>2 DEF Coherent, WantsItsVerdict
  <2> QED BY <2>3, <2>4, <2>5 DEF Coherent
<1>5. CASE Kill(j)
  <2>1. job'[j] = [NewJob EXCEPT !.at = "killed"] /\ item'[j] = [f \in File |-> NewItem]
    BY <1>5 DEF Kill, TypeOK
  <2>2. consumer'[j] = [at |-> "over", want |-> None, copy |-> None, verdict |-> "killed"]
    BY <1>5 DEF Kill, TypeOK
  <2>3. job'[j].at = "killed"
    BY <2>1 DEF NewJob
  <2>4. \A f \in File : item'[j][f].at = "queued" /\ item'[j][f].polls = 0
    BY <2>1 DEF NewItem
  <2>5. FanOutFirst(j)'
    BY <2>2, <2>3 DEF FanOutFirst
  <2>6. StoresWhatIsRead(j)'
    BY <2>2, <2>3, <2>4 DEF StoresWhatIsRead
  <2>7. PollsLeft(j)'
    BY <2>4, WorkflowAssumption DEF PollsLeft, WorkflowAssumption
  <2>8. WantsItsVerdict(j)'
    BY <2>2, <2>3, NoneAssumption
       DEF WantsItsVerdict, NoneAssumption, ClaimStatus, Final, Executor
  <2> QED BY <2>5, <2>6, <2>7, <2>8 DEF Coherent
<1> QED BY <1>1, <1>2, <1>3, <1>4, <1>5 DEF Execute

-----------------------------------------------------------------------------
(* The event loop of job j.                                                *)

LEMMA ProceedsFacts ==
  ASSUME TypeOK, NEW j \in Job, Proceeds(j)
  PROVE  LET c == consumer[j]
             d == consumer'[j]
         IN  /\ d.verdict = c.verdict /\ d.at \in {"load", "waiting", "over"}
             /\ c.want = "Failed" => d.at = "load" /\ d.want = "comment"
             /\ c.want \in {"comment", "Completed"} => d.at = "load" /\ d.want = "time"
             /\ c.want = "time" => d.at = "over" /\ d.want = None
             /\ c.want \notin {"Failed", "comment", "Completed", "time"} =>
                  d.at = "waiting" /\ d.want = None
<1> DEFINE c == consumer[j]
           on(what) == [c EXCEPT !.at = "load", !.want = what, !.copy = None]
           to(at) == [c EXCEPT !.at = at, !.want = None, !.copy = None]
<1>1. c \in ConsumerState
  BY DEF TypeOK
<1>2. \A what : on(what).at = "load" /\ on(what).want = what /\ on(what).verdict = c.verdict
  BY <1>1 DEF ConsumerState
<1>3. \A at : to(at).at = at /\ to(at).want = None /\ to(at).verdict = c.verdict
  BY <1>1 DEF ConsumerState
<1>4. /\ c.want = "Failed" => consumer'[j] = on("comment")
      /\ c.want \in {"comment", "Completed"} => consumer'[j] = on("time")
      /\ c.want = "time" => consumer'[j] = to("over")
      /\ c.want \notin {"Failed", "comment", "Completed", "time"} => consumer'[j] = to("waiting")
  BY DEF Proceeds, TypeOK
<1> HIDE DEF on, to
<1> QED BY <1>2, <1>3, <1>4

LEMMA BreaksFacts ==
  ASSUME TypeOK, NEW j \in Job, Breaks(j)
  PROVE  LET d == consumer'[j]
         IN  /\ d.verdict = "raised"
             /\ \/ d.at = "over" /\ d.want = None
                \/ d.at = "load" /\ d.want = "time"
<1>1. consumer[j] \in ConsumerState
  BY DEF TypeOK
<1> DEFINE c == [consumer[j] EXCEPT !.verdict = "raised", !.copy = None]
           over == [c EXCEPT !.at = "over", !.want = None]
           last == [c EXCEPT !.at = "load", !.want = "time"]
<1>2. over.at = "over" /\ over.want = None /\ over.verdict = "raised"
  BY <1>1 DEF ConsumerState
<1>3. last.at = "load" /\ last.want = "time" /\ last.verdict = "raised"
  BY <1>1 DEF ConsumerState
<1>4. consumer'[j] \in {over, last}
  BY DEF Breaks, TypeOK
<1> HIDE DEF over, last
<1> QED BY <1>2, <1>3, <1>4

(* What an update under way leads to.                                      *)
LEMMA UpdateCoherent ==
  ASSUME TypeOK, NoneAssumption, NEW j \in Job, Coherent(j),
         consumer[j].at \in {"load", "store"}, Proceeds(j) \/ Breaks(j),
         UNCHANGED <<job, item>>
  PROVE  Coherent(j)'
<1>0. consumer[j] \in ConsumerState
  BY DEF TypeOK
<1>1. FanOutFirst(j)'
  BY ProceedsFacts, BreaksFacts DEF Coherent, FanOutFirst
<1>2. StoresWhatIsRead(j)' /\ PollsLeft(j)'
  BY ProceedsFacts, BreaksFacts, NoneAssumption
     DEF Coherent, StoresWhatIsRead, PollsLeft, NoneAssumption
<1>3. CASE Proceeds(j)
  <2>1. consumer[j].want \in Executor \cup {"Failed", "comment", "Completed", "time"}
    BY <1>0 DEF Coherent, StoresWhatIsRead, ConsumerState, Final
  <2>2. WantsItsVerdict(j)'
    BY <1>3, <2>1, ProceedsFacts, NoneAssumption
       DEF Coherent, WantsItsVerdict, NoneAssumption, ClaimStatus, Final, Executor
  <2> QED BY <1>1, <1>2, <2>2 DEF Coherent
<1>4. CASE Breaks(j)
  <2>1. WantsItsVerdict(j)'
    BY <1>4, BreaksFacts, NoneAssumption
       DEF WantsItsVerdict, NoneAssumption, ClaimStatus, Final, Executor
  <2> QED BY <1>1, <1>2, <2>1 DEF Coherent
<1> QED BY <1>3, <1>4

LEMMA WantsFacts ==
  ASSUME TypeOK, NEW j \in Job, NEW what, NEW v
  PROVE  /\ Wants(j, what).at = "load" /\ Wants(j, what).want = what
         /\ Wants(j, what).verdict = consumer[j].verdict
         /\ [Wants(j, what) EXCEPT !.verdict = v].at = "load"
         /\ [Wants(j, what) EXCEPT !.verdict = v].want = what
         /\ [Wants(j, what) EXCEPT !.verdict = v].verdict = v
<1>1. consumer[j] \in ConsumerState
  BY DEF TypeOK
<1> QED BY <1>1 DEF Wants, ConsumerState

LEMMA ConsumerCoherent ==
  ASSUME TypeOK, NoneAssumption, NEW j \in Job, Coherent(j), Consume(j) \/ UpdateRaises(j)
  PROVE  Coherent(j)'
<1>0. job[j] \in JobState /\ consumer[j] \in ConsumerState
  BY DEF TypeOK
<1> USE DEF Listens
<1>1. CASE ExecutorInvoked(j)
  <2>1. consumer'[j] = Wants(j, job[j].step) /\ job'[j] = [job[j] EXCEPT !.told = TRUE]
    BY <1>1 DEF ExecutorInvoked, TypeOK
  <2>2. /\ job'[j].at = job[j].at /\ job'[j].lock = job[j].lock /\ job'[j].copy = job[j].copy
        /\ job[j].step \in Executor
    BY <1>0, <2>1 DEF JobState
  <2>3. FanOutFirst(j)'
    BY <1>1, <2>1, <2>2, WantsFacts DEF ExecutorInvoked, Coherent, FanOutFirst
  <2>4. StoresWhatIsRead(j)' /\ PollsLeft(j)'
    BY <1>1, <2>1, <2>2, WantsFacts, NoneAssumption
       DEF ExecutorInvoked, Coherent, StoresWhatIsRead, PollsLeft, NoneAssumption, ClaimStatus
  <2>5. WantsItsVerdict(j)'
    BY <1>1, <2>1, <2>2, WantsFacts, NoneAssumption
       DEF ExecutorInvoked, Coherent, WantsItsVerdict, NoneAssumption, Executor
  <2> QED BY <2>3, <2>4, <2>5 DEF Coherent
<1>2. CASE WorkflowFailed(j)
  <2>1. consumer'[j] = [Wants(j, "Failed") EXCEPT !.verdict = "failed"]
    BY <1>2 DEF WorkflowFailed, TypeOK
  <2>2. FanOutFirst(j)'
    BY <1>2, <2>1, WantsFacts DEF WorkflowFailed, Coherent, FanOutFirst
  <2>3. StoresWhatIsRead(j)' /\ PollsLeft(j)'
    BY <1>2, <2>1, WantsFacts, NoneAssumption
       DEF WorkflowFailed, Coherent, StoresWhatIsRead, PollsLeft, NoneAssumption, ClaimStatus, Final
  <2>4. WantsItsVerdict(j)'
    <3>1. job'[j].at = "failed"
      BY <1>2 DEF WorkflowFailed
    <3> QED BY <2>1, <3>1, WantsFacts DEF WantsItsVerdict, Executor
  <2> QED BY <2>2, <2>3, <2>4 DEF Coherent
<1>3. CASE WorkflowOutput(j)
  <2>1. consumer'[j] = [Wants(j, "Completed") EXCEPT !.verdict = "returned"]
    BY <1>3 DEF WorkflowOutput, TypeOK
  <2>2. FanOutFirst(j)'
    BY <1>3, <2>1, WantsFacts DEF WorkflowOutput, Coherent, FanOutFirst
  <2>3. StoresWhatIsRead(j)' /\ PollsLeft(j)'
    BY <1>3, <2>1, WantsFacts, NoneAssumption
       DEF WorkflowOutput, Coherent, StoresWhatIsRead, PollsLeft, NoneAssumption, ClaimStatus, Final
  <2>4. WantsItsVerdict(j)'
    <3>1. job'[j].at = "done"
      BY <1>3 DEF WorkflowOutput
    <3> QED BY <2>1, <3>1, WantsFacts DEF WantsItsVerdict, Executor
  <2> QED BY <2>2, <2>3, <2>4 DEF Coherent
<1>4. CASE NextExecutor(j)
  <2>1. job'[j] = [job[j] EXCEPT !.step = Successor(job[j].step), !.at = "fetch",
                                 !.extracts = {}, !.told = FALSE]
    BY <1>4 DEF NextExecutor, TypeOK
  <2>2. job'[j].at = "fetch" /\ job'[j].lock = job[j].lock
    BY <1>0, <2>1 DEF JobState
  <2>3. FanOutFirst(j)'
    BY <1>4, <2>2 DEF NextExecutor, FanOutFirst
  <2>4. StoresWhatIsRead(j)' /\ PollsLeft(j)'
    BY <1>4, <2>2 DEF NextExecutor, Coherent, StoresWhatIsRead, PollsLeft
  <2>5. WantsItsVerdict(j)'
    BY <1>4, <2>2, NoneAssumption DEF NextExecutor, Coherent, WantsItsVerdict, NoneAssumption
  <2> QED BY <2>3, <2>4, <2>5 DEF Coherent
<1>5. CASE Load(j)
  <2>1. CASE record = None
    BY <1>5, <2>1, UpdateCoherent DEF Load
  <2>2. CASE record # None
    <3>1. consumer'[j] = [consumer[j] EXCEPT !.at = "store", !.copy = record]
      BY <1>0, <1>5, <2>2 DEF Load, TypeOK, ConsumerState
    <3>2. /\ consumer'[j].at = "store" /\ consumer'[j].copy = record
          /\ consumer'[j].want = consumer[j].want /\ consumer'[j].verdict = consumer[j].verdict
      BY <1>0, <3>1 DEF ConsumerState
    <3>3. FanOutFirst(j)'
      BY <1>5, <3>2 DEF Load, Coherent, FanOutFirst
    <3>4. StoresWhatIsRead(j)' /\ PollsLeft(j)'
      BY <1>5, <2>2, <3>2 DEF Load, Coherent, StoresWhatIsRead, PollsLeft
    <3>5. WantsItsVerdict(j)'
      BY <1>5, <3>2 DEF Load, Coherent, WantsItsVerdict
    <3> QED BY <3>3, <3>4, <3>5 DEF Coherent
  <2> QED BY <2>1, <2>2
<1>6. CASE Store(j)
  BY <1>6, UpdateCoherent DEF Store
<1>7. CASE UpdateRaises(j)
  BY <1>7, UpdateCoherent DEF UpdateRaises
<1> QED BY <1>1, <1>2, <1>3, <1>4, <1>5, <1>6, <1>7 DEF Consume

-----------------------------------------------------------------------------
(* The record of a job that alone has written it.                          *)

(* A write of job j to its own record takes effect.                        *)
LEMMA OwnReplace ==
  ASSUME NEW j \in Job, NEW new, Replace(j, new), j \in foreign \/ Own(j), j \notin foreign'
  PROVE  j \notin foreign /\ Own(j) /\ record' = new
BY DEF Replace, OthersSee, Own, OwnRecord

LEMMA TaskOwn ==
  ASSUME TypeOK, NoneAssumption, NEW j \in Job, NEW f \in File,
         Coherent(j), j \in foreign \/ Own(j), j \notin foreign',
         Task(j, f) \/ TaskRaises(j, f)
  PROVE  Own(j)'
<1>0. /\ job[j] \in JobState /\ item[j][f] \in ItemState
      /\ job'[j].at = "fanout" /\ job'[j].extracts = {}
      /\ consumer' = consumer /\ consumer[j].at # "store" /\ consumer[j].verdict # "failed"
      /\ \A g \in File \ {f} : item'[j][g] = item[j][g]
  <2>1. job[j] \in JobState /\ item[j][f] \in ItemState
    BY DEF TypeOK
  <2>2. job'[j] = job[j] \/ \E l \in File \cup {None} : job'[j] = [job[j] EXCEPT !.lock = l]
    BY TaskSteps
  <2>3. job'[j].at = job[j].at /\ job'[j].extracts = job[j].extracts
    BY <2>1, <2>2 DEF JobState
  <2> QED BY <2>1, <2>3, TaskSteps, NoneAssumption DEF Coherent, FanOutFirst, NoneAssumption
<1> SUFFICES /\ record' # None /\ record'.summary = {} /\ record'.gaps = {}
             /\ record'.status \notin Final
             /\ \A g \in File : /\ item'[j][g].at = "done" => record'.docs[g] = item'[j][g].status
                                /\ item'[j][g].at = "store" => item'[j][g].copy = record'
  <2> DEFINE Now == /\ record' # None /\ record'.summary = {} /\ record'.gaps = {}
                    /\ record'.status \notin Final
                    /\ \A g \in File : /\ item'[j][g].at = "done" => record'.docs[g] = item'[j][g].status
                                       /\ item'[j][g].at = "store" => item'[j][g].copy = record'
  <2>1. ASSUME Now PROVE OwnRecord(j)'
    BY <1>0, <2>1 DEF OwnRecord, OfListed
  <2>2. ASSUME Now PROVE OwnCopies(j)'
    BY <1>0, <2>2 DEF OwnCopies
  <2>3. ASSUME Now PROVE OwnVerdict(j)'
    BY <1>0, <2>3 DEF OwnVerdict
  <2> QED BY <2>1, <2>2, <2>3 DEF Own
<1>1. CASE StoreEntry(j, f)
  <2> DEFINE new == [item[j][f].copy EXCEPT !.docs[f] = item[j][f].status]
  <2>1. record' = new /\ Own(j)
    BY <1>1, OwnReplace DEF StoreEntry
  <2>2. item[j][f].copy = record /\ job[j].at = "fanout" /\ record \in Claim
    BY <1>1, <2>1 DEF StoreEntry, TaskAt, Executes, Own, OwnRecord, OwnCopies, TypeOK
  <2>3. /\ record'.summary = {} /\ record'.gaps = {} /\ record'.status = record.status
        /\ record' \in Claim
        /\ record'.docs = [record.docs EXCEPT ![f] = item[j][f].status]
    <3>1. item[j][f].status \in EntryStatus
      BY <1>0 DEF ItemState
    <3>2. record' \in Claim
      BY <2>1, <2>2, <3>1, EntryType
    <3> QED BY <2>1, <2>2, <3>2 DEF Own, OwnCopies, Claim
  <2>4. record.status \notin Final
    BY <2>1, <2>2 DEF Own, OwnVerdict
  <2>5. PICK at \in {item[j][f].next, "failed"} : TaskGoes(j, f, at)
    BY <1>1 DEF StoreEntry
  <2>6. \A g \in File : item'[j][g].at = "done" => record'.docs[g] = item'[j][g].status
    <3> TAKE g \in File
    <3>1. CASE g = f
      <4>1. record'.docs[f] = item[j][f].status
        BY <2>2, <2>3 DEF Claim
      <4> QED BY <3>1, <4>1, <2>5, TaskGoesFacts
    <3>2. CASE g # f
      BY <1>0, <2>1, <2>2, <2>3, <3>2 DEF Own, OwnRecord, Claim
    <3> QED BY <3>1, <3>2
  <2>7. \A g \in File : item'[j][g].at # "store"
    <3> TAKE g \in File
    <3>1. item[j][f].next # "store"
      BY <1>0 DEF ItemState
    <3>2. CASE g = f
      BY <2>5, <3>1, <3>2, TaskGoesFacts
    <3>3. CASE g # f
      BY <1>0, <1>1, <3>3 DEF StoreEntry, TaskAt, Coherent, StoresWhatIsRead
    <3> QED BY <3>2, <3>3
  <2> QED BY <2>3, <2>4, <2>6, <2>7, NoneAssumption DEF NoneAssumption
<1>2. CASE ~StoreEntry(j, f)
  <2>1. record' = record /\ foreign' = foreign
    BY <1>2 DEF Task, TaskRaises, Acquire, SubmitFile, LockAndLoad, Poll, Wait, GetProcessed,
                GetStatus, Processed
  <2>2. Own(j) /\ job[j].at = "fanout"
    BY <2>1, TaskSteps
  <2>3. /\ record # None /\ record.summary = {} /\ record.gaps = {} /\ record.status \notin Final
        /\ \A g \in File : /\ item[j][g].at = "done" => record.docs[g] = item[j][g].status
                           /\ item[j][g].at = "store" => item[j][g].copy = record
    BY <2>2 DEF Own, OwnRecord, OwnCopies, OwnVerdict
  <2>4. item'[j][f].at # "done" /\ (item'[j][f].at = "store" => item'[j][f].copy = record)
    <3> USE DEF TaskAt, Executes
    <3>1. CASE Acquire(j, f) \/ TaskRaises(j, f)
      BY <3>1, TaskGoesFacts DEF Acquire, TaskRaises
    <3>2. CASE SubmitFile(j, f)
      <4>1. CASE TaskGoes(j, f, "failed")
        BY <4>1, TaskGoesFacts
      <4>2. CASE Upserts(j, f, "processing", "poll")
        BY <1>0, <4>2 DEF Upserts, ItemState, TypeOK
      <4> QED BY <3>2, <4>1, <4>2 DEF SubmitFile
    <3>3. CASE LockAndLoad(j, f)
      BY <2>3, <3>3, LoadFacts DEF LockAndLoad
    <3>4. CASE Poll(j, f)
      BY <3>4, PollFacts
    <3>5. CASE Wait(j, f)
      BY <1>0, <3>5 DEF Wait, ItemState, TypeOK
    <3>6. CASE GetProcessed(j, f)
      BY <1>0, <3>6 DEF GetProcessed, Upserts, ItemState, TypeOK, Processed
    <3> QED BY <1>2, <3>1, <3>2, <3>3, <3>4, <3>5, <3>6 DEF Task
  <2> QED BY <1>0, <2>1, <2>3, <2>4
<1> QED BY <1>1, <1>2

(* The executors other than the fan-out.                                   *)
LEMMA ExecutorOwn ==
  ASSUME TypeOK, NoneAssumption, NEW j \in Job,
         Coherent(j), j \in foreign \/ Own(j), j \notin foreign',
         Begin(j) \/ Execute(j) \/ ExecutorRaises(j) \/ Kill(j)
  PROVE  Own(j)'
<1>0. job[j] \in JobState /\ consumer[j] \in ConsumerState
  BY DEF TypeOK
<1> USE DEF Executes
<1>1. CASE Begin(j) \/ LookupClaim(j) \/ RemoveClaim(j)
  BY <1>1 DEF Begin, LookupClaim, RemoveClaim, Remove, OthersSee, Own, OwnRecord,
       Coherent, FanOutFirst
<1>2. CASE AddClaim(j)
  <2>1. j \notin foreign => job[j].at # "add"
    BY DEF Own, OwnRecord
  <2>2. Add(j, NewClaim("document_processing")) /\ (Goes(j, "fanout") \/ Goes(j, "failed"))
    BY <1>2, <2>1 DEF AddClaim
  <2>3. /\ record' # None /\ record'.docs = [f \in File |-> None]
        /\ record'.summary = {} /\ record'.gaps = {} /\ record'.status \notin Final
    <3>1. record' = NewClaim("document_processing")
      BY <2>2 DEF Add
    <3>2. record' # None
      BY <3>1, NewClaimType, NoneAssumption DEF NoneAssumption, ClaimStatus, Executor
    <3> QED BY <3>1, <3>2 DEF NewClaim, Final
  <2>4. /\ job'[j].at \in {"fanout", "failed"} /\ job'[j].extracts = {}
        /\ consumer' = consumer /\ consumer[j].at \in {"off", "waiting"}
        /\ consumer[j].verdict = None
        /\ \A f \in File : item'[j][f].at = "queued"
    BY <1>2, <2>2, GoesFacts DEF AddClaim, Coherent, FanOutFirst, NewItem
  <2>5. OwnRecord(j)'
    BY <2>3, <2>4 DEF OwnRecord, OfListed
  <2>6. OwnCopies(j)'
    BY <2>3, <2>4 DEF OwnCopies
  <2>7. OwnVerdict(j)'
    BY <2>3, <2>4, NoneAssumption DEF OwnVerdict, NoneAssumption
  <2> QED BY <2>5, <2>6, <2>7 DEF Own
<1>3. CASE SaveClaim(j)
  <2> DEFINE c == job[j].copy
             new == IF job[j].step = "summarizing"
                    THEN [c EXCEPT !.summary = job[j].extracts]
                    ELSE [c EXCEPT !.gaps = job[j].extracts]
  <2>1. record' = new /\ Own(j)
    BY <1>3, OwnReplace DEF SaveClaim
  <2>2. c \in Claim /\ job[j].at = "save" /\ record \in Claim
    BY <1>0, <1>3, <2>1 DEF SaveClaim, Coherent, StoresWhatIsRead, JobState, Own, OwnRecord, TypeOK
  <2>3. c.docs = record.docs /\ c.status \notin Final /\ OfListed(c)
    BY <2>1, <2>2 DEF Own, OwnCopies
  <2>4. /\ record'.docs = c.docs /\ record'.status = c.status
        /\ record'.summary \cup record'.gaps \subseteq c.summary \cup c.gaps \cup job[j].extracts
    BY <2>1, <2>2 DEF Claim
  <2>5. record' # None
    <3>1. job[j].extracts \subseteq File
      BY <1>0 DEF JobState
    <3>2. record' \in Claim
      BY <2>1, <2>2, <3>1 DEF Claim
    <3> QED BY <3>2, NoneAssumption DEF NoneAssumption
  <2>6. /\ job'[j].at \in {"done", "failed"} /\ job'[j].extracts = job[j].extracts
        /\ item' = item /\ consumer' = consumer
    <3>1. PICK at \in {"done", "failed"} : job'[j] = [job[j] EXCEPT !.at = at, !.copy = None]
      BY <1>0, <1>3 DEF SaveClaim, TypeOK, JobState
    <3> QED BY <1>0, <1>3, <3>1 DEF SaveClaim, JobState
  <2>7. Listed' = Listed /\ Usable(j)' = Usable(j)
    BY <2>3, <2>4, <2>6 DEF Listed, Usable
  <2>8. job[j].extracts \subseteq Listed
    BY <2>1 DEF Own, OwnRecord, Usable, Listed
  <2>9. OwnRecord(j)'
    BY <2>1, <2>3, <2>4, <2>5, <2>6, <2>7, <2>8 DEF Own, OwnRecord, OfListed
  <2>10. record.status \notin Final /\ consumer[j].verdict # "failed"
    BY <2>1, <2>2 DEF Own, OwnVerdict, Coherent, WantsItsVerdict
  <2>11. OwnCopies(j)'
    BY <2>1, <2>3, <2>4, <2>6, <2>7, <2>10 DEF Own, OwnCopies, OfListed
  <2>12. OwnVerdict(j)'
    BY <2>3, <2>4, <2>6, <2>10 DEF OwnVerdict
  <2> QED BY <2>9, <2>11, <2>12 DEF Own
<1>4. CASE FanIn(j) \/ Fetch(j) \/ Screen(j) \/ Answer(j) \/ LoadClaim(j) \/ ExecutorRaises(j)
  <2>1. /\ record' = record /\ item' = item /\ consumer' = consumer /\ foreign' = foreign
        /\ job[j].at \notin {"done", "failed", "killed"}
    BY <1>4 DEF FanIn, Fetch, Screen, Answer, LoadClaim, ExecutorRaises
  <2>2. Own(j)
    BY <2>1
  <2>3. /\ job'[j].at \in {"agent", "load", "save", "done", "failed"}
        /\ job'[j].at = "save" => job'[j].copy = record
    <3>1. CASE FanIn(j)
      BY <3>1, GoesFacts DEF FanIn
    <3>2. CASE ExecutorRaises(j)
      <4>1. job'[j] = [job[j] EXCEPT !.at = "failed", !.copy = None]
        BY <1>0, <3>2 DEF ExecutorRaises, TypeOK, JobState
      <4> QED BY <1>0, <4>1 DEF JobState
    <3> QED BY <1>4, <3>1, <3>2, LaterSteps
  <2>4. job'[j].extracts \subseteq Usable(j)
    <3>1. CASE Fetch(j)
      <4>1. PICK got \in SUBSET Usable(j) :
              job'[j] = [job[j] EXCEPT !.extracts = got,
                                       !.at = IF got = {} THEN "done" ELSE "agent"]
        BY <1>0, <3>1 DEF Fetch, TypeOK, JobState
      <4> QED BY <1>0, <4>1 DEF JobState
    <3>2. CASE ~Fetch(j)
      <4>1. CASE FanIn(j) \/ Screen(j) \/ Answer(j)
        BY <2>2, <4>1, GoesFacts DEF FanIn, Screen, Answer, Own, OwnRecord
      <4>2. CASE LoadClaim(j)
        <5>1. job'[j] = [job[j] EXCEPT !.copy = record,
                                       !.at = IF record = None THEN "done" ELSE "save"]
          BY <1>0, <4>2 DEF LoadClaim, TypeOK, JobState
        <5> QED BY <1>0, <2>2, <5>1 DEF JobState, Own, OwnRecord
      <4>3. CASE ExecutorRaises(j)
        <5>1. job'[j] = [job[j] EXCEPT !.at = "failed", !.copy = None]
          BY <1>0, <4>3 DEF ExecutorRaises, TypeOK, JobState
        <5> QED BY <1>0, <2>2, <5>1 DEF JobState, Own, OwnRecord
      <4> QED BY <1>4, <3>2, <4>1, <4>2, <4>3
    <3> QED BY <3>1, <3>2
  <2>5. Listed' = Listed /\ Usable(j)' = Usable(j)
    BY <2>1 DEF Listed, Usable
  <2>6. record.status \notin Final /\ consumer[j].verdict # "failed"
    BY <2>1, <2>2 DEF Own, OwnVerdict, Coherent, WantsItsVerdict
  <2>7. OwnRecord(j)'
    BY <2>1, <2>2, <2>3, <2>4, <2>5 DEF Own, OwnRecord, OfListed
  <2>8. OwnCopies(j)'
    <3>1. OfListed(record)
      BY <2>2 DEF Own, OwnRecord
    <3> QED BY <2>1, <2>2, <2>3, <2>5, <2>6, <3>1 DEF Own, OwnCopies, OfListed
  <2>9. OwnVerdict(j)'
    BY <2>1, <2>6 DEF OwnVerdict
  <2> QED BY <2>7, <2>8, <2>9 DEF Own
<1>5. CASE Kill(j)
  <2>1. /\ job'[j] = [NewJob EXCEPT !.at = "killed"] /\ item'[j] = [f \in File |-> NewItem]
        /\ record' = record /\ foreign' = foreign
    BY <1>5 DEF Kill, TypeOK
  <2>2. consumer'[j] = [at |-> "over", want |-> None, copy |-> None, verdict |-> "killed"]
    BY <1>5 DEF Kill, TypeOK
  <2>3. job'[j].at = "killed" /\ job'[j].extracts = {}
    BY <2>1 DEF NewJob
  <2>4. \A f \in File : item'[j][f].at = "queued"
    BY <2>1 DEF NewItem
  <2>5. Own(j) /\ Listed' = Listed
    BY <2>1 DEF Listed
  <2>6. OwnRecord(j)'
    BY <2>1, <2>3, <2>4, <2>5 DEF Own, OwnRecord, OfListed
  <2>7. OwnCopies(j)' /\ OwnVerdict(j)'
    BY <2>2, <2>3 DEF OwnCopies, OwnVerdict
  <2> QED BY <2>6, <2>7 DEF Own
<1> QED BY <1>1, <1>2, <1>3, <1>4, <1>5 DEF Execute

(* The event loop.                                                         *)
LEMMA ConsumerOwn ==
  ASSUME TypeOK, NoneAssumption, NEW j \in Job,
         Coherent(j), j \in foreign \/ Own(j), j \notin foreign',
         Consume(j) \/ UpdateRaises(j)
  PROVE  Own(j)'
<1>0. job[j] \in JobState /\ consumer[j] \in ConsumerState
  BY DEF TypeOK
<1>1. CASE Store(j)
  <2> DEFINE c == consumer[j].copy
             want == consumer[j].want
  <2>1. record' = Updated(c, want) /\ Own(j)
    BY <1>1, OwnReplace DEF Store
  <2>2. /\ c \in Claim /\ record \in Claim /\ consumer[j].at = "store"
        /\ want \in Executor \cup Final \cup {"comment", "time"}
        /\ job' = job /\ item' = item
    BY <1>0, <1>1, <2>1
       DEF Store, Coherent, StoresWhatIsRead, ConsumerState, Own, OwnRecord, TypeOK
  <2>3. c.docs = record.docs /\ OfListed(c) /\ (c.status \in Final => c = record)
    BY <2>1, <2>2 DEF Own, OwnCopies
  <2>4. /\ record' \in Claim /\ record'.docs = c.docs
        /\ record'.summary = c.summary /\ record'.gaps = c.gaps
        /\ want = "comment" => record'.comment /\ record'.status = c.status
        /\ want = "time" => record' = c
        /\ want \notin {"comment", "time"} => record'.status = want
    BY <2>1, <2>2 DEF Updated, Claim, ClaimStatus
  <2>5. Listed' = Listed /\ Usable(j)' = Usable(j)
    BY <2>2, <2>3, <2>4 DEF Listed, Usable
  <2>6. OwnRecord(j)'
    <3>1. record' # None
      BY <2>4, NoneAssumption DEF NoneAssumption
    <3> QED BY <2>1, <2>2, <2>3, <2>4, <2>5, <3>1 DEF Own, OwnRecord, OfListed
  <2>7. job[j].at # "fanout" /\ consumer'[j].at # "store"
    <3>1. consumer'[j].at # "store"
      BY <1>1, ProceedsFacts, BreaksFacts DEF Store
    <3> QED BY <2>2, <3>1 DEF Coherent, FanOutFirst
  <2>8. OwnCopies(j)'
    BY <2>1, <2>2, <2>3, <2>4, <2>5, <2>7 DEF Own, OwnCopies, OfListed
  <2>9. OwnVerdict(j)'
    <3>1. want \in {"comment", "time"} /\ record'.status \in Final =>
            record.status \in Final /\ record'.status = record.status
      BY <2>3, <2>4
    <3>2. record'.status \in Final => job[j].at \in {"done", "failed", "killed"}
      <4>1. want = "Failed" => job[j].at = "failed"
        BY DEF Coherent, WantsItsVerdict
      <4>2. want = "Completed" => job[j].at = "done"
        BY DEF Coherent, WantsItsVerdict
      <4>3. want \in Executor => want \notin Final \cup {"comment", "time"}
        BY DEF Executor, Final
      <4> QED BY <2>1, <2>2, <2>4, <3>1, <4>1, <4>2, <4>3 DEF Own, OwnVerdict, Final
    <3>3. record'.status \in Final =>
            consumer'[j].at \in {"load", "over"} /\ consumer'[j].want \in {"comment", "time", None}
      <4>1. CASE want \in Executor
        BY <2>4, <4>1 DEF Executor, Final
      <4>2. CASE want \in Final \cup {"comment", "time"}
        BY <1>1, <4>2, ProceedsFacts, BreaksFacts DEF Store, Final
      <4> QED BY <2>2, <4>1, <4>2
    <3>4. consumer'[j].verdict = "failed" =>
            /\ consumer'[j].want \in {"comment", "time", None} => record'.status = "Failed"
            /\ consumer'[j].want \in {"time", None} => record'.comment
      <4> SUFFICES ASSUME consumer'[j].verdict = "failed"
                   PROVE  /\ record'.status = "Failed"
                          /\ consumer'[j].want \in {"time", None} => record'.comment
        OBVIOUS
      <4>1. Proceeds(j) /\ consumer[j].verdict = "failed"
        BY <1>1, ProceedsFacts, BreaksFacts DEF Store
      <4>2. want \in {"Failed", "comment", "time"}
        BY <2>2, <4>1, NoneAssumption
           DEF Coherent, WantsItsVerdict, Final, NoneAssumption
      <4>3. CASE want = "Failed"
        BY <2>4, <4>1, <4>3, ProceedsFacts, NoneAssumption DEF NoneAssumption
      <4>4. CASE want \in {"comment", "time"}
        <5>1. record.status = "Failed" /\ c = record /\ (want = "time" => record.comment)
          BY <2>1, <2>2, <4>1, <4>4 DEF Own, OwnVerdict, Final
        <5> QED BY <2>4, <4>4, <5>1
      <4> QED BY <4>2, <4>3, <4>4
    <3> QED BY <2>2, <2>7, <3>2, <3>3, <3>4 DEF OwnVerdict
  <2> QED BY <2>6, <2>8, <2>9 DEF Own
<1>2. CASE (Consume(j) /\ ~Store(j)) \/ UpdateRaises(j)
  <2>1. record' = record /\ foreign' = foreign /\ item' = item
    BY <1>2 DEF Consume, UpdateRaises, ExecutorInvoked, WorkflowFailed, WorkflowOutput,
         NextExecutor, Load
  <2>2. Own(j) /\ Listed' = Listed /\ Usable(j)' = Usable(j)
    BY <2>1 DEF Listed, Usable
  <2>3. CASE (Load(j) \/ UpdateRaises(j))
    <3>1. /\ job' = job /\ consumer[j].at \in {"load", "store"} /\ record # None
          /\ job[j].at # "fanout"
      BY <2>2, <2>3 DEF Load, UpdateRaises, Own, OwnRecord, Coherent, FanOutFirst
    <3>2. OwnRecord(j)'
      BY <2>1, <2>2, <3>1 DEF Own, OwnRecord, OfListed
    <3>3. CASE Load(j)
      <4>1. consumer'[j] = [consumer[j] EXCEPT !.at = "store", !.copy = record]
        BY <1>0, <3>1, <3>3 DEF Load, TypeOK, ConsumerState
      <4>2. /\ consumer'[j].at = "store" /\ consumer'[j].copy = record
            /\ consumer'[j].want = consumer[j].want /\ consumer'[j].verdict = consumer[j].verdict
        BY <1>0, <4>1 DEF ConsumerState
      <4>3. OwnCopies(j)'
        BY <2>1, <2>2, <3>1, <4>2 DEF Own, OwnRecord, OwnCopies, OfListed
      <4>4. OwnVerdict(j)'
        BY <2>1, <2>2, <3>1, <4>2 DEF Own, OwnVerdict
      <4> QED BY <3>2, <4>3, <4>4 DEF Own
    <3>4. CASE UpdateRaises(j)
      <4>1. /\ consumer'[j].verdict = "raised"
            /\ consumer'[j].at \in {"over", "load"} /\ consumer'[j].want \in {"time", None}
        BY <3>4, BreaksFacts DEF UpdateRaises
      <4>2. OwnCopies(j)'
        BY <2>1, <2>2, <3>1, <4>1 DEF Own, OwnCopies, OfListed
      <4>3. OwnVerdict(j)'
        BY <2>1, <2>2, <3>1, <4>1 DEF Own, OwnVerdict
      <4> QED BY <3>2, <4>2, <4>3 DEF Own
    <3> QED BY <2>3, <3>3, <3>4
  <2>4. CASE ExecutorInvoked(j) \/ WorkflowFailed(j) \/ WorkflowOutput(j) \/ NextExecutor(j)
    <3>1. consumer[j].at = "waiting" /\ record.status \notin Final
      BY <2>2, <2>4 DEF ExecutorInvoked, WorkflowFailed, WorkflowOutput, NextExecutor, Listens,
           Own, OwnVerdict
    <3>2. \/ /\ job'[j].at = job[j].at /\ job'[j].extracts = job[j].extracts
             /\ job'[j].copy = job[j].copy
          \/ job'[j].at = "fetch" /\ job'[j].extracts = {}
      <4>1. \/ job'[j] = job[j]
            \/ job'[j] = [job[j] EXCEPT !.told = TRUE]
            \/ job'[j] = [job[j] EXCEPT !.step = Successor(job[j].step), !.at = "fetch",
                                        !.extracts = {}, !.told = FALSE]
        BY <2>4 DEF ExecutorInvoked, WorkflowFailed, WorkflowOutput, NextExecutor, TypeOK
      <4> QED BY <1>0, <4>1 DEF JobState
    <3>3. /\ consumer'[j].at # "store"
          /\ consumer'[j].verdict = "failed" => consumer'[j].want = "Failed"
      <4>1. \/ consumer'[j] = consumer[j]
            \/ consumer'[j] = Wants(j, job[j].step)
            \/ consumer'[j] = [Wants(j, "Failed") EXCEPT !.verdict = "failed"]
            \/ consumer'[j] = [Wants(j, "Completed") EXCEPT !.verdict = "returned"]
        BY <2>4 DEF ExecutorInvoked, WorkflowFailed, WorkflowOutput, NextExecutor, TypeOK
      <4>2. consumer[j].verdict = None
        BY <2>4 DEF ExecutorInvoked, WorkflowFailed, WorkflowOutput, NextExecutor, Listens
      <4>3. /\ Wants(j, job[j].step).at = "load" /\ Wants(j, job[j].step).verdict = None
            /\ [Wants(j, "Failed") EXCEPT !.verdict = "failed"].at = "load"
            /\ [Wants(j, "Failed") EXCEPT !.verdict = "failed"].want = "Failed"
            /\ [Wants(j, "Completed") EXCEPT !.verdict = "returned"].at = "load"
            /\ [Wants(j, "Completed") EXCEPT !.verdict = "returned"].verdict = "returned"
        BY <4>2, WantsFacts
      <4>4. None # "failed"
        BY NoneAssumption DEF NoneAssumption
      <4> QED BY <3>1, <4>1, <4>2, <4>3, <4>4
    <3>4. OwnRecord(j)'
      BY <2>1, <2>2, <3>2 DEF Own, OwnRecord, OfListed
    <3>5. OwnCopies(j)'
      BY <2>1, <2>2, <3>2, <3>3 DEF Own, OwnCopies, OfListed
    <3>6. OwnVerdict(j)'
      BY <2>1, <3>1, <3>3, NoneAssumption DEF OwnVerdict, NoneAssumption, ClaimStatus, Final
    <3> QED BY <3>4, <3>5, <3>6 DEF Own
  <2> QED BY <1>2, <2>3, <2>4 DEF Consume
<1> QED BY <1>1, <1>2

-----------------------------------------------------------------------------
(* The inductive invariant.                                                *)

LEMMA InvariantInit == Init => WorkflowInvariant
<1> SUFFICES ASSUME Init PROVE WorkflowInvariant
  OBVIOUS
<1> USE WorkflowAssumption, NoneAssumption
<1>1. TypeOK
  BY NewTypes DEF Init, TypeOK, ConsumerState
<1>2. ASSUME NEW j \in Job PROVE Coherent(j)
  <2>1. /\ job[j] = NewJob /\ consumer[j].at = "off" /\ consumer[j].want = None
        /\ consumer[j].verdict = None
        /\ \A f \in File : item[j][f] = NewItem
    BY DEF Init
  <2>2. FanOutFirst(j)
    BY <2>1 DEF FanOutFirst, NewJob
  <2>3. StoresWhatIsRead(j)
    BY <2>1 DEF StoresWhatIsRead, NewJob, NewItem
  <2>4. PollsLeft(j)
    BY <2>1 DEF PollsLeft, NewItem, WorkflowAssumption
  <2>5. WantsItsVerdict(j)
    BY <2>1 DEF WantsItsVerdict, NoneAssumption, ClaimStatus, Final, Executor
  <2> QED BY <2>2, <2>3, <2>4, <2>5 DEF Coherent
<1>3. Job \ foreign = {}
  BY DEF Init
<1> QED BY <1>1, <1>2, <1>3 DEF WorkflowInvariant

(* A step of job j.                                                        *)
LEMMA JobStepInvariant ==
  ASSUME WorkflowInvariant, WorkflowAssumption, NoneAssumption, NEW j \in Job, JobStep(j)
  PROVE  /\ \A i \in Job : Coherent(i)'
         /\ \A i \in Job \ foreign' : Own(i)'
<1>0. TypeOK /\ (\A i \in Job : Coherent(i)) /\ (\A i \in Job \ foreign : Own(i))
  BY DEF WorkflowInvariant
<1>1. Coherent(j)'
  BY <1>0, TaskCoherent, ExecutorCoherent, ConsumerCoherent DEF JobStep, Advance, Fault
<1>2. j \notin foreign' => Own(j)'
  BY <1>0, TaskOwn, ExecutorOwn, ConsumerOwn DEF JobStep, Advance, Fault
<1>3. ASSUME NEW i \in Job, i # j PROVE Coherent(i)' /\ (i \notin foreign' => Own(i)')
  <2>1. Same(i)
    BY <1>0, <1>3, OthersSame
  <2>2. Coherent(i)'
    BY <1>0, <2>1, SameCoherent
  <2>3. ASSUME i \notin foreign' PROVE Own(i)'
    <3>1. record' = record /\ foreign' = foreign
      BY <1>3, <2>3, OthersSeeWrites
    <3> QED BY <1>0, <2>1, <2>3, <3>1, SameOwn
  <2> QED BY <2>2, <2>3
<1> QED BY <1>1, <1>2, <1>3

(* The API and the documents leave the jobs alone; a write of the API is   *)
(* one that every job sees as another's.                                   *)
LEMMA OtherStepInvariant ==
  ASSUME WorkflowInvariant, NoneAssumption, StartRequest \/ \E f \in File : DocumentMoves(f)
  PROVE  /\ \A i \in Job : Coherent(i)'
         /\ \A i \in Job \ foreign' : Own(i)'
<1>1. \A i \in Job : Same(i)
  BY DEF StartRequest, Enqueue, ApiLookup, ApiRemove, ApiAdd, DocumentMoves, Same
<1>2. \/ record' = record /\ foreign' = foreign
      \/ Job \subseteq foreign'
  BY NoneAssumption DEF StartRequest, Enqueue, ApiLookup, ApiRemove, ApiAdd, DocumentMoves,
     Remove, Add, OthersSee, NoneAssumption
<1> QED BY <1>1, <1>2, SameCoherent, SameOwn DEF WorkflowInvariant

LEMMA InvariantStep ==
  ASSUME WorkflowInvariant, [Next]_vars
  PROVE  WorkflowInvariant'
<1>1. TypeOK'
  BY TypeStep DEF WorkflowInvariant
<1>2. CASE UNCHANGED vars
  <2>1. \A i \in Job : Same(i)
    BY <1>2 DEF vars, Same
  <2>2. record' = record /\ foreign' = foreign
    BY <1>2 DEF vars
  <2>3. (\A i \in Job : Coherent(i)') /\ (\A i \in Job \ foreign' : Own(i)')
    BY <2>1, <2>2, SameCoherent, SameOwn DEF WorkflowInvariant
  <2> QED BY <1>1, <2>3 DEF WorkflowInvariant
<1>3. CASE Next
  <2>1. (\A i \in Job : Coherent(i)') /\ (\A i \in Job \ foreign' : Own(i)')
    BY <1>3, JobStepInvariant, OtherStepInvariant, WorkflowAssumption, NoneAssumption
       DEF Next, JobStep
  <2> QED BY <1>1, <2>1 DEF WorkflowInvariant
<1> QED BY <1>2, <1>3

-----------------------------------------------------------------------------
(* The inductive invariant holds of every behaviour: any number of files,  *)
(* of jobs of the claim, of permits and of polls.                          *)
THEOREM WorkflowInvariantHolds == Spec => []WorkflowInvariant
<1>1. Init => WorkflowInvariant
  BY InvariantInit
<1>2. WorkflowInvariant /\ [Next]_vars => WorkflowInvariant'
  BY InvariantStep
<1> QED BY <1>1, <1>2, PTL DEF Spec

(* The variables keep their types; no task polls beyond its time.          *)
THEOREM WorkflowTypeCorrect == Spec => []TypeOK
<1>1. WorkflowInvariant => TypeOK
  BY DEF WorkflowInvariant
<1> QED BY <1>1, WorkflowInvariantHolds, PTL

(* Whatever the interleaving of the tasks, processed_documents loses none  *)
(* of their final statuses: _upsert_lock is enough within one job.         *)
THEOREM ListIsExact == Spec => []ListExact
<1>1. WorkflowInvariant => ListExact
  BY DEF WorkflowInvariant, Own, OwnRecord, ListExact
<1> QED BY <1>1, WorkflowInvariantHolds, PTL

(* What is summarised or analysed is listed as completed, although summary *)
(* and gaps are written next to the status updates of the event loop.      *)
THEOREM ResultsAreListed == Spec => []ResultsFromListed
<1>1. WorkflowInvariant => ResultsFromListed
  <2> SUFFICES ASSUME WorkflowInvariant, foreign # Job
               PROVE  record # None /\ \A f \in record.summary \cup record.gaps :
                                         record.docs[f] = "Completed"
    BY DEF ResultsFromListed
  <2>1. PICK j \in Job : j \notin foreign
    BY DEF WorkflowInvariant, TypeOK
  <2> QED BY <2>1 DEF WorkflowInvariant, Own, OwnRecord, OfListed, Listed
<1> QED BY <1>1, WorkflowInvariantHolds, PTL

(* The event loop has written status and reason of an executor's failure   *)
(* when it ends, and none of its updates undid the other.                  *)
THEOREM FailuresHaveReasons == Spec => []FailureHasReason
<1>1. WorkflowInvariant => FailureHasReason
  <2> SUFFICES ASSUME WorkflowInvariant, NEW j \in Job \ foreign,
                      consumer[j].at = "over", consumer[j].verdict = "failed"
               PROVE  record.status = "Failed" /\ record.comment
    BY DEF FailureHasReason
  <2>1. Coherent(j) /\ Own(j)
    BY DEF WorkflowInvariant
  <2>2. consumer[j].want = None
    BY <2>1 DEF Coherent, StoresWhatIsRead
  <2> QED BY <2>1, <2>2 DEF Own, OwnVerdict
<1> QED BY <1>1, WorkflowInvariantHolds, PTL

(* No later update of the job takes back its last word, the unguarded      *)
(* read and replace of the finally block included.                         *)
THEOREM VerdictsStay == Spec => VerdictStays
<1> DEFINE Stays == \A j \in Job : j \notin foreign \cup foreign' /\ record.status \in Final
                                     => record'.status = record.status
<1>1. WorkflowInvariant /\ [Next]_vars => [Stays]_vars
  <2> SUFFICES ASSUME WorkflowInvariant, Next,
                      NEW j \in Job, j \notin foreign, j \notin foreign', record.status \in Final
               PROVE  record'.status = record.status
    BY DEF Stays
  <2>0. TypeOK /\ Coherent(j) /\ Own(j)
    BY DEF WorkflowInvariant
  <2>1. CASE StartRequest \/ \E f \in File : DocumentMoves(f)
    <3>1. record' = record
      BY <2>1, NoneAssumption DEF StartRequest, Enqueue, ApiLookup, ApiRemove, ApiAdd,
         DocumentMoves, Remove, Add, OthersSee, NoneAssumption
    <3> QED BY <3>1
  <2>2. ASSUME NEW i \in Job, i # j, JobStep(i) PROVE record' = record
    BY <2>2, OthersSeeWrites
  <2>3. CASE JobStep(j)
    <3>1. job[j].at \in {"done", "failed", "killed"}
      BY <2>0 DEF Own, OwnVerdict
    <3>2. CASE Store(j)
      <4>1. /\ consumer[j].copy = record /\ consumer[j].want \in {"comment", "time"}
            /\ record \in Claim
        BY <2>0, <3>2 DEF Store, Coherent, StoresWhatIsRead, Own, OwnRecord, OwnVerdict, TypeOK
      <4>2. record' = Updated(record, consumer[j].want)
        BY <2>0, <3>2, <4>1, OwnReplace DEF Store
      <4> QED BY <4>1, <4>2 DEF Updated, Claim
    <3>3. CASE ~Store(j)
      <4>1. record' = record
        BY <2>3, <3>1, <3>3 DEF JobStep, Advance, Fault, Task, Execute, Consume, Begin,
           ExecutorRaises, UpdateRaises, Kill, TaskRaises, LookupClaim, RemoveClaim, AddClaim,
           FanIn, Fetch, Screen, Answer, LoadClaim, SaveClaim, ExecutorInvoked, WorkflowFailed,
           WorkflowOutput, NextExecutor, Load, Acquire, SubmitFile, LockAndLoad, StoreEntry,
           Poll, Wait, GetProcessed, TaskAt, Executes, GetStatus, Processed
      <4> QED BY <4>1
    <3> QED BY <3>2, <3>3
  <2> QED BY <2>1, <2>2, <2>3 DEF Next, JobStep
<1> QED BY <1>1, WorkflowInvariantHolds, PTL DEF Spec, VerdictStays
=============================================================================
