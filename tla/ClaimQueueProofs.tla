-------------------------- MODULE ClaimQueueProofs --------------------------
(***************************************************************************)
(* The theorems of ClaimQueueWorker: its types, that no message is lost,   *)
(* leases are exclusive, dead-lettering has its reason, a delivery has one *)
(* verdict, the dictionaries tell the truth, a stopped service is idle and *)
(* the promise of ClaimMessages is kept.  First the types, then what one   *)
(* step may do to a worker's job, to what is tracked for it and to the     *)
(* queue, then the parts of the invariant, last the theorems.              *)
(***************************************************************************)
EXTENDS ClaimQueueWorker, TLAPS

-----------------------------------------------------------------------------
(* The operators.                                                          *)

(* A fresh receipt is a receipt, and nobody holds it.                      *)
LEMMA FreshIsFresh ==
  ASSUME NEW m, NEW r \in FreshReceipts(m)
  PROVE  r \in Receipt /\ r \notin KnownReceipts(m)
BY DEF FreshReceipts

(* A worker that is not waiting for a message has a job.                   *)
LEMMA HasJob ==
  ASSUME TypeOK, NEW w \in Worker, job[w].pc # "none"
  PROVE  job[w] \in Job
BY DEF TypeOK, NoJob

LEMMA HeldType ==
  ASSUME TypeOK, NEW w \in Worker, job[w] \in Job
  PROVE  HeldBy(w) \in Handle
BY DEF TypeOK, HeldBy, Handle, Job, JobAt

LEMMA DeleteType ==
  ASSUME TypeOK, NEW h \in Handle, NEW q \in DeleteOutcomes(h)
  PROVE  q \in [Msg -> QueueEntry]
<1>1. queue \in [Msg -> QueueEntry] /\ h.msg \in Msg
  BY DEF TypeOK, Handle
<1>2. [queue[h.msg] EXCEPT !.loc = "deleted", !.late = FALSE] \in QueueEntry
  BY <1>1 DEF QueueEntry
<1> QED BY <1>1, <1>2 DEF DeleteOutcomes, AfterDelete

LEMMA UpdateType ==
  ASSUME TypeOK, NEW h \in Handle, NEW r \in Receipt
  PROVE  AfterUpdate(h, r) \in [Msg -> QueueEntry]
<1>1. queue \in [Msg -> QueueEntry] /\ h.msg \in Msg
  BY DEF TypeOK, Handle
<1>2. [queue[h.msg] EXCEPT !.loc = "leased", !.receipt = r, !.late = FALSE]
        \in QueueEntry
  BY <1>1 DEF QueueEntry
<1> QED BY <1>1, <1>2 DEF AfterUpdate

LEMMA WithLateType ==
  ASSUME NEW q \in [Msg -> QueueEntry], NEW H
  PROVE  WithLate(q, H) \in [Msg -> QueueEntry]
<1> SUFFICES ASSUME NEW m \in Msg
             PROVE  [q[m] EXCEPT !.late =
                       \/ @
                       \/ /\ q[m].loc \in {"visible", "leased"}
                          /\ [msg |-> m, receipt |-> q[m].receipt] \in H]
                    \in QueueEntry
  BY DEF WithLate
<1>1. q[m] \in QueueEntry
  OBVIOUS
<1> QED BY <1>1, Zenon DEF QueueEntry

LEMMA HeldArg ==
  ASSUME NEW w \in Worker, job[w] \in Job, job[w].pc \in {"retry", "extend"}
  PROVE  job[w].arg \in Handle
BY DEF Job, JobAt

Outcomes == {"none", "malformed", "setup", "success", "executor", "error"}

LEMMA FailWithType ==
  ASSUME NEW w \in Worker, job[w] \in Job,
         NEW outcome \in Outcomes, NEW held \in Handle
  PROVE  /\ FailWith(w, outcome, held) \in Job
         /\ FailWith(w, outcome, held).pc \in {"dlq", "retry"}
<1>1. CASE DeadLetters(job[w], outcome)
  <2>1. FailWith(w, outcome, held) =
          [job[w] EXCEPT !.outcome = outcome, !.pc = "dlq", !.arg = None]
    BY <1>1 DEF FailWith
  <2> QED BY <2>1 DEF Job, JobAt, Outcomes
<1>2. CASE ~DeadLetters(job[w], outcome)
  <2>1. FailWith(w, outcome, held) =
          [job[w] EXCEPT !.outcome = outcome, !.pc = "retry", !.arg = held]
    BY <1>2 DEF FailWith
  <2> QED BY <2>1 DEF Job, JobAt, Outcomes
<1> QED BY <1>1, <1>2

LEMMA EndJobType ==
  ASSUME TypeOK, NEW w \in Worker, job[w] \in Job,
         NEW q \in [Msg -> QueueEntry], EndJob(w, q)
  PROVE  /\ queue' \in [Msg -> QueueEntry]
         /\ job' \in [Worker -> Job \cup {NoJob}]
         /\ inflight' \in [Worker -> Claim \cup {None}]
         /\ inflightMessage' \in [Worker -> Handle \cup {None}]
         /\ renew' \in [Worker -> Renew \cup {NoRenew}]
<1>1. queue' = q \/ queue' = WithLate(q, RenewCallOf(w))
  BY DEF EndJob
<1>2. queue' \in [Msg -> QueueEntry]
  BY <1>1, WithLateType
<1>3. [job[w] EXCEPT !.pc = "ended", !.arg = None] \in Job
  BY DEF Job, JobAt
<1>4. [job[w] EXCEPT !.pc = "unwinding", !.arg = None] \in Job
  BY DEF Job, JobAt
<1>5. Tracked(w) \in Handle \cup {None}
  BY DEF Tracked, TypeOK, Job, JobAt
<1>6. /\ job \in [Worker -> Job \cup {NoJob}]
      /\ inflight \in [Worker -> Claim \cup {None}]
      /\ inflightMessage \in [Worker -> Handle \cup {None}]
      /\ renew \in [Worker -> Renew \cup {NoRenew}]
  BY DEF TypeOK
<1>7. CASE renew[w].st = "off"
  <2>1. /\ job' = [job EXCEPT ![w].pc = "ended", ![w].arg = None]
        /\ inflight' = [inflight EXCEPT ![w] = None]
        /\ inflightMessage' = [inflightMessage EXCEPT ![w] = None]
        /\ renew' = renew
    BY <1>7 DEF EndJob
  <2>2. job' \in [Worker -> Job \cup {NoJob}]
    BY <1>3, <1>6, <2>1
  <2>3. inflight' \in [Worker -> Claim \cup {None}]
    BY <1>6, <2>1
  <2>4. inflightMessage' \in [Worker -> Handle \cup {None}]
    BY <1>6, <2>1
  <2> QED BY <1>2, <1>6, <2>1, <2>2, <2>3, <2>4
<1>8. CASE renew[w].st # "off"
  <2>1. /\ job' = [job EXCEPT ![w].pc = "unwinding", ![w].arg = None]
        /\ renew' = [renew EXCEPT ![w] = NoRenew]
        /\ inflightMessage' = [inflightMessage EXCEPT ![w] = Tracked(w)]
        /\ inflight' = inflight
    BY <1>8 DEF EndJob
  <2>2. job' \in [Worker -> Job \cup {NoJob}]
    BY <1>4, <1>6, <2>1
  <2>3. renew' \in [Worker -> Renew \cup {NoRenew}]
    BY <1>6, <2>1
  <2>4. inflightMessage' \in [Worker -> Handle \cup {None}]
    BY <1>5, <1>6, <2>1
  <2> QED BY <1>2, <1>6, <2>1, <2>2, <2>3, <2>4
<1> QED BY <1>7, <1>8

LEMMA CancelJobsType ==
  ASSUME TypeOK, NEW S \in SUBSET Worker, CancelJobs(S)
  PROVE  /\ queue' \in [Msg -> QueueEntry]
         /\ dead' \subseteq Msg
         /\ job' \in [Worker -> Job \cup {NoJob}]
         /\ inflight' \in [Worker -> Claim \cup {None}]
         /\ inflightMessage' \in [Worker -> Handle \cup {None}]
         /\ renew' \in [Worker -> Renew \cup {NoRenew}]
<1> DEFINE live   == {w \in S : job[w].pc \notin {"none", "ended"}}
           begun  == {w \in live : job[w].pc \notin {"created", "unwinding"}}
           awaits == {w \in begun : renew[w].st # "off" \/ job[w].pc = "finishing"}
           sends  == {job[w].msg : w \in {x \in live : job[x].pc = "dlq"}}
<1>1. \A w \in live : job[w] \in Job
  BY HasJob
<1>2. \A w \in live : [job[w] EXCEPT !.pc = "unwinding", !.arg = None] \in Job
  BY <1>1 DEF Job, JobAt
<1>3. \A w \in live : [job[w] EXCEPT !.pc = "ended", !.arg = None] \in Job
  BY <1>1 DEF Job, JobAt
<1>4. job' \in [Worker -> Job \cup {NoJob}]
  <2>1. job' = [w \in Worker |->
                   IF w \in awaits
                   THEN [job[w] EXCEPT !.pc = "unwinding", !.arg = None]
                   ELSE IF w \in live
                        THEN [job[w] EXCEPT !.pc = "ended", !.arg = None]
                        ELSE job[w]]
    BY DEF CancelJobs
  <2> QED BY <2>1, <1>2, <1>3 DEF TypeOK
<1>5. dead' \subseteq Msg
  <2>1. sends \subseteq Msg
    BY <1>1 DEF Job, JobAt
  <2>2. \E sent \in SUBSET sends : dead' = dead \cup sent
    BY DEF CancelJobs
  <2> QED BY <2>1, <2>2 DEF TypeOK
<1>6. queue' \in [Msg -> QueueEntry]
  <2>1. \E H : queue' = WithLate(queue, H)
    BY DEF CancelJobs
  <2> QED BY <2>1, WithLateType DEF TypeOK
<1>7. inflight' \in [Worker -> Claim \cup {None}]
  BY DEF CancelJobs, TypeOK
<1>8. inflightMessage' \in [Worker -> Handle \cup {None}]
  BY DEF CancelJobs, TypeOK
<1>9. renew' \in [Worker -> Renew \cup {NoRenew}]
  BY DEF CancelJobs, TypeOK
<1> QED BY <1>4, <1>5, <1>6, <1>7, <1>8, <1>9

-----------------------------------------------------------------------------
(* Type correctness.                                                       *)

(* The state keeps its shape whatever the service, the queue, the operator *)
(* and the crashes do.                                                     *)
LEMMA TypeStep == TypeOK /\ [FullNext]_vars => TypeOK'
<1> SUFFICES ASSUME TypeOK, [FullNext]_vars PROVE TypeOK'
  OBVIOUS
<1> USE QueueAssumption
<1> USE DEF loops, tracking, requests, history
<1>0. CASE UNCHANGED vars
  BY <1>0 DEF vars, TypeOK
<1>1. ASSUME NEW m \in Msg, Accept(m) \/ Expire(m) \/ LateCallLands(m)
      PROVE  TypeOK'
  <2>1. CASE Accept(m)
    <3>1. queue' \in [Msg -> QueueEntry]
      BY <2>1 DEF Accept, TypeOK, QueueEntry
    <3> QED BY <2>1, <3>1 DEF Accept, TypeOK
  <2>2. CASE Expire(m)
    <3>1. queue' \in [Msg -> QueueEntry]
      BY <2>2 DEF Expire, TypeOK, QueueEntry
    <3> QED BY <2>2, <3>1 DEF Expire, TypeOK
  <2>3. CASE LateCallLands(m)
    <3>0. queue[m] \in QueueEntry
      BY DEF TypeOK
    <3>1. queue' \in [Msg -> QueueEntry]
      <4>1. ASSUME NEW r \in FreshReceipts(m),
                   queue' = AfterUpdate([msg |-> m, receipt |-> queue[m].receipt], r)
            PROVE  queue' \in [Msg -> QueueEntry]
        <5>1. r \in Receipt
          BY FreshIsFresh
        <5>2. [queue[m] EXCEPT !.loc = "leased", !.receipt = r, !.late = FALSE]
                \in QueueEntry
          BY <5>1, <3>0 DEF QueueEntry
        <5> QED BY <4>1, <5>2 DEF AfterUpdate, TypeOK
      <4>2. [queue[m] EXCEPT !.late = FALSE] \in QueueEntry
        BY <3>0 DEF QueueEntry
      <4> QED BY ZenonT(30), <2>3, <4>1, <4>2 DEF LateCallLands, TypeOK
    <3> QED BY <2>3, <3>1 DEF LateCallLands, TypeOK
  <2> QED BY <1>1, <2>1, <2>2, <2>3
<1>2. ASSUME NEW w \in Worker, NEW m \in Msg, Receive(w, m)
      PROVE  TypeOK'
  <2> DEFINE n == IF queue[m].count < MaxAttempts
                  THEN queue[m].count + 1 ELSE MaxAttempts
  <2>1. PICK r \in FreshReceipts(m) :
          /\ queue' = [queue EXCEPT ![m] = [loc |-> "leased", count |-> n,
                                            receipt |-> r, late |-> FALSE]]
          /\ job' = [job EXCEPT ![w] = [NoJob EXCEPT
                         !.pc = "created", !.msg = m, !.receipt = r, !.attempt = n]]
    BY <1>2 DEF Receive
  <2>2. r \in Receipt
    BY FreshIsFresh
  <2>3. n \in 1..MaxAttempts
    BY DEF TypeOK, QueueEntry
  <2>4. [loc |-> "leased", count |-> n, receipt |-> r, late |-> FALSE] \in QueueEntry
    BY <2>2, <2>3 DEF QueueEntry
  <2>5. [NoJob EXCEPT !.pc = "created", !.msg = m, !.receipt = r, !.attempt = n] \in Job
    BY <2>2, <2>3 DEF NoJob, Job, JobAt
  <2> QED BY ZenonT(30), <1>2, <2>1, <2>4, <2>5 DEF Receive, TypeOK
<1>3. ASSUME NEW w \in Worker, JobStep(w)
      PROVE  TypeOK'
  <2>0. job[w] \in Job
    BY <1>3, HasJob DEF JobStep, RejectMalformed, StartJob, RunReturns,
       FinishSuccess, FinishFailure, RetryLands, RetryEnds, DeadLetterSent,
       DeadLetterFails, ExtendEnds, CleanupEnds, Unwind, Parses, Cleaning
  <2>h. HeldBy(w) \in Handle
    BY <2>0, HeldType
  <2>1. CASE RejectMalformed(w)
    BY <2>1, <2>0, <2>h, FailWithType DEF RejectMalformed, TypeOK, Outcomes, Parses
  <2>2. CASE StartJob(w)
    <3>1. Track(w) /\ ClaimOf[job[w].msg] \in Claim
      BY <2>2, <2>0 DEF StartJob, Job, JobAt, Parses
    <3>2. /\ inflight' \in [Worker -> Claim \cup {None}]
          /\ inflightMessage' \in [Worker -> Handle \cup {None}]
          /\ renew' \in [Worker -> Renew \cup {NoRenew}]
      BY <3>1, <2>0 DEF Track, TypeOK, Handle, Job, JobAt, Renew
    <3>3. [job[w] EXCEPT !.pc = "running"] \in Job
      BY <2>0, <2>2 DEF StartJob, Job, JobAt, Parses
    <3>4. FailWith(w, "setup", [msg |-> job[w].msg, receipt |-> job[w].receipt]) \in Job
      <4>1. [msg |-> job[w].msg, receipt |-> job[w].receipt] \in Handle
        BY <2>0 DEF Job, JobAt, Handle
      <4> QED BY <4>1, <2>0, FailWithType DEF Outcomes
    <3> QED BY <2>2, <3>2, <3>3, <3>4 DEF StartJob, TypeOK, Parses
  <2>3. ASSUME NEW outcome \in {"success", "executor", "error"}, RunReturns(w, outcome)
        PROVE  TypeOK'
    <3>1. [job[w] EXCEPT !.pc = "finishing", !.outcome = outcome] \in Job
      BY <2>0, <2>3 DEF RunReturns, Job, JobAt
    <3>2. queue' \in [Msg -> QueueEntry]
      BY <2>3, WithLateType DEF RunReturns, TypeOK
    <3>3. job[w].msg \in Msg
      BY <2>0 DEF Job, JobAt
    <3> QED BY <2>3, <3>1, <3>2, <3>3 DEF RunReturns, TypeOK
  <2>4. CASE FinishSuccess(w)
    BY <2>4, <2>0, <2>h, DeleteType, EndJobType DEF FinishSuccess, TypeOK
  <2>5. CASE FinishFailure(w)
    <3>1. job[w].outcome \in Outcomes
      BY <2>0 DEF Job, JobAt, Outcomes
    <3> QED BY <2>5, <2>0, <2>h, <3>1, FailWithType DEF FinishFailure, TypeOK
  <2>6. CASE RetryLands(w)
    <3>1. job[w].arg \in Handle
      BY <2>6, <2>0, HeldArg DEF RetryLands
    <3>a. PICK r \in FreshReceipts(job[w].arg.msg) :
            /\ queue' = AfterUpdate(job[w].arg, r)
            /\ \E answer \in {None, [msg |-> job[w].arg.msg, receipt |-> r]} :
                 job' = [job EXCEPT ![w].pc = "retried", ![w].arg = answer]
      BY <2>6 DEF RetryLands
    <3>2. PICK answer \in {None, [msg |-> job[w].arg.msg, receipt |-> r]} :
            job' = [job EXCEPT ![w].pc = "retried", ![w].arg = answer]
      BY <3>a
    <3>3. r \in Receipt
      BY FreshIsFresh
    <3>4. answer \in Handle \cup {None}
      BY <3>1, <3>2, <3>3 DEF Handle
    <3>5. [job[w] EXCEPT !.pc = "retried", !.arg = answer] \in Job
      BY <2>0, <3>4 DEF Job, JobAt
    <3>6. queue' \in [Msg -> QueueEntry]
      BY <3>1, <3>a, <3>3, UpdateType
    <3>7. job' \in [Worker -> Job \cup {NoJob}]
      BY <3>2, <3>5 DEF TypeOK
    <3>8. UNCHANGED <<dead, loops, tracking, renew, requests, history>>
      BY <2>6 DEF RetryLands
    <3> QED BY <3>6, <3>7, <3>8 DEF TypeOK
  <2>7. CASE RetryEnds(w)
    BY <2>7, <2>0, EndJobType DEF RetryEnds, TypeOK
  <2>8. CASE DeadLetterSent(w)
    <3>1. job[w].msg \in Msg /\ [job[w] EXCEPT !.pc = "cleanup"] \in Job
      BY <2>0, <2>8 DEF DeadLetterSent, Job, JobAt
    <3> QED BY <2>8, <2>0, <2>h, <3>1, DeleteType, EndJobType DEF DeadLetterSent, TypeOK
  <2>9. CASE DeadLetterFails(w)
    <3>1. [job[w] EXCEPT !.pc = "extend", !.arg = HeldBy(w)] \in Job
      BY <2>0, <2>h DEF Job, JobAt
    <3> QED BY <2>9, <3>1 DEF DeadLetterFails, TypeOK
  <2>10. CASE ExtendEnds(w)
    <3>1. job[w].arg \in Handle
      BY <2>10, <2>0, HeldArg DEF ExtendEnds
    <3> QED BY <2>10, <2>0, <3>1, UpdateType, FreshIsFresh, EndJobType
        DEF ExtendEnds, TypeOK
  <2>11. CASE CleanupEnds(w)
    BY <2>11, <2>0, <2>h, DeleteType, EndJobType DEF CleanupEnds, TypeOK, Cleaning
  <2>12. CASE Unwind(w)
    <3>1. [job[w] EXCEPT !.pc = "ended"] \in Job
      BY <2>0, <2>12 DEF Unwind, Job, JobAt
    <3> QED BY <2>12, <3>1 DEF Unwind, TypeOK
  <2> QED BY <1>3, <2>1, <2>2, <2>3, <2>4, <2>5, <2>6, <2>7, <2>8, <2>9, <2>10,
             <2>11, <2>12 DEF JobStep
<1>4. ASSUME NEW w \in Worker, RenewStep(w)
      PROVE  TypeOK'
  <2>0. renew[w] \in Renew \cup {NoRenew} /\ inflightMessage[w] \in Handle \cup {None}
    BY DEF TypeOK
  <2>1. CASE RenewCalls(w)
    <3>1. [st |-> "call", on |-> inflightMessage[w]] \in Renew
      BY <2>1, <2>0 DEF RenewCalls, Renew
    <3> QED BY <2>1, <3>1 DEF RenewCalls, TypeOK
  <2>2. CASE RenewLifetimeOver(w)
    <3>1. [st |-> "over", on |-> None] \in Renew
      BY DEF Renew
    <3> QED BY <2>2, <3>1 DEF RenewLifetimeOver, TypeOK
  <2>3. CASE RenewLands(w)
    <3>1. renew[w].on \in Handle
      BY <2>3, <2>0 DEF RenewLands, Renew, NoRenew
    <3>2. PICK r \in FreshReceipts(renew[w].on.msg) :
            /\ queue' = AfterUpdate(renew[w].on, r)
            /\ renew' = [renew EXCEPT ![w] =
                 [st |-> "landed", on |-> [msg |-> renew[w].on.msg, receipt |-> r]]]
      BY <2>3 DEF RenewLands
    <3>3. r \in Receipt
      BY FreshIsFresh
    <3>4. [st |-> "landed", on |-> [msg |-> renew[w].on.msg, receipt |-> r]] \in Renew
      BY <3>1, <3>3 DEF Renew, Handle
    <3>5. queue' \in [Msg -> QueueEntry]
      BY <3>1, <3>2, <3>3, UpdateType
    <3> QED BY <2>3, <3>2, <3>4, <3>5 DEF RenewLands, TypeOK
  <2>4. CASE RenewStores(w)
    <3>1. renew[w].on \in Handle
      BY <2>4, <2>0 DEF RenewStores, Renew, NoRenew
    <3>2. [st |-> IF isRunning THEN "sleep" ELSE "over", on |-> None] \in Renew
      BY DEF Renew
    <3> QED BY <2>4, <3>1, <3>2 DEF RenewStores, TypeOK
  <2>5. CASE RenewFails(w)
    <3>1. [st |-> IF queue[renew[w].on.msg].loc = "deleted" \/ ~isRunning
                  THEN "over" ELSE "late",
           on |-> None] \in Renew
      BY DEF Renew
    <3> QED BY <2>5, <3>1 DEF RenewFails, TypeOK
  <2> QED BY <1>4, <2>1, <2>2, <2>3, <2>4, <2>5 DEF RenewStep
<1>5. ASSUME NEW w \in Worker, WorkerResumes(w)
      PROVE  TypeOK'
  BY <1>5 DEF WorkerResumes, TypeOK
<1>6. CASE KillStep
  <2>1. ASSUME NEW c \in Claim, StopProcess(c)
        PROVE  TypeOK'
    <3>1. PICK w \in Worker :
            /\ IF inflightMessage[w] # None
               THEN queue' \in DeleteOutcomes(inflightMessage[w])
               ELSE UNCHANGED queue
            /\ kill' = [st |-> "cleanup", claim |-> c, worker |-> w]
      BY <2>1 DEF StopProcess
    <3>2. queue' \in [Msg -> QueueEntry]
      BY <3>1, DeleteType DEF TypeOK
    <3>3. kill' \in Kill
      BY <3>1 DEF Kill
    <3>4. killed' \subseteq Msg
      BY <2>1 DEF StopProcess, TypeOK
    <3> QED BY <2>1, <3>2, <3>3, <3>4 DEF StopProcess, TypeOK
  <2>2. CASE StopProcessCancels
    <3>1. kill \in Kill
      BY <2>2 DEF StopProcessCancels, TypeOK, NoKill, KillDone
    <3>2. CASE CancelJobs({kill.worker}) /\ kill' = [kill EXCEPT !.st = "waiting"]
      <4>1. {kill.worker} \in SUBSET Worker /\ kill' \in Kill
        BY <3>1, <3>2 DEF Kill
      <4> QED BY <2>2, <3>2, <4>1, CancelJobsType DEF StopProcessCancels, TypeOK
    <3>3. CASE kill' = KillDone /\ UNCHANGED <<queue, dead, job, tracking, renew>>
      BY <2>2, <3>3 DEF StopProcessCancels, TypeOK
    <3> QED BY <2>2, <3>2, <3>3 DEF StopProcessCancels
  <2>3. CASE StopProcessReturns
    BY <2>3 DEF StopProcessReturns, TypeOK
  <2> QED BY <1>6, <2>1, <2>2, <2>3 DEF KillStep
<1>7. ASSUME NEW S \in SUBSET Worker, CancelWorkers(S)
      PROVE  /\ queue' \in [Msg -> QueueEntry]
             /\ dead' \subseteq Msg
             /\ workerLoop' \in [Worker -> {"polling", "busy", "stopped"}]
             /\ job' \in [Worker -> Job \cup {NoJob}]
             /\ inflight' \in [Worker -> Claim \cup {None}]
             /\ inflightMessage' \in [Worker -> Handle \cup {None}]
             /\ renew' \in [Worker -> Renew \cup {NoRenew}]
  <2>1. {w \in S : workerLoop[w] = "busy"} \in SUBSET Worker
    OBVIOUS
  <2>2. CancelJobs({w \in S : workerLoop[w] = "busy"})
    BY <1>7 DEF CancelWorkers
  <2>3. workerLoop' \in [Worker -> {"polling", "busy", "stopped"}]
    BY <1>7 DEF CancelWorkers, TypeOK
  <2> QED BY <2>1, <2>2, <2>3, CancelJobsType
<1>8. FreshService /\ queue' \in [Msg -> QueueEntry] /\ dead' \subseteq Msg
      /\ UNCHANGED history => TypeOK'
  BY DEF FreshService, TypeOK
<1>9. CASE ControlStep
  <2>1. CASE Interrupt
    <3>1. control' \in Control
      BY <2>1 DEF Interrupt, Control
    <3> QED BY <2>1, <3>1, <1>7 DEF Interrupt, TypeOK
  <2>2. CASE StopService
    <3>1. control' \in Control
      BY <2>2 DEF StopService, Control
    <3>2. workerTasks \in SUBSET Worker
      BY DEF TypeOK
    <3> QED BY <2>2, <3>1, <3>2, <1>7 DEF StopService, TypeOK
  <2>3. CASE StopServiceCancelsJobs
    <3>1. control' \in Control
      BY <2>3 DEF StopServiceCancelsJobs, Control
    <3>2. inflightTask \in SUBSET Worker
      BY DEF TypeOK
    <3> QED BY <2>3, <3>1, <3>2, CancelJobsType DEF StopServiceCancelsJobs, TypeOK
  <2>4. CASE StopServiceCloses
    BY <2>4 DEF StopServiceCloses, TypeOK, Control, ControlDone
  <2>5. ASSUME NEW w \in Worker, StopWorker(w)
        PROVE  TypeOK'
    <3>1. control' \in Control
      BY <2>5 DEF StopWorker, Control
    <3> QED BY <2>5, <3>1, <1>7 DEF StopWorker, TypeOK
  <2>6. CASE StopWorkerFinishes
    BY <2>6 DEF StopWorkerFinishes, TypeOK, Control, ControlDone
  <2>7. CASE Restart
    BY <2>7, <1>8 DEF Restart, TypeOK
  <2> QED BY <1>9, <2>1, <2>2, <2>3, <2>4, <2>5, <2>6, <2>7 DEF ControlStep
<1>10. CASE Crash
  <2>1. \A x \in Worker : job[x].pc = "dlq" => job[x].msg \in Msg
    BY HasJob DEF Job, JobAt
  <2>2. dead' \subseteq Msg
    BY <1>10, <2>1 DEF Crash, TypeOK
  <2> QED BY <1>10, <1>8, <2>2 DEF Crash, TypeOK
<1> QED BY <1>0, <1>1, <1>2, <1>3, <1>4, <1>5, <1>6, <1>9, <1>10
        DEF FullNext, Next, QueueStep, WorkerStep

LEMMA TypeInit == Init => TypeOK
BY QueueAssumption DEF Init, TypeOK, QueueEntry, NoJob, NoRenew, NoKill, NoControl

(* The service's state keeps its shape under everything that may happen to *)
(* it: the operator's commands and crashes included.                       *)
THEOREM TypeCorrect == FullSpec => []TypeOK
<1> QED BY TypeInit, TypeStep, PTL DEF FullSpec

-----------------------------------------------------------------------------
(* What one step may do to a job and to what is tracked for it.            *)

(* The parts of a worker's state a step of another worker leaves alone.    *)
Still(w) ==
  /\ job'[w] = job[w] /\ renew'[w] = renew[w]
  /\ inflight'[w] = inflight[w] /\ inflightMessage'[w] = inflightMessage[w]

(* A job that ends, by itself or cancelled: it drops its handles, and what *)
(* is tracked for it stays or goes.                                        *)
Ends(w) ==
  /\ job[w] \in Job /\ job'[w] \in Job
  /\ job'[w].pc \in {"ended", "unwinding"}
  /\ job'[w].pc = "unwinding" => Begun(w)
  /\ job'[w].msg = job[w].msg /\ job'[w].receipt = job[w].receipt
  /\ job'[w].attempt = job[w].attempt /\ job'[w].outcome = job[w].outcome
  /\ job'[w].arg = None
  /\ renew'[w] = NoRenew
  /\ \/ inflight'[w] = inflight[w] /\ inflightMessage'[w] = inflightMessage[w]
     \/ /\ inflight'[w] = inflight[w] /\ renew[w].st # "off"
        /\ job[w].arg \in Handle /\ inflightMessage'[w] = job[w].arg
        /\ job'[w].pc = "unwinding"
     \/ inflight'[w] = None /\ inflightMessage'[w] = None

SameJob(w) ==
  /\ job[w] \in Job /\ job'[w] \in Job
  /\ job'[w].msg = job[w].msg /\ job'[w].receipt = job[w].receipt
  /\ job'[w].attempt = job[w].attempt
SameTracking(w) ==
  inflight'[w] = inflight[w] /\ inflightMessage'[w] = inflightMessage[w]

(* A message arrives, with a receipt nobody had.                           *)
Arrives(w) ==
  /\ job[w].pc = "none" /\ job'[w] \in Job /\ job'[w].pc = "created"
  /\ job'[w].arg = None /\ job'[w].outcome = "none"
  /\ queue'[job'[w].msg].loc = "leased"
  /\ queue'[job'[w].msg].receipt = job'[w].receipt
  /\ job'[w].attempt <= queue'[job'[w].msg].count
  /\ queue'[job'[w].msg].count = IF queue[job'[w].msg].count < MaxAttempts
                                 THEN queue[job'[w].msg].count + 1 ELSE MaxAttempts
  /\ job'[w].receipt \notin KnownReceipts(job'[w].msg)
  /\ renew'[w] = renew[w] /\ SameTracking(w)

(* Its job starts and is tracked.                                          *)
Begins(w) ==
  /\ SameJob(w) /\ job[w].pc = "created" /\ Begun(w)' /\ job'[w].pc # "unwinding"
  /\ ClaimOf[job[w].msg] # Malformed
  /\ inflight'[w] = ClaimOf[job[w].msg]
  /\ inflightMessage'[w] = [msg |-> job[w].msg, receipt |-> job[w].receipt]
  /\ renew'[w] = [st |-> "sleep", on |-> None]
  /\ job'[w].arg \in {None, [msg |-> job[w].msg, receipt |-> job[w].receipt]}
  /\ job'[w].outcome \in {job[w].outcome, "setup"}
  /\ job'[w].pc \notin {"finishing", "cleanup"}
  /\ job'[w].pc = "dlq" => DeadLetters(job'[w], job'[w].outcome)

(* It goes on; RejectMalformed is the one such step of a job just created. *)
GoesOn(w) ==
  /\ SameJob(w) /\ job[w].pc # "none" /\ Begun(w)' /\ job'[w].pc # "unwinding"
  /\ SameTracking(w)
  /\ job[w].pc \notin {"cleanup", "unwinding", "ended"}
  /\ job[w].pc = "finishing" => job[w].outcome # "success"
  /\ renew'[w] = renew[w] \/ renew'[w] = NoRenew
  /\ \/ Begun(w)
     \/ ClaimOf[job[w].msg] = Malformed /\ job[w].pc = "created"
  /\ \/ job'[w].arg \in {None, HeldBy(w)}
     \/ /\ job[w].arg \in Handle /\ job'[w].arg \in Handle
        /\ job'[w].arg.msg = job[w].arg.msg
        /\ job'[w].arg.receipt \notin KnownReceipts(job[w].arg.msg)
  /\ job'[w].outcome = "malformed" =>
       job[w].outcome = "malformed" \/ ClaimOf[job[w].msg] = Malformed
  /\ job'[w].outcome = "executor" =>
       job[w].outcome = "executor" \/ job[w].msg \in execFailed'
  /\ job'[w].pc = "finishing" /\ job'[w].outcome = "success" => job[w].msg \in succeeded'
  /\ job'[w].pc = "cleanup" => job[w].msg \in dead'
  /\ job'[w].pc = "dlq" => DeadLetters(job'[w], job'[w].outcome)

(* Its renewal goes on.                                                    *)
Renewing(w) ==
  /\ job'[w] = job[w] /\ inflight'[w] = inflight[w]
  /\ renew[w].st # "off" /\ renew'[w].st # "off"
  /\ \/ renew'[w].on = None
     \/ renew'[w].on = inflightMessage[w]
     \/ /\ renew[w].on \in Handle /\ renew'[w].on \in Handle
        /\ renew'[w].on.msg = renew[w].on.msg
        /\ renew'[w].on.receipt \notin KnownReceipts(renew[w].on.msg)
  /\ \/ inflightMessage'[w] = inflightMessage[w]
     \/ renew[w].on \in Handle /\ inflightMessage'[w] = renew[w].on

(* The worker lets go of a job that ended, or of everything.               *)
LetsGo(w) ==
  /\ job'[w] = NoJob
  /\ \/ /\ job[w].pc = "ended" /\ renew'[w] = renew[w]
        /\ inflight'[w] \in {inflight[w], None}
        /\ inflightMessage'[w] = inflightMessage[w]
     \/ /\ renew'[w] = NoRenew
        /\ inflight'[w] = None /\ inflightMessage'[w] = None

(* The tracking is dropped under the job.                                  *)
Untracks(w) ==
  /\ job'[w] = job[w] /\ renew'[w] = renew[w]
  /\ inflight'[w] = None /\ inflightMessage'[w] = None

LocalStep(w) ==
  Still(w) \/ Ends(w) \/ Arrives(w) \/ Begins(w) \/ GoesOn(w) \/ Renewing(w)
    \/ LetsGo(w) \/ Untracks(w)

(* The end of a job leaves its identity and drops its handles.             *)
LEMMA EndJobFacts ==
  ASSUME TypeOK, NEW w \in Worker, Begun(w), NEW q, EndJob(w, q)
  PROVE  /\ Ends(w)
         /\ \A x \in Worker \ {w} : Still(x)
         /\ \E H : queue' = q \/ queue' = WithLate(q, H)
<1> USE DEF Ends, Still
<1>1. job[w] \in Job
  BY HasJob DEF Begun
<1>2. CASE renew[w].st = "off"
  <2>1. renew[w] = NoRenew
    BY <1>2 DEF TypeOK, Renew, NoRenew
  <2>2. job'[w] = [job[w] EXCEPT !.pc = "ended", !.arg = None]
    BY <1>2 DEF EndJob, TypeOK
  <2>3. job'[w] \in Job
    BY <1>1, <2>2 DEF Job, JobAt
  <2> QED BY <1>1, <1>2, <2>1, <2>2, <2>3 DEF EndJob, TypeOK, Job, JobAt
<1>3. CASE renew[w].st # "off"
  <2>2. job'[w] = [job[w] EXCEPT !.pc = "unwinding", !.arg = None]
    BY <1>3 DEF EndJob, TypeOK
  <2>3. job'[w] \in Job
    BY <1>1, <2>2 DEF Job, JobAt
  <2>4. inflight' = inflight /\ renew'[w] = NoRenew
    BY <1>3 DEF EndJob, TypeOK
  <2>5. inflightMessage'[w] = Tracked(w)
    BY <1>3 DEF EndJob, TypeOK
  <2>6. \/ Tracked(w) = inflightMessage[w]
        \/ job[w].arg \in Handle /\ Tracked(w) = job[w].arg
    BY <1>1 DEF Tracked, Job, JobAt
  <2>7. \A x \in Worker \ {w} : Still(x)
    BY <1>3, <2>4 DEF EndJob, TypeOK
  <2>8. Ends(w)
    BY <1>1, <1>3, <2>2, <2>3, <2>4, <2>5, <2>6 DEF Job, JobAt
  <2> QED BY <1>3, <2>7, <2>8 DEF EndJob
<1> QED BY <1>2, <1>3

(* What cancelling does to every worker.                                   *)
LEMMA CancelJobsFacts ==
  ASSUME TypeOK, NEW S \in SUBSET Worker, CancelJobs(S)
  PROVE  /\ \A w \in Worker : Still(w) \/ Ends(w)
         /\ \E H : queue' = WithLate(queue, H)
         /\ dead \subseteq dead'
         /\ \A m \in dead' \ dead :
              \E w \in Worker : /\ job[w].pc = "dlq" /\ job[w].msg = m
                               /\ job'[w].pc \in {"unwinding", "ended"}
<1> DEFINE live   == {w \in S : job[w].pc \notin {"none", "ended"}}
           begun  == {w \in live : job[w].pc \notin {"created", "unwinding"}}
           awaits == {w \in begun : renew[w].st # "off" \/ job[w].pc = "finishing"}
           clears == begun \ awaits
           sends  == {job[w].msg : w \in {x \in live : job[x].pc = "dlq"}}
<1>0. /\ job' = [w \in Worker |->
                   IF w \in awaits
                   THEN [job[w] EXCEPT !.pc = "unwinding", !.arg = None]
                   ELSE IF w \in live
                        THEN [job[w] EXCEPT !.pc = "ended", !.arg = None]
                        ELSE job[w]]
      /\ inflight' = [w \in Worker |->
                        IF w \in clears THEN None ELSE inflight[w]]
      /\ inflightMessage' = [w \in Worker |->
                        IF w \in clears THEN None ELSE inflightMessage[w]]
      /\ renew' = [w \in Worker |-> IF w \in live THEN NoRenew ELSE renew[w]]
      /\ \E H : queue' = WithLate(queue, H)
      /\ \E sent \in SUBSET sends : dead' = dead \cup sent
  BY DEF CancelJobs
<1> HIDE DEF live, begun, awaits, clears, sends
<1>1. ASSUME NEW w \in Worker, w \in live, NEW pc \in {"ended", "unwinding"},
             job'[w] = [job[w] EXCEPT !.pc = pc, !.arg = None]
      PROVE  /\ job[w] \in Job /\ job'[w] \in Job
             /\ job'[w].pc = pc
             /\ job'[w].msg = job[w].msg /\ job'[w].receipt = job[w].receipt
             /\ job'[w].attempt = job[w].attempt
             /\ job'[w].outcome = job[w].outcome
             /\ job'[w].arg = None
  <2>1. job[w] \in Job
    BY <1>1, HasJob DEF live
  <2> QED BY <2>1, <1>1 DEF Job, JobAt
<1>2. \A w \in awaits : w \in live /\ Begun(w)
  BY DEF awaits, begun, live, Begun
<1>3. \A w \in clears : w \in live
  BY DEF clears, begun, live
<1>4. ASSUME NEW w \in Worker, w \notin live
      PROVE  Still(w)
  BY <1>0, <1>2, <1>3, <1>4 DEF Still
<1>5. ASSUME NEW w \in Worker, w \in live
      PROVE  Ends(w)
  <2>1. CASE w \in awaits
    BY <1>0, <1>1, <1>2, <1>5, <2>1 DEF Ends, clears
  <2>2. CASE w \notin awaits
    BY <1>0, <1>1, <1>5, <2>2 DEF Ends
  <2> QED BY <2>1, <2>2
<1>6. ASSUME NEW m \in dead' \ dead
      PROVE  \E w \in Worker : /\ job[w].pc = "dlq" /\ job[w].msg = m
                               /\ job'[w].pc \in {"unwinding", "ended"}
  <2>1. PICK w \in live : job[w].pc = "dlq" /\ job[w].msg = m
    BY <1>0 DEF sends
  <2>2. w \in Worker
    BY DEF live
  <2>3. job'[w].pc \in {"unwinding", "ended"}
    BY <1>0, <1>1, <2>2
  <2> QED BY <2>1, <2>2, <2>3
<1> QED BY <1>0, <1>4, <1>5, <1>6

-----------------------------------------------------------------------------
(* The parts of the invariant.                                             *)

(* The steps that touch no job and nothing tracked.                        *)
LEMMA QueueStepIsStill ==
  ASSUME NEW m, Accept(m) \/ Expire(m) \/ LateCallLands(m)
  PROVE  UNCHANGED <<dead, isRunning, workerLoop, workerTasks, inflightTask, job,
                     inflight, inflightMessage, renew, kill, control,
                     succeeded, killed, execFailed>>
BY DEF Accept, Expire, LateCallLands, loops, tracking, requests, history

LEMMA BusyStep ==
  ASSUME TypeOK, BusyWithJob, [FullNext]_vars
  PROVE  BusyWithJob'
<1> USE DEF BusyWithJob, loops, tracking, requests, history
<1>0. CASE UNCHANGED vars
  BY <1>0 DEF vars
<1>1. CASE QueueStep
  BY <1>1, QueueStepIsStill DEF QueueStep
<1>2. ASSUME NEW w \in Worker, NEW m \in Msg, Receive(w, m)
      PROVE  BusyWithJob'
  BY <1>2 DEF Receive, NoJob, TypeOK
<1>e. ASSUME NEW w \in Worker, Begun(w), NEW q, EndJob(w, q), UNCHANGED workerLoop
      PROVE  BusyWithJob'
  BY <1>e, EndJobFacts DEF Ends, Still, Begun
<1>c. ASSUME NEW S \in SUBSET Worker, CancelJobs(S),
             \A w \in Worker : workerLoop'[w] # workerLoop[w] =>
                /\ workerLoop[w] = "polling"
                /\ workerLoop'[w] = "stopped"
      PROVE  BusyWithJob'
  <2> SUFFICES ASSUME NEW x \in Worker
               PROVE  workerLoop'[x] = "busy" <=> job'[x].pc # "none"
    OBVIOUS
  <2>1. Still(x) \/ Ends(x)
    BY <1>c, CancelJobsFacts
  <2>2. job[x].pc = "none" => Still(x)
    BY <2>1 DEF Ends, Job, JobAt
  <2> QED BY <1>c, <2>1, <2>2 DEF Ends, Still
<1>3. ASSUME NEW w \in Worker, JobStep(w)
      PROVE  BusyWithJob'
  <2>0. UNCHANGED workerLoop /\ job[w].pc # "none" /\ job[w] \in Job
    BY <1>3, HasJob DEF JobStep, RejectMalformed, StartJob, RunReturns,
       FinishSuccess, FinishFailure, RetryLands, RetryEnds, DeadLetterSent,
       DeadLetterFails, ExtendEnds, CleanupEnds, Unwind, Parses, Cleaning
  <2>1. ASSUME NEW outcome \in Outcomes, NEW held,
               job' = [job EXCEPT ![w] = FailWith(w, outcome, held)]
        PROVE  BusyWithJob'
    <3>1. job'[w].pc # "none"
      BY <2>0, <2>1 DEF FailWith, TypeOK, Job, JobAt
    <3> QED BY <2>0, <2>1, <3>1 DEF TypeOK
  <2>2. CASE \E q : Begun(w) /\ EndJob(w, q)
    BY <1>e, <2>0, <2>2
  <2>3. CASE RejectMalformed(w)
    BY <2>1, <2>3 DEF RejectMalformed, Outcomes, Parses
  <2>4. CASE StartJob(w)
    <3>1. CASE job' = [job EXCEPT ![w].pc = "running"]
      BY <2>0, <3>1 DEF TypeOK, Job, JobAt
    <3> QED BY <2>1, <2>4, <3>1 DEF StartJob, Outcomes, Parses
  <2>5. ASSUME NEW outcome, RunReturns(w, outcome)
        PROVE  BusyWithJob'
    BY <2>0, <2>5 DEF RunReturns, TypeOK, Job, JobAt
  <2>6. CASE FinishFailure(w)
    <3>1. job[w].outcome \in Outcomes
      BY <2>0 DEF Job, JobAt, Outcomes
    <3> QED BY <2>1, <2>6, <3>1 DEF FinishFailure
  <2>7. CASE RetryLands(w)
    BY <2>0, <2>7 DEF RetryLands, TypeOK, Job, JobAt
  <2>8. CASE DeadLetterFails(w)
    BY <2>0, <2>8 DEF DeadLetterFails, TypeOK, Job, JobAt
  <2>9. CASE DeadLetterSent(w)
    BY <2>0, <2>2, <2>9 DEF DeadLetterSent, TypeOK, Job, JobAt, Begun
  <2>10. CASE Unwind(w)
    BY <2>0, <2>10 DEF Unwind, TypeOK, Job, JobAt
  <2>11. CASE FinishSuccess(w) \/ RetryEnds(w) \/ ExtendEnds(w) \/ CleanupEnds(w)
    BY <2>2, <2>11 DEF FinishSuccess, RetryEnds, ExtendEnds, CleanupEnds, Begun, Cleaning
  <2> QED BY <1>3, <2>3, <2>4, <2>5, <2>6, <2>7, <2>8, <2>9, <2>10, <2>11 DEF JobStep
<1>4. ASSUME NEW w \in Worker, RenewStep(w)
      PROVE  BusyWithJob'
  BY <1>4 DEF RenewStep, RenewCalls, RenewLifetimeOver, RenewLands, RenewStores,
     RenewFails
<1>5. ASSUME NEW w \in Worker, WorkerResumes(w)
      PROVE  BusyWithJob'
  BY <1>5 DEF WorkerResumes, NoJob, TypeOK
<1>6. CASE KillStep
  <2>1. ASSUME NEW c, StopProcess(c)
        PROVE  BusyWithJob'
    BY <2>1 DEF StopProcess
  <2>2. CASE StopProcessCancels
    <3>1. kill.worker \in inflightTask => {kill.worker} \in SUBSET Worker
      BY DEF TypeOK
    <3> QED BY <1>c, <2>2, <3>1 DEF StopProcessCancels
  <2>3. CASE StopProcessReturns
    BY <2>3 DEF StopProcessReturns
  <2> QED BY <1>6, <2>1, <2>2, <2>3 DEF KillStep
<1>7. ASSUME NEW S \in SUBSET Worker, CancelWorkers(S)
      PROVE  BusyWithJob'
  <2>1. {w \in S : workerLoop[w] = "busy"} \in SUBSET Worker
    OBVIOUS
  <2>2. CancelJobs({w \in S : workerLoop[w] = "busy"})
    BY <1>7 DEF CancelWorkers
  <2>3. \A w \in Worker : workerLoop'[w] # workerLoop[w] =>
           workerLoop[w] = "polling" /\ workerLoop'[w] = "stopped"
    BY <1>7 DEF CancelWorkers
  <2> QED BY <1>c, <2>1, <2>2, <2>3
<1>8. CASE FreshService
  BY <1>8 DEF FreshService, NoJob
<1>9. CASE ControlStep
  <2>0. workerTasks \in SUBSET Worker /\ inflightTask \in SUBSET Worker
    BY DEF TypeOK
  <2>1. CASE Interrupt \/ StopService \/ \E w \in Worker : StopWorker(w)
    BY <1>7, <2>0, <2>1 DEF Interrupt, StopService, StopWorker
  <2>2. CASE StopServiceCancelsJobs
    BY <1>c, <2>0, <2>2 DEF StopServiceCancelsJobs
  <2>3. CASE StopServiceCloses \/ StopWorkerFinishes
    BY <2>3 DEF StopServiceCloses, StopWorkerFinishes
  <2>4. CASE Restart
    BY <2>4, <1>8 DEF Restart
  <2> QED BY <1>9, <2>1, <2>2, <2>3, <2>4 DEF ControlStep
<1> QED BY <1>0, <1>1, <1>2, <1>3, <1>4, <1>5, <1>6, <1>8, <1>9
        DEF FullNext, Next, WorkerStep, Crash
(* Every step is, for every worker, one of these.                          *)
LEMMA EveryStepIsLocal ==
  ASSUME TypeOK, BusyWithJob, HandlesOfJob, [FullNext]_vars, NEW x \in Worker
  PROVE  LocalStep(x)
<1> USE QueueAssumption
<1> USE DEF LocalStep, loops, tracking, requests, history
<1>0. CASE UNCHANGED vars
  BY <1>0 DEF vars, Still
<1>1. CASE QueueStep
  BY <1>1, QueueStepIsStill DEF QueueStep, Still
<1>2. ASSUME NEW w \in Worker, NEW m \in Msg, Receive(w, m)
      PROVE  LocalStep(x)
  <2> DEFINE n == IF queue[m].count < MaxAttempts
                  THEN queue[m].count + 1 ELSE MaxAttempts
  <2>1. PICK r \in FreshReceipts(m) :
          /\ queue' = [queue EXCEPT ![m] = [loc |-> "leased", count |-> n,
                                            receipt |-> r, late |-> FALSE]]
          /\ job' = [job EXCEPT ![w] = [NoJob EXCEPT
                         !.pc = "created", !.msg = m, !.receipt = r, !.attempt = n]]
    BY <1>2 DEF Receive
  <2>2. r \in Receipt /\ r \notin KnownReceipts(m)
    BY FreshIsFresh
  <2>3. n \in 1..MaxAttempts
    BY DEF TypeOK, QueueEntry
  <2>4. queue'[m] = [loc |-> "leased", count |-> n, receipt |-> r, late |-> FALSE]
    BY <2>1 DEF TypeOK
  <2>5. job'[w] = [NoJob EXCEPT !.pc = "created", !.msg = m, !.receipt = r, !.attempt = n]
    BY <2>1 DEF TypeOK
  <2>6. /\ job'[w] \in Job /\ job'[w].pc = "created" /\ job'[w].msg = m
        /\ job'[w].receipt = r /\ job'[w].attempt = n /\ job'[w].arg = None
        /\ job'[w].outcome = "none"
    BY <2>2, <2>3, <2>5 DEF NoJob, Job, JobAt
  <2>7. job[w].pc = "none"
    BY <1>2 DEF Receive, BusyWithJob
  <2>8. Arrives(w)
    BY <1>2, <2>2, <2>3, <2>4, <2>6, <2>7 DEF Arrives, SameTracking, Receive
  <2>9. x # w => Still(x)
    BY <1>2, <2>1 DEF Receive, Still, TypeOK
  <2> QED BY <2>8, <2>9
<1>3. ASSUME NEW w \in Worker, JobStep(w)
      PROVE  LocalStep(x)
  <2>0. UNCHANGED workerLoop /\ job[w].pc # "none" /\ job[w] \in Job
    BY <1>3, HasJob DEF JobStep, RejectMalformed, StartJob, RunReturns,
       FinishSuccess, FinishFailure, RetryLands, RetryEnds, DeadLetterSent,
       DeadLetterFails, ExtendEnds, CleanupEnds, Unwind, Parses, Cleaning
  <2>e. ASSUME NEW q, Begun(w), EndJob(w, q)
        PROVE  LocalStep(x)
    BY <2>e, EndJobFacts
  <2>f. ASSUME NEW outcome \in Outcomes, NEW held \in Handle,
               job'[w] = FailWith(w, outcome, held)
        PROVE  /\ SameJob(w) /\ Begun(w)' /\ job'[w].pc \in {"dlq", "retry"}
               /\ job'[w].outcome = outcome /\ job'[w].arg \in {None, held}
               /\ job'[w].pc = "dlq" => DeadLetters(job'[w], job'[w].outcome)
    <3>1. FailWith(w, outcome, held) \in Job
      BY <2>0, <2>f, FailWithType
    <3>2. /\ job'[w].msg = job[w].msg /\ job'[w].receipt = job[w].receipt
          /\ job'[w].attempt = job[w].attempt
          /\ job'[w].outcome = outcome /\ job'[w].arg \in {None, held}
          /\ job'[w].pc = "dlq" <=> DeadLetters(job[w], outcome)
          /\ job'[w].pc \in {"dlq", "retry"}
      BY <2>0, <2>f DEF FailWith, Job, JobAt
    <3> QED BY <2>0, <2>f, <3>1, <3>2 DEF SameJob, Begun, DeadLetters
  <2>h. HeldBy(w) \in Handle
    BY <2>0, HeldType
  <2>o. ASSUME job' = [job EXCEPT ![w] = job'[w]],
               UNCHANGED <<inflight, inflightMessage>>,
               renew' = renew \/ renew' = [renew EXCEPT ![w] = NoRenew],
               GoesOn(w)
        PROVE  LocalStep(x)
    <3>1. x # w => Still(x)
      BY <2>o DEF Still, TypeOK
    <3> QED BY <2>o, <3>1
  <2>1. CASE RejectMalformed(w)
    <3>1. job' = [job EXCEPT ![w] = FailWith(w, "malformed", HeldBy(w))]
      BY <2>1 DEF RejectMalformed, Parses
    <3>2. job'[w] = FailWith(w, "malformed", HeldBy(w))
      BY <3>1 DEF TypeOK
    <3>3. GoesOn(w)
      BY <2>0, <2>1, <2>f, <2>h, <3>2
         DEF RejectMalformed, GoesOn, SameTracking, Outcomes, Parses
    <3> QED BY <2>o, <2>1, <3>1, <3>2, <3>3 DEF RejectMalformed, Parses
  <2>2. CASE StartJob(w)
    <3> DEFINE h == [msg |-> job[w].msg, receipt |-> job[w].receipt]
    <3>0. h \in Handle
      BY <2>0 DEF Job, JobAt, Handle
    <3>1. /\ inflight'[w] = ClaimOf[job[w].msg] /\ inflightMessage'[w] = h
          /\ renew'[w] = [st |-> "sleep", on |-> None]
          /\ job[w].pc = "created" /\ ClaimOf[job[w].msg] # Malformed
      BY <2>2 DEF StartJob, Track, TypeOK, Parses
    <3>2. ASSUME job' = [job EXCEPT ![w].pc = "running"]
          PROVE  Begins(w)
      <4>1. job'[w] = [job[w] EXCEPT !.pc = "running"]
        BY <3>2 DEF TypeOK
      <4>2. SameJob(w) /\ job'[w].pc = "running" /\ job'[w].outcome = job[w].outcome
            /\ job'[w].arg = None
        BY <2>0, <3>1, <4>1 DEF SameJob, Job, JobAt
      <4> QED BY <3>1, <4>2 DEF Begins, Begun
    <3>3. ASSUME job' = [job EXCEPT ![w] = FailWith(w, "setup", h)]
          PROVE  Begins(w)
      <4>1. job'[w] = FailWith(w, "setup", h)
        BY <3>3 DEF TypeOK
      <4>2. /\ SameJob(w) /\ Begun(w)' /\ job'[w].pc \in {"dlq", "retry"}
            /\ job'[w].outcome = "setup" /\ job'[w].arg \in {None, h}
            /\ job'[w].pc = "dlq" => DeadLetters(job'[w], job'[w].outcome)
        BY <2>f, <3>0, <4>1 DEF Outcomes
      <4> QED BY <3>1, <4>2 DEF Begins
    <3>4. Begins(w)
      BY <2>2, <3>2, <3>3 DEF StartJob, Parses
    <3>5. x # w => Still(x)
      BY <2>2, <3>2, <3>3 DEF StartJob, Track, Still, TypeOK, Parses
    <3> QED BY <3>4, <3>5
  <2>3. ASSUME NEW outcome \in {"success", "executor", "error"}, RunReturns(w, outcome)
        PROVE  LocalStep(x)
    <3>1. job'[w] = [job[w] EXCEPT !.pc = "finishing", !.outcome = outcome]
      BY <2>3 DEF RunReturns, TypeOK
    <3>2. SameJob(w) /\ job'[w].pc = "finishing" /\ job'[w].outcome = outcome
          /\ job'[w].arg = None
      <4>1. job[w] \in JobAt({"running"}, {None})
        BY <2>0, <2>3 DEF RunReturns, Job, JobAt
      <4>2. job'[w] \in JobAt({"finishing"}, {None})
        BY <3>1, <4>1 DEF JobAt
      <4>3. job'[w] \in Job
        BY <4>2 DEF Job, JobAt
      <4> QED BY <2>0, <3>1, <4>1, <4>2, <4>3 DEF SameJob, JobAt
    <3>3. GoesOn(w)
      BY <2>0, <2>3, <3>2 DEF RunReturns, GoesOn, SameTracking, Begun, TypeOK
    <3> QED BY <2>o, <2>3, <3>1, <3>3 DEF RunReturns
  <2>4. CASE FinishFailure(w)
    <3>1. job' = [job EXCEPT ![w] = FailWith(w, job[w].outcome, HeldBy(w))]
      BY <2>4 DEF FinishFailure
    <3>2. job'[w] = FailWith(w, job[w].outcome, HeldBy(w)) /\ job[w].outcome \in Outcomes
      BY <2>0, <3>1 DEF TypeOK, Job, JobAt, Outcomes
    <3>3. GoesOn(w)
      BY <2>0, <2>4, <2>f, <2>h, <3>2
         DEF FinishFailure, GoesOn, SameTracking, Begun
    <3> QED BY <2>o, <2>4, <3>1, <3>2, <3>3 DEF FinishFailure
  <2>5. CASE RetryLands(w)
    <3>0. job[w].arg \in Handle
      BY <2>0, <2>5, HeldArg DEF RetryLands
    <3>a. PICK r \in FreshReceipts(job[w].arg.msg) :
            \E answer \in {None, [msg |-> job[w].arg.msg, receipt |-> r]} :
              job' = [job EXCEPT ![w].pc = "retried", ![w].arg = answer]
      BY <2>5 DEF RetryLands
    <3>1. PICK answer \in {None, [msg |-> job[w].arg.msg, receipt |-> r]} :
            job' = [job EXCEPT ![w].pc = "retried", ![w].arg = answer]
      BY <3>a
    <3>2. r \in Receipt /\ r \notin KnownReceipts(job[w].arg.msg)
      BY FreshIsFresh
    <3>3. job'[w] = [job[w] EXCEPT !.pc = "retried", !.arg = answer]
      BY <3>1 DEF TypeOK
    <3>4. answer \in Handle \cup {None}
      BY <3>0, <3>1, <3>2 DEF Handle
    <3>5. SameJob(w) /\ job'[w].pc = "retried" /\ job'[w].outcome = job[w].outcome
          /\ job'[w].arg = answer
      BY <2>0, <3>3, <3>4 DEF SameJob, Job, JobAt
    <3>6. \/ answer = None
          \/ /\ answer \in Handle /\ answer.msg = job[w].arg.msg
             /\ answer.receipt \notin KnownReceipts(job[w].arg.msg)
      BY <3>0, <3>1, <3>2 DEF Handle
    <3>7. GoesOn(w)
      BY <2>0, <2>5, <3>0, <3>5, <3>6 DEF RetryLands, GoesOn, SameTracking, Begun
    <3>8. \A y \in Worker \ {w} : job'[y] = job[y]
      BY <3>1 DEF TypeOK
    <3> QED BY <2>5, <3>7, <3>8 DEF RetryLands, Still
  <2>6. CASE DeadLetterFails(w)
    <3>1. job'[w] = [job[w] EXCEPT !.pc = "extend", !.arg = HeldBy(w)]
      BY <2>6 DEF DeadLetterFails, TypeOK
    <3>2. SameJob(w) /\ job'[w].pc = "extend" /\ job'[w].outcome = job[w].outcome
          /\ job'[w].arg = HeldBy(w)
      BY <2>0, <2>h, <3>1 DEF SameJob, Job, JobAt
    <3>3. GoesOn(w)
      BY <2>0, <2>6, <3>2 DEF DeadLetterFails, GoesOn, SameTracking, Begun
    <3> QED BY <2>o, <2>6, <3>1, <3>3 DEF DeadLetterFails
  <2>7. CASE DeadLetterSent(w)
    <3>1. CASE job' = [job EXCEPT ![w].pc = "cleanup"]
               /\ UNCHANGED <<queue, tracking, renew>>
      <4>1. job'[w] = [job[w] EXCEPT !.pc = "cleanup"]
        BY <3>1 DEF TypeOK
      <4>2. SameJob(w) /\ job'[w].pc = "cleanup" /\ job'[w].outcome = job[w].outcome
            /\ job'[w].arg = None
        BY <2>0, <2>7, <4>1 DEF DeadLetterSent, SameJob, Job, JobAt
      <4>3. GoesOn(w)
        BY <2>0, <2>7, <3>1, <4>2 DEF DeadLetterSent, GoesOn, SameTracking, Begun
      <4> QED BY <2>o, <3>1, <4>1, <4>3
    <3> QED BY <2>7, <2>e, <3>1 DEF DeadLetterSent, Begun
  <2>8. CASE Unwind(w)
    <3>1. job'[w] = [job[w] EXCEPT !.pc = "ended"]
      BY <2>8 DEF Unwind, TypeOK
    <3>2. renew[w] = NoRenew
      BY <2>8 DEF Unwind, HandlesOfJob, TypeOK, Renew, NoRenew
    <3>3. x # w => Still(x)
      BY <2>8 DEF Unwind, Still, TypeOK
    <3>4. Ends(w)
      BY <2>0, <2>8, <3>1, <3>2 DEF Unwind, Ends, Begun, TypeOK, Job, JobAt
    <3> QED BY <3>3, <3>4
  <2>9. CASE FinishSuccess(w) \/ RetryEnds(w) \/ ExtendEnds(w) \/ CleanupEnds(w)
    BY <2>e, <2>9 DEF FinishSuccess, RetryEnds, ExtendEnds, CleanupEnds, Begun, Cleaning
  <2> QED BY <1>3, <2>1, <2>2, <2>3, <2>4, <2>5, <2>6, <2>7, <2>8, <2>9 DEF JobStep
<1>4. ASSUME NEW w \in Worker, RenewStep(w)
      PROVE  LocalStep(x)
  <2>0. renew[w] \in Renew \cup {NoRenew} /\ inflightMessage[w] \in Handle \cup {None}
    BY DEF TypeOK
  <2>1. CASE RenewCalls(w)
    <3>1. Renewing(w)
      BY <2>1 DEF RenewCalls, Renewing, TypeOK
    <3> QED BY <2>1, <3>1 DEF RenewCalls, Still, TypeOK
  <2>2. CASE RenewLifetimeOver(w)
    <3>1. Renewing(w)
      BY <2>2 DEF RenewLifetimeOver, Renewing, TypeOK
    <3> QED BY <2>2, <3>1 DEF RenewLifetimeOver, Still, TypeOK
  <2>3. CASE RenewLands(w)
    <3>1. renew[w].on \in Handle
      BY <2>3, <2>0 DEF RenewLands, Renew, NoRenew
    <3>2. PICK r \in FreshReceipts(renew[w].on.msg) :
            renew' = [renew EXCEPT ![w] =
                 [st |-> "landed", on |-> [msg |-> renew[w].on.msg, receipt |-> r]]]
      BY <2>3 DEF RenewLands
    <3>3. r \in Receipt /\ r \notin KnownReceipts(renew[w].on.msg)
      BY FreshIsFresh
    <3>4. renew'[w] = [st |-> "landed", on |-> [msg |-> renew[w].on.msg, receipt |-> r]]
      BY <3>2 DEF TypeOK
    <3>5. Renewing(w)
      BY <2>3, <3>1, <3>3, <3>4 DEF RenewLands, Renewing, Handle
    <3> QED BY <2>3, <3>2, <3>5 DEF RenewLands, Still, TypeOK
  <2>4. CASE RenewStores(w)
    <3>1. renew[w].on \in Handle
      BY <2>4, <2>0 DEF RenewStores, Renew, NoRenew
    <3>2. renew'[w] = [st |-> IF isRunning THEN "sleep" ELSE "over", on |-> None]
      BY <2>4 DEF RenewStores, TypeOK
    <3>3. Renewing(w)
      BY <2>4, <3>1, <3>2 DEF RenewStores, Renewing, TypeOK
    <3> QED BY <2>4, <3>3 DEF RenewStores, Still, TypeOK
  <2>5. CASE RenewFails(w)
    <3>1. renew'[w] = [st |-> IF queue[renew[w].on.msg].loc = "deleted" \/ ~isRunning
                             THEN "over" ELSE "late",
                       on |-> None]
      BY <2>5 DEF RenewFails, TypeOK
    <3>2. Renewing(w)
      BY <2>5, <3>1 DEF RenewFails, Renewing
    <3> QED BY <2>5, <3>2 DEF RenewFails, Still, TypeOK
  <2> QED BY <1>4, <2>1, <2>2, <2>3, <2>4, <2>5 DEF RenewStep
<1>5. ASSUME NEW w \in Worker, WorkerResumes(w)
      PROVE  LocalStep(x)
  <2>1. LetsGo(w)
    BY <1>5 DEF WorkerResumes, LetsGo, TypeOK
  <2> QED BY <1>5, <2>1 DEF WorkerResumes, Still, TypeOK
<1>6. CASE KillStep
  <2>1. ASSUME NEW c, StopProcess(c)
        PROVE  LocalStep(x)
    BY <2>1 DEF StopProcess, Still
  <2>2. CASE StopProcessCancels
    <3>1. kill.worker \in inflightTask => {kill.worker} \in SUBSET Worker
      BY DEF TypeOK
    <3> QED BY <2>2, <3>1, CancelJobsFacts DEF StopProcessCancels, Still
  <2>3. CASE StopProcessReturns
    BY <2>3 DEF StopProcessReturns, Still
  <2> QED BY <1>6, <2>1, <2>2, <2>3 DEF KillStep
<1>7. ASSUME NEW S \in SUBSET Worker, CancelWorkers(S)
      PROVE  LocalStep(x)
  <2>1. {w \in S : workerLoop[w] = "busy"} \in SUBSET Worker
    OBVIOUS
  <2>2. CancelJobs({w \in S : workerLoop[w] = "busy"})
    BY <1>7 DEF CancelWorkers
  <2> QED BY <2>1, <2>2, CancelJobsFacts
<1>8. CASE FreshService
  <2>1. LetsGo(x)
    BY <1>8 DEF FreshService, LetsGo
  <2> QED BY <2>1
<1>9. CASE ControlStep
  <2>0. workerTasks \in SUBSET Worker /\ inflightTask \in SUBSET Worker
    BY DEF TypeOK
  <2>1. CASE Interrupt \/ StopService \/ \E w \in Worker : StopWorker(w)
    BY <1>7, <2>0, <2>1 DEF Interrupt, StopService, StopWorker
  <2>2. CASE StopServiceCancelsJobs
    BY <2>0, <2>2, CancelJobsFacts DEF StopServiceCancelsJobs
  <2>3. CASE StopServiceCloses
    BY <2>3 DEF StopServiceCloses, Untracks
  <2>4. CASE StopWorkerFinishes
    <3>1. x # control.worker => Still(x)
      BY <2>4 DEF StopWorkerFinishes, Still, TypeOK
    <3>2. x = control.worker => Untracks(x)
      BY <2>4 DEF StopWorkerFinishes, Untracks, TypeOK
    <3> QED BY <3>1, <3>2
  <2>5. CASE Restart
    BY <2>5, <1>8 DEF Restart
  <2> QED BY <1>9, <2>1, <2>2, <2>3, <2>4, <2>5 DEF ControlStep
<1> QED BY <1>0, <1>1, <1>2, <1>3, <1>4, <1>5, <1>6, <1>8, <1>9
        DEF FullNext, Next, WorkerStep, Crash

(* Only one worker at a time does more than end, let go or lose tracking.  *)
Winds(w) == Still(w) \/ Ends(w) \/ LetsGo(w) \/ Untracks(w)
LEMMA OneMoves ==
  ASSUME TypeOK, BusyWithJob, HandlesOfJob, [FullNext]_vars,
         NEW v \in Worker, NEW w \in Worker, v # w
  PROVE  Winds(v) \/ Winds(w)
<1> USE DEF Winds, loops, tracking, requests, history
<1>0. CASE UNCHANGED vars
  BY <1>0 DEF vars, Still
<1>1. CASE QueueStep
  BY <1>1, QueueStepIsStill DEF QueueStep, Still
<1>2. ASSUME NEW x \in Worker, NEW y \in Worker, x # y,
             \/ \E m \in Msg : Receive(x, m)
             \/ WorkerResumes(x)
             \/ RenewStep(x)
      PROVE  Still(y)
  BY ZenonT(30), <1>2 DEF Receive, WorkerResumes, RenewStep, RenewCalls, RenewLifetimeOver,
     RenewLands, RenewStores, RenewFails, Still, TypeOK
<1>3. ASSUME NEW x \in Worker, NEW y \in Worker, x # y, JobStep(x)
      PROVE  Still(y)
  <2>1. CASE \E q : Begun(x) /\ EndJob(x, q)
    BY <1>3, <2>1, EndJobFacts
  <2>2. CASE RejectMalformed(x) \/ FinishFailure(x) \/ RetryLands(x) \/ DeadLetterFails(x)
    BY <1>3, <2>2 DEF RejectMalformed, FinishFailure, RetryLands, DeadLetterFails,
       Still, TypeOK, Parses
  <2>3. CASE StartJob(x) \/ Unwind(x)
    BY <1>3, <2>3 DEF StartJob, Track, Unwind, Still, TypeOK, Parses
  <2>4. CASE DeadLetterSent(x)
    BY <1>3, <2>1, <2>4 DEF DeadLetterSent, Begun, Still, TypeOK
  <2>5. CASE FinishSuccess(x) \/ RetryEnds(x) \/ ExtendEnds(x) \/ CleanupEnds(x)
    BY <2>1, <2>5 DEF FinishSuccess, RetryEnds, ExtendEnds, CleanupEnds, Begun, Cleaning
  <2>6. ASSUME NEW outcome, RunReturns(x, outcome)
        PROVE  Still(y)
    BY <1>3, <2>6 DEF RunReturns, Still, TypeOK
  <2> QED BY <1>3, <2>2, <2>3, <2>4, <2>5, <2>6 DEF JobStep
<1>4. ASSUME NEW x \in Worker, WorkerStep(x)
      PROVE  Still(v) \/ Still(w)
  <2>1. PICK y \in {v, w} : y # x
    OBVIOUS
  <2> QED BY <1>2, <1>3, <1>4, <2>1 DEF WorkerStep
<1>5. CASE KillStep
  <2>1. ASSUME NEW c, StopProcess(c)
        PROVE  Still(v)
    BY <2>1 DEF StopProcess, Still
  <2>2. CASE StopProcessCancels
    <3>1. kill.worker \in inflightTask => {kill.worker} \in SUBSET Worker
      BY DEF TypeOK
    <3> QED BY <2>2, <3>1, CancelJobsFacts DEF StopProcessCancels, Still
  <2>3. CASE StopProcessReturns
    BY <2>3 DEF StopProcessReturns, Still
  <2> QED BY <1>5, <2>1, <2>2, <2>3 DEF KillStep
<1>6. ASSUME NEW S \in SUBSET Worker, CancelWorkers(S)
      PROVE  Winds(v)
  <2>1. {x \in S : workerLoop[x] = "busy"} \in SUBSET Worker
    OBVIOUS
  <2>2. CancelJobs({x \in S : workerLoop[x] = "busy"})
    BY <1>6 DEF CancelWorkers
  <2> QED BY <2>1, <2>2, CancelJobsFacts
<1>7. CASE FreshService
  BY <1>7 DEF FreshService, LetsGo
<1>8. CASE ControlStep
  <2>0. workerTasks \in SUBSET Worker /\ inflightTask \in SUBSET Worker
    BY DEF TypeOK
  <2>1. CASE Interrupt \/ StopService \/ \E x \in Worker : StopWorker(x)
    BY <1>6, <2>0, <2>1 DEF Interrupt, StopService, StopWorker
  <2>2. CASE StopServiceCancelsJobs
    BY <2>0, <2>2, CancelJobsFacts DEF StopServiceCancelsJobs
  <2>3. CASE StopServiceCloses
    BY <2>3 DEF StopServiceCloses, Untracks
  <2>4. CASE StopWorkerFinishes
    BY <2>4 DEF StopWorkerFinishes, Still, TypeOK
  <2>5. CASE Restart
    BY <2>5, <1>7 DEF Restart
  <2> QED BY <1>8, <2>1, <2>2, <2>3, <2>4, <2>5 DEF ControlStep
<1> QED BY <1>0, <1>1, <1>4, <1>5, <1>7, <1>8 DEF FullNext, Next, Crash

(* The handles of a job stay its own.                                      *)
LEMMA HandlesStep ==
  ASSUME TypeOK, BusyWithJob, HandlesOfJob, CleanArrival, [FullNext]_vars
  PROVE  HandlesOfJob'
<1> SUFFICES ASSUME NEW w \in Worker
             PROVE  /\ Begun(w)' /\ inflightMessage'[w] # None =>
                         inflightMessage'[w].msg = job'[w].msg
                    /\ renew'[w].st # "off" => Begun(w)' /\ job'[w].pc # "unwinding"
                    /\ renew'[w].on # None => renew'[w].on.msg = job'[w].msg
                    /\ job'[w].arg # None => job'[w].arg.msg = job'[w].msg
  BY DEF HandlesOfJob
<1>0. /\ Begun(w) /\ inflightMessage[w] # None => inflightMessage[w].msg = job[w].msg
      /\ renew[w].st # "off" => Begun(w) /\ job[w].pc # "unwinding"
      /\ renew[w].on # None => renew[w].on.msg = job[w].msg
      /\ job[w].arg # None => job[w].arg.msg = job[w].msg
      /\ renew[w] \in Renew \cup {NoRenew}
      /\ renew[w].st = "off" => renew[w] = NoRenew
  BY DEF HandlesOfJob, TypeOK, Renew, NoRenew
<1>1. CASE Still(w)
  BY <1>0, <1>1 DEF Still, Begun
<1>2. CASE Ends(w)
  BY <1>0, <1>2 DEF Ends, NoRenew, Begun
<1>3. CASE Arrives(w)
  BY <1>0, <1>3 DEF Arrives, SameTracking, Begun, NoRenew
<1>4. CASE Begins(w)
  BY <1>0, <1>4 DEF Begins, SameJob, Begun
<1>5. CASE GoesOn(w)
  <2>1. inflightMessage[w] # None => inflightMessage[w].msg = job[w].msg
    BY <1>0, <1>5 DEF GoesOn, CleanArrival
  <2>2. HeldBy(w).msg = job[w].msg
    BY <2>1 DEF HeldBy
  <2>3. renew'[w].st # "off" => renew'[w] = renew[w]
    BY <1>5 DEF GoesOn, NoRenew
  <2>4. renew'[w].on # None => renew'[w] = renew[w]
    BY <1>5 DEF GoesOn, NoRenew
  <2>5. job'[w].arg # None => job'[w].arg.msg = job'[w].msg
    BY <1>0, <2>2, <1>5, QueueAssumption DEF GoesOn, SameJob
  <2>6. inflightMessage'[w] # None => inflightMessage'[w].msg = job'[w].msg
    BY <2>1, <1>5 DEF GoesOn, SameJob, SameTracking
  <2>7. renew'[w].on # None => renew'[w].on.msg = job'[w].msg
    BY <1>0, <1>5, <2>4 DEF GoesOn, SameJob
  <2>8. Begun(w)' /\ job'[w].pc # "unwinding"
    BY <1>5 DEF GoesOn
  <2> QED BY <2>5, <2>6, <2>7, <2>8 DEF Begun
<1>6. CASE Renewing(w)
  <2>1. renew[w].on \in Handle => renew[w].on.msg = job[w].msg
    BY <1>0, QueueAssumption
  <2>2. Begun(w) /\ job[w].pc # "unwinding" /\ job'[w] = job[w]
    BY <1>0, <1>6 DEF Renewing
  <2>3. inflightMessage'[w] # None => inflightMessage'[w].msg = job[w].msg
    BY <1>0, <1>6, <2>1, <2>2 DEF Renewing
  <2>4. renew'[w].on # None => renew'[w].on.msg = job[w].msg
    BY <1>0, <1>6, <2>1, <2>2 DEF Renewing
  <2> QED BY <1>0, <2>2, <2>3, <2>4 DEF Begun
<1>7. CASE LetsGo(w)
  BY <1>0, <1>7 DEF LetsGo, Begun, NoJob, NoRenew
<1>8. CASE Untracks(w)
  BY <1>0, <1>8 DEF Untracks, Begun
<1> QED BY <1>1, <1>2, <1>3, <1>4, <1>5, <1>6, <1>7, <1>8, EveryStepIsLocal DEF LocalStep

(* What is tracked for a claim is of that claim.                           *)
LEMMA ClaimStep ==
  ASSUME TypeOK, BusyWithJob, HandlesOfJob, HandlesOfClaim, [FullNext]_vars
  PROVE  HandlesOfClaim'
<1> USE QueueAssumption
<1> SUFFICES ASSUME NEW w \in Worker, inflight'[w] # None
             PROVE  /\ inflightMessage'[w] # None =>
                         ClaimOf[inflightMessage'[w].msg] = inflight'[w]
                    /\ renew'[w].st # "off" => ClaimOf[job'[w].msg] = inflight'[w]
  BY DEF HandlesOfClaim
<1>0. /\ inflight[w] # None =>
           /\ inflightMessage[w] # None => ClaimOf[inflightMessage[w].msg] = inflight[w]
           /\ renew[w].st # "off" => ClaimOf[job[w].msg] = inflight[w]
      /\ renew[w].on # None => renew[w].on.msg = job[w].msg
      /\ renew[w].st # "off" => Begun(w)
  BY DEF HandlesOfClaim, HandlesOfJob
<1>1. CASE Still(w)
  BY <1>0, <1>1 DEF Still
<1>2. CASE Ends(w)
  <2>1. job[w].arg \in Handle => job[w].arg.msg = job[w].msg
    BY DEF HandlesOfJob
  <2> QED BY <1>0, <1>2, <2>1 DEF Ends, NoRenew
<1>3. CASE Arrives(w)
  BY <1>0, <1>3 DEF Arrives, SameTracking, Begun
<1>4. CASE Begins(w)
  BY <1>0, <1>4 DEF Begins, SameJob
<1>5. CASE GoesOn(w)
  BY <1>0, <1>5 DEF GoesOn, SameJob, SameTracking, NoRenew
<1>6. CASE Renewing(w)
  <2>1. renew[w].on \in Handle => renew[w].on # None
    OBVIOUS
  <2> QED BY <1>0, <1>6, <2>1 DEF Renewing
<1>7. CASE LetsGo(w)
  BY <1>0, <1>7 DEF LetsGo, Begun, NoRenew
<1>8. CASE Untracks(w)
  BY <1>0, <1>8 DEF Untracks
<1> QED BY <1>1, <1>2, <1>3, <1>4, <1>5, <1>6, <1>7, <1>8, EveryStepIsLocal DEF LocalStep

(* Histories only grow.                                                    *)
LEMMA HistoryGrows ==
  ASSUME TypeOK, [FullNext]_vars
  PROVE  /\ succeeded \subseteq succeeded' /\ killed \subseteq killed'
         /\ execFailed \subseteq execFailed' /\ dead \subseteq dead'
<1> USE DEF loops, tracking, requests, history
<1>0. CASE UNCHANGED vars
  BY <1>0 DEF vars
<1>1. CASE QueueStep
  BY <1>1, QueueStepIsStill DEF QueueStep
<1>2. ASSUME NEW w \in Worker,
             \/ \E m \in Msg : Receive(w, m)
             \/ WorkerResumes(w)
             \/ RenewStep(w)
      PROVE  UNCHANGED <<succeeded, killed, execFailed, dead>>
  BY <1>2 DEF Receive, WorkerResumes, RenewStep, RenewCalls, RenewLifetimeOver,
     RenewLands, RenewStores, RenewFails
<1>3. ASSUME NEW w \in Worker, JobStep(w)
      PROVE  /\ succeeded \subseteq succeeded' /\ killed \subseteq killed'
             /\ execFailed \subseteq execFailed' /\ dead \subseteq dead'
  BY <1>3 DEF JobStep, RejectMalformed, StartJob, RunReturns, FinishSuccess,
     FinishFailure, RetryLands, RetryEnds, DeadLetterSent, DeadLetterFails,
     ExtendEnds, CleanupEnds, Unwind, Parses, Cleaning
<1>4. CASE KillStep
  <2>1. kill.worker \in inflightTask => {kill.worker} \in SUBSET Worker
    BY DEF TypeOK
  <2> QED BY <1>4, <2>1, CancelJobsFacts
          DEF KillStep, StopProcess, StopProcessCancels, StopProcessReturns
<1>5. ASSUME NEW S \in SUBSET Worker, CancelWorkers(S)
      PROVE  dead \subseteq dead'
  <2>1. {x \in S : workerLoop[x] = "busy"} \in SUBSET Worker
    OBVIOUS
  <2>2. CancelJobs({x \in S : workerLoop[x] = "busy"})
    BY <1>5 DEF CancelWorkers
  <2> QED BY <2>1, <2>2, CancelJobsFacts
<1>6. CASE ControlStep
  <2>0. workerTasks \in SUBSET Worker /\ inflightTask \in SUBSET Worker
    BY DEF TypeOK
  <2>1. CASE Interrupt \/ StopService \/ \E x \in Worker : StopWorker(x)
    BY <1>5, <2>0, <2>1 DEF Interrupt, StopService, StopWorker
  <2>2. CASE StopServiceCancelsJobs
    BY <2>0, <2>2, CancelJobsFacts DEF StopServiceCancelsJobs
  <2>3. CASE StopServiceCloses \/ StopWorkerFinishes \/ Restart
    BY <2>3 DEF StopServiceCloses, StopWorkerFinishes, Restart
  <2> QED BY <1>6, <2>1, <2>2, <2>3 DEF ControlStep
<1> QED BY <1>0, <1>1, <1>2, <1>3, <1>4, <1>6 DEF FullNext, Next, WorkerStep, Crash

(* A job reaches the end of its failure or success path with a verdict.    *)
LEMMA VerdictStep ==
  ASSUME TypeOK, BusyWithJob, HandlesOfJob, VerdictFirst, [FullNext]_vars
  PROVE  VerdictFirst'
<1> SUFFICES ASSUME NEW w \in Worker
             PROVE  /\ job'[w].pc = "finishing" /\ job'[w].outcome = "success" =>
                         job'[w].msg \in succeeded'
                    /\ job'[w].pc = "cleanup" => job'[w].msg \in dead'
  BY DEF VerdictFirst
<1>0. /\ job[w].pc = "finishing" /\ job[w].outcome = "success" => job[w].msg \in succeeded
      /\ job[w].pc = "cleanup" => job[w].msg \in dead
      /\ succeeded \subseteq succeeded' /\ dead \subseteq dead'
  BY HistoryGrows DEF VerdictFirst
<1>1. CASE Still(w) \/ Ends(w) \/ Arrives(w)
  BY <1>0, <1>1 DEF Still, Ends, Arrives
<1>2. CASE Begins(w) \/ GoesOn(w)
  BY <1>0, <1>2 DEF Begins, GoesOn, SameJob
<1>3. CASE Renewing(w) \/ LetsGo(w) \/ Untracks(w)
  BY <1>0, <1>3 DEF Renewing, LetsGo, Untracks, NoJob
<1> QED BY <1>1, <1>2, <1>3, EveryStepIsLocal DEF LocalStep

-----------------------------------------------------------------------------
(* What one step may do to the queue.                                      *)

(* q is a queue one step may leave that removes none but the messages gone.*)
Moves(q, gone) ==
  /\ q \in [Msg -> QueueEntry]
  /\ \A m \in Msg :
       /\ q[m].count >= queue[m].count
       /\ \/ q[m].receipt = queue[m].receipt
          \/ q[m].receipt \notin KnownReceipts(m)
       /\ queue[m].loc = "unsent" <=> q[m].loc = "unsent"
       /\ queue[m].loc = "deleted" => q[m].loc = "deleted"
       /\ q[m].loc = "deleted" => queue[m].loc = "deleted" \/ m \in gone
       /\ q[m].late => q[m].loc \in {"visible", "leased"}

LEMMA StaysMoves ==
  ASSUME TypeOK, OnlySent, NEW gone
  PROVE  Moves(queue, gone)
BY DEF Moves, TypeOK, QueueEntry, OnlySent

LEMMA LateMoves ==
  ASSUME NEW q, NEW gone, Moves(q, gone), NEW H
  PROVE  Moves(WithLate(q, H), gone)
<1>1. WithLate(q, H) \in [Msg -> QueueEntry]
  BY WithLateType DEF Moves
<1>2. ASSUME NEW m \in Msg
      PROVE  /\ WithLate(q, H)[m].count = q[m].count
             /\ WithLate(q, H)[m].receipt = q[m].receipt
             /\ WithLate(q, H)[m].loc = q[m].loc
             /\ WithLate(q, H)[m].late => q[m].late \/ q[m].loc \in {"visible", "leased"}
  <2>1. q[m] \in QueueEntry
    BY DEF Moves
  <2>2. PICK late \in BOOLEAN :
          /\ WithLate(q, H)[m] = [q[m] EXCEPT !.late = late]
          /\ late => q[m].late \/ q[m].loc \in {"visible", "leased"}
    <3> DEFINE late == \/ q[m].late
                       \/ /\ q[m].loc \in {"visible", "leased"}
                          /\ [msg |-> m, receipt |-> q[m].receipt] \in H
    <3>1. WithLate(q, H)[m] = [q[m] EXCEPT !.late = late]
      BY DEF WithLate
    <3>2. late \in BOOLEAN
      BY <2>1 DEF QueueEntry
    <3> QED BY <3>1, <3>2
  <2> QED BY <2>1, <2>2 DEF QueueEntry
<1> QED BY <1>1, <1>2 DEF Moves

LEMMA DeleteMoves ==
  ASSUME TypeOK, OnlySent, NEW h \in Handle, NEW q \in DeleteOutcomes(h),
         NEW gone, h.msg \in gone
  PROVE  Moves(q, gone)
<1>1. CASE q = queue
  BY <1>1, StaysMoves
<1>2. CASE q = AfterDelete(h) /\ Current(h)
  <2>1. h.msg \in Msg /\ queue[h.msg] \in QueueEntry
    BY DEF TypeOK, Handle
  <2>2. [queue[h.msg] EXCEPT !.loc = "deleted", !.late = FALSE] \in QueueEntry
    BY <2>1 DEF QueueEntry
  <2>3. q = [queue EXCEPT ![h.msg] =
               [queue[h.msg] EXCEPT !.loc = "deleted", !.late = FALSE]]
    BY <1>2 DEF AfterDelete
  <2>4. q \in [Msg -> QueueEntry]
    BY <2>2, <2>3 DEF TypeOK
  <2>5. \A m \in Msg : m # h.msg => q[m] = queue[m]
    BY <2>3 DEF TypeOK
  <2>6. /\ q[h.msg].count = queue[h.msg].count
        /\ q[h.msg].receipt = queue[h.msg].receipt
        /\ q[h.msg].loc = "deleted" /\ q[h.msg].late = FALSE
        /\ queue[h.msg].loc # "unsent"
    BY <1>2, <2>1, <2>3 DEF TypeOK, QueueEntry, Current
  <2>7. queue[h.msg].count \in Nat
    BY <2>1, QueueAssumption DEF QueueEntry
  <2>8. Moves(queue, gone)
    BY StaysMoves
  <2> QED BY <2>4, <2>5, <2>6, <2>7, <2>8 DEF Moves
<1> QED BY <1>1, <1>2 DEF DeleteOutcomes, AfterDelete

LEMMA UpdateMoves ==
  ASSUME TypeOK, OnlySent, NEW h \in Handle, Current(h), NEW r \in FreshReceipts(h.msg),
         NEW gone
  PROVE  Moves(AfterUpdate(h, r), gone)
<1> DEFINE q == AfterUpdate(h, r)
<1>0. r \in Receipt /\ r \notin KnownReceipts(h.msg)
  BY FreshIsFresh
<1>1. h.msg \in Msg /\ queue[h.msg] \in QueueEntry
  BY DEF TypeOK, Handle
<1>2. q[h.msg] = [queue[h.msg] EXCEPT !.loc = "leased", !.receipt = r, !.late = FALSE]
  BY <1>1 DEF AfterUpdate, TypeOK
<1>3. q \in [Msg -> QueueEntry]
  BY <1>0, UpdateType
<1>4. \A m \in Msg : m # h.msg => q[m] = queue[m]
  BY DEF AfterUpdate, TypeOK
<1>5. /\ q[h.msg].count = queue[h.msg].count
      /\ q[h.msg].receipt = r
      /\ q[h.msg].loc = "leased" /\ q[h.msg].late = FALSE
      /\ queue[h.msg].loc \in {"visible", "leased"}
  BY <1>1, <1>2 DEF QueueEntry, Current
<1>6. queue[h.msg].count \in Nat
  BY <1>1, QueueAssumption DEF QueueEntry
<1>7. Moves(queue, gone)
  BY StaysMoves
<1> QED BY <1>0, <1>3, <1>4, <1>5, <1>6, <1>7 DEF Moves

(* The messages that may be gone after a step.                             *)
Verdicts == succeeded \cup dead \cup killed

LEMMA HeldIsOwn ==
  ASSUME TypeOK, HandlesOfJob, NEW w \in Worker, Begun(w)
  PROVE  HeldBy(w).msg = job[w].msg
BY DEF HandlesOfJob, HeldBy

LEMMA EveryStepMoves ==
  ASSUME TypeOK, BusyWithJob, HandlesOfJob, HandlesOfClaim, VerdictFirst, OnlySent,
         [FullNext]_vars, \A m \in Msg : ~Accept(m)
  PROVE  Moves(queue', Verdicts')
<1> USE QueueAssumption
<1> USE DEF loops, tracking, requests, history
<1> DEFINE G == Verdicts'
<1>s. Moves(queue, G)
  BY StaysMoves
<1>0. CASE UNCHANGED queue
  BY <1>s, <1>0 DEF Moves
<1>1. ASSUME NEW m \in Msg, Expire(m)
      PROVE  Moves(queue', G)
  <2>1. /\ queue[m] \in QueueEntry /\ queue[m].loc = "leased"
        /\ queue' = [queue EXCEPT ![m].loc = "visible"]
    BY <1>1 DEF Expire, TypeOK
  <2>2. /\ queue'[m] \in QueueEntry
        /\ queue'[m].loc = "visible" /\ queue'[m].count = queue[m].count
        /\ queue'[m].receipt = queue[m].receipt
    BY <2>1 DEF QueueEntry, TypeOK
  <2>3. queue' \in [Msg -> QueueEntry] /\ \A x \in Msg : x # m => queue'[x] = queue[x]
    BY <2>1, <2>2 DEF TypeOK
  <2> QED BY <1>s, <2>1, <2>2, <2>3 DEF Moves
<1>2. ASSUME NEW m \in Msg, LateCallLands(m)
      PROVE  Moves(queue', G)
  <2> DEFINE h == [msg |-> m, receipt |-> queue[m].receipt]
  <2>1. queue[m] \in QueueEntry /\ queue[m].loc \in {"visible", "leased"}
    BY <1>2 DEF LateCallLands, OnlySent, TypeOK
  <2>2. ASSUME NEW r \in FreshReceipts(m), queue' = AfterUpdate(h, r)
        PROVE  Moves(queue', G)
    <3>1. r \in Receipt /\ r \notin KnownReceipts(m)
      BY FreshIsFresh
    <3>2. queue'[m] = [queue[m] EXCEPT !.loc = "leased", !.receipt = r, !.late = FALSE]
      BY <2>2 DEF AfterUpdate, TypeOK
    <3>3. /\ queue'[m] \in QueueEntry /\ queue'[m].loc = "leased"
          /\ queue'[m].count = queue[m].count /\ queue'[m].receipt = r
      BY <2>1, <3>1, <3>2 DEF QueueEntry
    <3>4. queue' \in [Msg -> QueueEntry] /\ \A x \in Msg : x # m => queue'[x] = queue[x]
      BY <2>2, <3>2, <3>3 DEF AfterUpdate, TypeOK
    <3> QED BY <1>s, <2>1, <3>1, <3>3, <3>4 DEF Moves
  <2>3. CASE queue' = [queue EXCEPT ![m].late = FALSE]
    <3>1. /\ queue'[m] \in QueueEntry /\ queue'[m].loc = queue[m].loc
          /\ queue'[m].count = queue[m].count
          /\ queue'[m].receipt = queue[m].receipt
      BY <2>1, <2>3 DEF QueueEntry, TypeOK
    <3>2. queue' \in [Msg -> QueueEntry] /\ \A x \in Msg : x # m => queue'[x] = queue[x]
      BY <2>3, <3>1 DEF TypeOK
    <3> QED BY <1>s, <2>1, <3>1, <3>2 DEF Moves
  <2> QED BY <1>2, <2>2, <2>3 DEF LateCallLands
<1>3. ASSUME NEW w \in Worker, NEW m \in Msg, Receive(w, m)
      PROVE  Moves(queue', G)
  <2> DEFINE n == IF queue[m].count < MaxAttempts
                  THEN queue[m].count + 1 ELSE MaxAttempts
  <2>1. PICK r \in FreshReceipts(m) :
          queue' = [queue EXCEPT ![m] = [loc |-> "leased", count |-> n,
                                         receipt |-> r, late |-> FALSE]]
    BY <1>3 DEF Receive
  <2>2. r \in Receipt /\ r \notin KnownReceipts(m)
    BY FreshIsFresh
  <2>3. queue[m] \in QueueEntry /\ queue[m].loc = "visible"
    BY <1>3 DEF Receive, TypeOK
  <2>4. n \in 0..MaxAttempts /\ n >= queue[m].count
    BY <2>3 DEF QueueEntry
  <2>5. queue'[m] = [loc |-> "leased", count |-> n, receipt |-> r, late |-> FALSE]
    BY <2>1 DEF TypeOK
  <2>6. queue' \in [Msg -> QueueEntry] /\ \A x \in Msg : x # m => queue'[x] = queue[x]
    BY <2>1, <2>2, <2>4, <2>5 DEF TypeOK, QueueEntry
  <2> QED BY <1>s, <2>2, <2>3, <2>4, <2>5, <2>6 DEF Moves
<1>e. ASSUME NEW w \in Worker, Begun(w), NEW q, Moves(q, G), EndJob(w, q)
      PROVE  Moves(queue', G)
  BY <1>e, EndJobFacts, LateMoves
<1>d. ASSUME NEW w \in Worker, Begun(w), job[w].msg \in G,
             \E q \in DeleteOutcomes(HeldBy(w)) : EndJob(w, q)
      PROVE  Moves(queue', G)
  <2>1. PICK q \in DeleteOutcomes(HeldBy(w)) : EndJob(w, q)
    BY <1>d
  <2>2. HeldBy(w) \in Handle
    BY <1>d, HasJob, HeldType DEF Begun
  <2>3. Moves(q, G)
    BY <1>d, <2>2, HeldIsOwn, DeleteMoves
  <2> QED BY <1>d, <1>e, <2>1, <2>3
<1>4. ASSUME NEW w \in Worker, JobStep(w)
      PROVE  Moves(queue', G)
  <2>0. job[w].pc # "none" /\ job[w] \in Job
    BY <1>4, HasJob DEF JobStep, RejectMalformed, StartJob, RunReturns,
       FinishSuccess, FinishFailure, RetryLands, RetryEnds, DeadLetterSent,
       DeadLetterFails, ExtendEnds, CleanupEnds, Unwind, Parses, Cleaning
  <2>1. CASE RejectMalformed(w) \/ StartJob(w) \/ FinishFailure(w)
             \/ DeadLetterFails(w) \/ Unwind(w)
    BY <1>0, <2>1 DEF RejectMalformed, StartJob, FinishFailure, DeadLetterFails, Unwind,
                      Parses
  <2>2. ASSUME NEW outcome, RunReturns(w, outcome)
        PROVE  Moves(queue', G)
    BY <1>s, <2>2, LateMoves DEF RunReturns
  <2>3. CASE FinishSuccess(w)
    <3>1. job[w].msg \in G
      BY <2>3 DEF FinishSuccess, VerdictFirst, Verdicts
    <3> QED BY <1>d, <2>3, <3>1 DEF FinishSuccess, Begun
  <2>4. CASE RetryLands(w)
    <3>1. job[w].arg \in Handle
      BY <2>0, <2>4, HeldArg DEF RetryLands
    <3> QED BY <2>4, <3>1, UpdateMoves DEF RetryLands
  <2>5. CASE RetryEnds(w)
    BY <1>e, <1>s, <2>5 DEF RetryEnds, Begun
  <2>6. CASE DeadLetterSent(w)
    <3>1. job[w].msg \in G
      BY <2>6 DEF DeadLetterSent, Verdicts
    <3> QED BY <1>0, <1>d, <2>6, <3>1 DEF DeadLetterSent, Begun
  <2>7. CASE ExtendEnds(w)
    <3>1. job[w].arg \in Handle
      BY <2>0, <2>7, HeldArg DEF ExtendEnds
    <3> QED BY <1>e, <1>s, <2>7, <3>1, UpdateMoves DEF ExtendEnds, Begun
  <2>8. CASE CleanupEnds(w)
    <3>1. job[w].msg \in G
      BY <2>8 DEF CleanupEnds, VerdictFirst, Verdicts, Cleaning
    <3> QED BY <1>d, <2>8, <3>1 DEF CleanupEnds, Begun, Cleaning
  <2> QED BY <1>4, <2>1, <2>2, <2>3, <2>4, <2>5, <2>6, <2>7, <2>8 DEF JobStep
<1>5. ASSUME NEW w \in Worker, RenewStep(w)
      PROVE  Moves(queue', G)
  <2>1. CASE RenewLands(w)
    <3>1. renew[w].on \in Handle
      BY <2>1 DEF RenewLands, TypeOK, Renew, NoRenew
    <3>2. PICK r \in FreshReceipts(renew[w].on.msg) : queue' = AfterUpdate(renew[w].on, r)
      BY <2>1 DEF RenewLands
    <3> QED BY <2>1, <3>1, <3>2, UpdateMoves DEF RenewLands
  <2> QED BY <1>0, <1>5, <2>1 DEF RenewStep, RenewCalls, RenewLifetimeOver,
             RenewStores, RenewFails
<1>6. CASE KillStep
  <2>1. ASSUME NEW c \in Claim, StopProcess(c)
        PROVE  Moves(queue', G)
    <3>1. PICK w \in Worker :
            /\ inflight[w] = c
            /\ IF inflightMessage[w] # None
               THEN queue' \in DeleteOutcomes(inflightMessage[w])
               ELSE UNCHANGED queue
      BY <2>1 DEF StopProcess
    <3>2. CASE inflightMessage[w] # None /\ Current(inflightMessage[w])
      <4>1. inflightMessage[w] \in Handle
        BY <3>2 DEF TypeOK
      <4>2. ClaimOf[inflightMessage[w].msg] = c
        BY <3>1, <3>2 DEF HandlesOfClaim
      <4>3. inflightMessage[w].msg \in G
        BY <2>1, <3>2, <4>1, <4>2 DEF StopProcess, Current, Handle, Verdicts
      <4> QED BY <3>1, <3>2, <4>1, <4>3, DeleteMoves
    <3>3. CASE ~(inflightMessage[w] # None /\ Current(inflightMessage[w]))
      BY <1>0, <3>1, <3>3 DEF DeleteOutcomes, AfterDelete
    <3> QED BY <3>2, <3>3
  <2>2. CASE StopProcessCancels
    <3>1. kill.worker \in inflightTask => {kill.worker} \in SUBSET Worker
      BY DEF TypeOK
    <3> QED BY <1>0, <1>s, <2>2, <3>1, CancelJobsFacts, LateMoves DEF StopProcessCancels
  <2>3. CASE StopProcessReturns
    BY <1>0, <2>3 DEF StopProcessReturns
  <2> QED BY <1>6, <2>1, <2>2, <2>3 DEF KillStep
<1>7. ASSUME NEW S \in SUBSET Worker, CancelWorkers(S)
      PROVE  Moves(queue', G)
  <2>1. {x \in S : workerLoop[x] = "busy"} \in SUBSET Worker
    OBVIOUS
  <2>2. CancelJobs({x \in S : workerLoop[x] = "busy"})
    BY <1>7 DEF CancelWorkers
  <2> QED BY <1>s, <2>1, <2>2, CancelJobsFacts, LateMoves
<1>8. CASE ControlStep
  <2>0. workerTasks \in SUBSET Worker /\ inflightTask \in SUBSET Worker
    BY DEF TypeOK
  <2>1. CASE Interrupt \/ StopService \/ \E x \in Worker : StopWorker(x)
    BY <1>7, <2>0, <2>1 DEF Interrupt, StopService, StopWorker
  <2>2. CASE StopServiceCancelsJobs
    BY <1>s, <2>0, <2>2, CancelJobsFacts, LateMoves DEF StopServiceCancelsJobs
  <2>3. CASE StopServiceCloses \/ StopWorkerFinishes \/ Restart
    BY <1>0, <2>3 DEF StopServiceCloses, StopWorkerFinishes, Restart
  <2> QED BY <1>8, <2>1, <2>2, <2>3 DEF ControlStep
<1>9. CASE (\E w \in Worker : WorkerResumes(w)) \/ Crash \/ UNCHANGED vars
  BY <1>0, <1>9 DEF WorkerResumes, Crash, vars
<1> QED BY <1>1, <1>2, <1>3, <1>4, <1>5, <1>6, <1>8, <1>9
        DEF FullNext, Next, WorkerStep, QueueStep

-----------------------------------------------------------------------------
(* What one step may do to the entry of message m.                         *)
Flows(m) ==
  /\ queue[m].count \in Nat /\ queue'[m].count \in Nat
  /\ queue'[m].count >= queue[m].count
  /\ \/ queue'[m].receipt = queue[m].receipt
     \/ queue'[m].receipt \notin KnownReceipts(m)
  /\ queue'[m].loc = "unsent" => queue[m].loc = "unsent"
  /\ queue[m].loc = "deleted" => queue'[m].loc = "deleted"
  /\ queue'[m].loc = "deleted" => queue[m].loc = "deleted" \/ m \in Verdicts'
  /\ queue'[m].late => queue'[m].loc \in {"visible", "leased"}

(* Accept changes one unsent entry, every other step is one of Moves.      *)
LEMMA EveryStepFlows ==
  ASSUME TypeOK, BusyWithJob, HandlesOfJob, HandlesOfClaim, VerdictFirst, OnlySent,
         [FullNext]_vars, NEW m \in Msg
  PROVE  Flows(m)
<1>0. queue[m] \in QueueEntry /\ queue[m].count \in Nat
  BY QueueAssumption DEF TypeOK, QueueEntry
<1>1. ASSUME NEW n \in Msg, Accept(n)
      PROVE  Flows(m)
  <2>1. /\ queue'[m].count = queue[m].count /\ queue'[m].receipt = queue[m].receipt
        /\ queue'[m].late = queue[m].late
        /\ \/ queue'[m].loc = queue[m].loc
           \/ queue[m].loc = "unsent" /\ queue'[m].loc = "visible"
    BY <1>0, <1>1 DEF Accept, TypeOK, QueueEntry
  <2> QED BY <1>0, <2>1 DEF Flows, OnlySent
<1>2. CASE \A n \in Msg : ~Accept(n)
  <2>1. Moves(queue', Verdicts')
    BY <1>2, EveryStepMoves
  <2>2. queue'[m] \in QueueEntry
    BY <2>1 DEF Moves
  <2>3. queue'[m].count \in Nat
    BY <2>2, QueueAssumption DEF QueueEntry
  <2> QED BY <1>0, <2>1, <2>3 DEF Moves, Flows
<1> QED BY <1>1, <1>2

(* Work goes on only on sent messages.                                     *)
LEMMA OnlySentStep ==
  ASSUME TypeOK, BusyWithJob, HandlesOfJob, OnlySent, [FullNext]_vars,
         \A m \in Msg : Flows(m)
  PROVE  OnlySent'
<1>1. ASSUME NEW m \in Msg, queue'[m].late
      PROVE  queue'[m].loc \in {"visible", "leased"}
  BY <1>1 DEF Flows
<1>2. ASSUME NEW w \in Worker, job'[w].pc # "none"
      PROVE  queue'[job'[w].msg].loc # "unsent"
  <2>1. CASE Arrives(w)
    BY <2>1 DEF Arrives
  <2>2. CASE job[w].pc # "none" /\ job'[w].msg = job[w].msg
    <3>1. job[w].msg \in Msg
      BY <2>2, HasJob DEF Job, JobAt
    <3> QED BY <2>2, <3>1 DEF OnlySent, Flows
  <2>3. CASE Still(w) \/ Ends(w) \/ Begins(w) \/ GoesOn(w) \/ Renewing(w) \/ Untracks(w)
    BY <1>2, <2>2, <2>3 DEF Still, Ends, Begins, GoesOn, SameJob, Renewing, Untracks,
       Job, JobAt
  <2>4. CASE LetsGo(w)
    BY <1>2, <2>4 DEF LetsGo, NoJob
  <2> QED BY <2>1, <2>3, <2>4, EveryStepIsLocal DEF LocalStep
<1> QED BY <1>1, <1>2 DEF OnlySent

LEMMA NoMessageLostStep ==
  ASSUME TypeOK, NoMessageLost, [FullNext]_vars, \A m \in Msg : Flows(m)
  PROVE  NoMessageLost'
BY HistoryGrows DEF NoMessageLost, Flows, Verdicts

-----------------------------------------------------------------------------
(* Without the operator's commands nothing stays tracked.                  *)

(* A job that ends in a step of the worker itself clears its tracking.     *)
LEMMA EndsTidily ==
  ASSUME TypeOK, [Next]_vars, NEW w \in Worker,
         job[w].pc \notin {"none", "ended"}, job'[w].pc = "ended"
  PROVE  inflight'[w] = None /\ inflightMessage'[w] = None
<1> USE DEF loops, tracking, requests, history
<1>0. job[w] \in Job
  BY HasJob
<1>1. CASE UNCHANGED vars \/ QueueStep
  BY <1>1, QueueStepIsStill DEF QueueStep, vars
<1>2. ASSUME NEW x \in Worker,
             (\E m \in Msg : Receive(x, m)) \/ WorkerResumes(x) \/ RenewStep(x)
      PROVE  FALSE
  <2>1. ASSUME NEW m \in Msg, Receive(x, m)
        PROVE  job'[w].pc # "ended"
    <3> DEFINE n == IF queue[m].count < MaxAttempts
                    THEN queue[m].count + 1 ELSE MaxAttempts
    <3>1. PICK r \in FreshReceipts(m) :
            job' = [job EXCEPT ![x] = [NoJob EXCEPT !.pc = "created", !.msg = m,
                                                    !.receipt = r, !.attempt = n]]
      BY <2>1 DEF Receive
    <3> QED BY <3>1 DEF NoJob, TypeOK
  <2>2. CASE WorkerResumes(x)
    BY <2>2 DEF WorkerResumes, NoJob, TypeOK
  <2>3. CASE RenewStep(x)
    BY <2>3 DEF RenewStep, RenewCalls, RenewLifetimeOver, RenewLands, RenewStores,
       RenewFails
  <2> QED BY <1>2, <2>1, <2>2, <2>3
<1>3. CASE Crash
  BY <1>3 DEF Crash, FreshService, NoJob
<1>e. ASSUME NEW x \in Worker, NEW q, EndJob(x, q)
      PROVE  inflight'[w] = None /\ inflightMessage'[w] = None
  <2>1. x = w /\ renew[w].st = "off"
    BY <1>0, <1>e DEF EndJob, TypeOK, Job, JobAt
  <2> QED BY <1>e, <2>1 DEF EndJob, TypeOK
<1>4. ASSUME NEW x \in Worker, JobStep(x)
      PROVE  inflight'[w] = None /\ inflightMessage'[w] = None
  <2>1. ASSUME NEW outcome \in Outcomes, NEW held,
               job' = [job EXCEPT ![x] = FailWith(x, outcome, held)]
        PROVE  FALSE
    BY <1>0, <2>1 DEF FailWith, TypeOK, Job, JobAt
  <2>2. CASE RejectMalformed(x)
    BY <2>1, <2>2 DEF RejectMalformed, Outcomes, Parses
  <2>3. CASE StartJob(x)
    <3>1. CASE job' = [job EXCEPT ![x].pc = "running"]
      BY <1>0, <3>1 DEF TypeOK, Job, JobAt
    <3> QED BY <2>1, <2>3, <3>1 DEF StartJob, Outcomes, Parses
  <2>4. CASE FinishFailure(x)
    <3>1. job[x].outcome \in Outcomes
      BY <2>4, HasJob DEF FinishFailure, Job, JobAt, Outcomes
    <3> QED BY <2>1, <2>4, <3>1 DEF FinishFailure
  <2>5. ASSUME NEW outcome, RunReturns(x, outcome)
        PROVE  FALSE
    BY <1>0, <2>5 DEF RunReturns, TypeOK, Job, JobAt
  <2>6. CASE RetryLands(x) \/ DeadLetterFails(x)
    BY <1>0, <2>6 DEF RetryLands, DeadLetterFails, TypeOK, Job, JobAt
  <2>7. CASE DeadLetterSent(x)
    <3>1. CASE job' = [job EXCEPT ![x].pc = "cleanup"]
      BY <1>0, <3>1 DEF TypeOK, Job, JobAt
    <3> QED BY <1>e, <2>7, <3>1 DEF DeadLetterSent
  <2>8. CASE Unwind(x)
    BY <1>0, <2>8 DEF Unwind, TypeOK, Job, JobAt
  <2>9. CASE FinishSuccess(x) \/ RetryEnds(x) \/ ExtendEnds(x) \/ CleanupEnds(x)
    BY <1>e, <2>9 DEF FinishSuccess, RetryEnds, ExtendEnds, CleanupEnds, Cleaning
  <2> QED BY <1>4, <2>2, <2>3, <2>4, <2>5, <2>6, <2>7, <2>8, <2>9 DEF JobStep
<1> QED BY <1>0, <1>1, <1>2, <1>3, <1>4 DEF Next, WorkerStep

LEMMA NothingLeftStep ==
  ASSUME TypeOK, BusyWithJob, HandlesOfJob, NothingLeft, [Next]_vars
  PROVE  NothingLeft'
<1> SUFFICES ASSUME NEW w \in Worker
             PROVE  /\ inflightMessage'[w] # None => Begun(w)'
                    /\ inflight'[w] # None =>
                         Begun(w)' /\ inflight'[w] = ClaimOf[job'[w].msg]
  BY DEF NothingLeft
<1>0. /\ inflightMessage[w] # None => Begun(w)
      /\ inflight[w] # None => Begun(w) /\ inflight[w] = ClaimOf[job[w].msg]
  BY DEF NothingLeft
<1>1. [FullNext]_vars
  BY DEF FullNext
<1>2. CASE Still(w)
  BY <1>0, <1>2 DEF Still, Begun
<1>3. CASE Ends(w)
  <2>1. CASE job'[w].pc = "unwinding"
    BY <1>0, <1>3, <2>1 DEF Ends, Begun
  <2>2. CASE job'[w].pc = "ended" /\ job[w].pc = "ended"
    BY <1>0, <1>3, <2>2 DEF Ends, Begun
  <2>3. CASE job'[w].pc = "ended" /\ job[w].pc # "ended"
    BY <1>3, <2>3, EndsTidily DEF Ends, Job, JobAt
  <2> QED BY <1>3, <2>1, <2>2, <2>3 DEF Ends
<1>4. CASE Arrives(w)
  BY <1>0, <1>4 DEF Arrives, SameTracking, Begun
<1>5. CASE Begins(w)
  BY <1>0, <1>5 DEF Begins, SameJob, Begun
<1>6. CASE GoesOn(w)
  BY <1>0, <1>6 DEF GoesOn, SameJob, SameTracking
<1>7. CASE Renewing(w)
  BY <1>0, <1>7 DEF Renewing, HandlesOfJob, Begun
<1>8. CASE LetsGo(w)
  BY <1>0, <1>8 DEF LetsGo, Begun
<1>9. CASE Untracks(w)
  BY <1>9 DEF Untracks
<1> QED BY <1>1, <1>2, <1>3, <1>4, <1>5, <1>6, <1>7, <1>8, <1>9, EveryStepIsLocal
        DEF LocalStep

-----------------------------------------------------------------------------
(* Dead-lettering.                                                         *)

(* A job to be dead-lettered has a reason to be.                           *)
LEMMA ReasonStep ==
  ASSUME TypeOK, BusyWithJob, HandlesOfJob, ReasonFirst, [FullNext]_vars,
         \A m \in Msg : Flows(m)
  PROVE  ReasonFirst'
<1> SUFFICES ASSUME NEW w \in Worker
             PROVE  /\ job'[w].outcome = "malformed" => ClaimOf[job'[w].msg] = Malformed
                    /\ job'[w].outcome = "executor" => job'[w].msg \in execFailed'
                    /\ job'[w].pc # "none" => job'[w].attempt <= queue'[job'[w].msg].count
                    /\ job'[w].pc = "dlq" => DeadLetters(job'[w], job'[w].outcome)
  BY DEF ReasonFirst, DeadLetters
<1>0. /\ job[w].outcome = "malformed" => ClaimOf[job[w].msg] = Malformed
      /\ job[w].outcome = "executor" => job[w].msg \in execFailed
      /\ job[w].pc # "none" => job[w].attempt <= queue[job[w].msg].count
      /\ job[w].pc = "dlq" => DeadLetters(job[w], job[w].outcome)
      /\ execFailed \subseteq execFailed'
  BY HistoryGrows DEF ReasonFirst
<1>1. ASSUME job[w].pc # "none", job'[w].msg = job[w].msg, job'[w].attempt = job[w].attempt
      PROVE  job'[w].attempt <= queue'[job'[w].msg].count
  <2>1. job[w].msg \in Msg /\ job[w].attempt \in Nat
    BY <1>1, HasJob, QueueAssumption DEF Job, JobAt
  <2>2. Flows(job[w].msg)
    BY <2>1
  <2> QED BY <1>0, <1>1, <2>1, <2>2 DEF Flows
<1>2. CASE Still(w) \/ Renewing(w) \/ Untracks(w)
  BY <1>0, <1>1, <1>2 DEF Still, Renewing, Untracks
<1>3. CASE Ends(w)
  BY <1>0, <1>1, <1>3 DEF Ends, Job, JobAt
<1>4. CASE Arrives(w)
  BY <1>4 DEF Arrives
<1>5. CASE Begins(w)
  BY <1>0, <1>1, <1>5 DEF Begins, SameJob
<1>6. CASE GoesOn(w)
  BY <1>0, <1>1, <1>6 DEF GoesOn, SameJob
<1>7. CASE LetsGo(w)
  BY <1>7 DEF LetsGo, NoJob
<1> QED BY <1>2, <1>3, <1>4, <1>5, <1>6, <1>7, EveryStepIsLocal DEF LocalStep

(* Entries reach the dead-letter queue from jobs that send them.           *)
LEMMA DeadGrows ==
  ASSUME TypeOK, [FullNext]_vars, NEW m \in dead', m \notin dead
  PROVE  \E w \in Worker : /\ job[w].pc = "dlq" /\ job[w].msg = m
                           /\ job'[w].pc \in {"none", "cleanup", "unwinding", "ended"}
<1> USE DEF loops, tracking, requests, history
<1>1. CASE UNCHANGED vars \/ QueueStep \/ \E w \in Worker : WorkerResumes(w)
  BY <1>1, QueueStepIsStill DEF QueueStep, WorkerResumes, vars
<1>2. ASSUME NEW w \in Worker, (\E n \in Msg : Receive(w, n)) \/ RenewStep(w)
      PROVE  FALSE
  BY <1>2 DEF Receive, RenewStep, RenewCalls, RenewLifetimeOver, RenewLands,
     RenewStores, RenewFails
<1>3. ASSUME NEW w \in Worker, JobStep(w)
      PROVE  /\ job[w].pc = "dlq" /\ job[w].msg = m
             /\ job'[w].pc \in {"none", "cleanup", "unwinding", "ended"}
  <2>1. DeadLetterSent(w)
    BY <1>3 DEF JobStep, RejectMalformed, StartJob, RunReturns, FinishSuccess,
       FinishFailure, RetryLands, RetryEnds, DeadLetterFails, ExtendEnds, CleanupEnds,
       Unwind, Parses, Cleaning
  <2>2. job[w].pc = "dlq" /\ job[w].msg = m /\ job[w] \in Job
    BY <2>1, HasJob DEF DeadLetterSent
  <2>3. CASE job' = [job EXCEPT ![w].pc = "cleanup"]
    BY <2>2, <2>3 DEF TypeOK, Job, JobAt
  <2>4. ASSUME NEW q, EndJob(w, q)
        PROVE  job'[w].pc \in {"unwinding", "ended"}
    BY <2>2, <2>4 DEF EndJob, TypeOK, Job, JobAt
  <2> QED BY <2>1, <2>2, <2>3, <2>4 DEF DeadLetterSent
<1>c. ASSUME NEW S \in SUBSET Worker, CancelJobs(S)
      PROVE  \E w \in Worker : /\ job[w].pc = "dlq" /\ job[w].msg = m
                               /\ job'[w].pc \in {"unwinding", "ended"}
  BY <1>c, CancelJobsFacts
<1>4. CASE KillStep
  <2>1. kill.worker \in inflightTask => {kill.worker} \in SUBSET Worker
    BY DEF TypeOK
  <2> QED BY <1>4, <1>c, <2>1
          DEF KillStep, StopProcess, StopProcessCancels, StopProcessReturns
<1>5. ASSUME NEW S \in SUBSET Worker, CancelWorkers(S)
      PROVE  \E w \in Worker : /\ job[w].pc = "dlq" /\ job[w].msg = m
                               /\ job'[w].pc \in {"unwinding", "ended"}
  <2>1. {x \in S : workerLoop[x] = "busy"} \in SUBSET Worker
    OBVIOUS
  <2> QED BY <1>5, <1>c, <2>1 DEF CancelWorkers
<1>6. CASE ControlStep
  <2>0. workerTasks \in SUBSET Worker /\ inflightTask \in SUBSET Worker
    BY DEF TypeOK
  <2>1. CASE Interrupt \/ StopService \/ \E x \in Worker : StopWorker(x)
    BY <1>5, <2>0, <2>1 DEF Interrupt, StopService, StopWorker
  <2>2. CASE StopServiceCancelsJobs
    BY <1>c, <2>0, <2>2 DEF StopServiceCancelsJobs
  <2>3. CASE StopServiceCloses \/ StopWorkerFinishes \/ Restart
    BY <2>3 DEF StopServiceCloses, StopWorkerFinishes, Restart
  <2> QED BY <1>6, <2>1, <2>2, <2>3 DEF ControlStep
<1>7. CASE Crash
  BY <1>7 DEF Crash, FreshService, NoJob
<1> QED BY <1>1, <1>2, <1>3, <1>4, <1>6, <1>7 DEF FullNext, Next, WorkerStep

LEMMA DeadLetterJustifiedStep ==
  ASSUME TypeOK, ReasonFirst, DeadLetterJustified, [FullNext]_vars,
         \A m \in Msg : Flows(m), dead' \subseteq Msg
  PROVE  DeadLetterJustified'
<1> SUFFICES ASSUME NEW m \in dead'
             PROVE  \/ ClaimOf[m] = Malformed
                    \/ m \in execFailed'
                    \/ queue'[m].count >= MaxAttempts
  BY DEF DeadLetterJustified
<1>0. m \in Msg /\ Flows(m) /\ MaxAttempts \in Nat /\ execFailed \subseteq execFailed'
  BY HistoryGrows, QueueAssumption
<1>1. CASE m \in dead
  BY <1>0, <1>1 DEF DeadLetterJustified, Flows
<1>2. CASE m \notin dead
  <2>1. PICK w \in Worker : job[w].pc = "dlq" /\ job[w].msg = m
    BY <1>2, DeadGrows
  <2>2. job[w].attempt \in Nat /\ job[w].attempt <= queue[m].count
    BY <2>1, HasJob, QueueAssumption DEF ReasonFirst, Job, JobAt
  <2>3. DeadLetters(job[w], job[w].outcome)
    BY <2>1 DEF ReasonFirst
  <2> QED BY <1>0, <2>1, <2>2, <2>3 DEF DeadLetters, ReasonFirst, Flows
<1> QED BY <1>1, <1>2

-----------------------------------------------------------------------------
(* One delivery, one verdict.                                              *)

(* A job completes its message when its run has returned so.               *)
LEMMA SucceededGrows ==
  ASSUME TypeOK, [FullNext]_vars, NEW m \in succeeded', m \notin succeeded
  PROVE  \E w \in Worker : /\ job[w].pc = "running" /\ job[w].msg = m
                           /\ job'[w].pc = "finishing" /\ job'[w].outcome = "success"
<1> USE DEF loops, tracking, requests, history
<1>1. CASE UNCHANGED succeeded
  BY <1>1
<1>2. ASSUME NEW w \in Worker, NEW outcome, RunReturns(w, outcome)
      PROVE  /\ job[w].pc = "running" /\ job[w].msg = m
             /\ job'[w].pc = "finishing" /\ job'[w].outcome = "success"
  <2>1. job[w] \in Job /\ outcome = "success" /\ job[w].pc = "running" /\ job[w].msg = m
    BY <1>2, HasJob DEF RunReturns
  <2>2. job'[w] = [job[w] EXCEPT !.pc = "finishing", !.outcome = outcome]
    BY <1>2 DEF RunReturns, TypeOK
  <2> QED BY <2>1, <2>2 DEF Job, JobAt
<1>3. ASSUME NEW w \in Worker, WorkerStep(w)
      PROVE  UNCHANGED succeeded \/ \E outcome : RunReturns(w, outcome)
  BY <1>3 DEF WorkerStep, JobStep, RejectMalformed, StartJob, FinishSuccess, FinishFailure,
     RetryLands, RetryEnds, DeadLetterSent, DeadLetterFails, ExtendEnds, CleanupEnds,
     Unwind, Receive, RenewStep, RenewCalls, RenewLifetimeOver, RenewLands, RenewStores,
     RenewFails, WorkerResumes, Parses, Cleaning
<1>4. CASE UNCHANGED vars \/ QueueStep \/ Crash \/ KillStep \/ ControlStep
  <2>1. UNCHANGED succeeded
    BY <1>4, QueueStepIsStill DEF vars, QueueStep, Crash, KillStep, StopProcess,
       StopProcessCancels, StopProcessReturns, ControlStep, Interrupt, StopService,
       StopServiceCancelsJobs, StopServiceCloses, StopWorker, StopWorkerFinishes, Restart
  <2> QED BY <1>1, <2>1
<1> QED BY <1>1, <1>2, <1>3, <1>4 DEF FullNext, Next

(* What a job works on it worked on before, or has just received.          *)
LEMMA WorkGoesOn ==
  ASSUME TypeOK, BusyWithJob, HandlesOfJob, [FullNext]_vars,
         NEW w \in Worker, NEW m \in Msg, WorksOn(w, m)'
  PROVE  \/ Arrives(w) /\ job'[w].msg = m
         \/ /\ WorksOn(w, m) /\ ~Arrives(w)
            /\ AfterSuccess(w) => AfterSuccess(w)'
            /\ AfterDeadLetter(w) => AfterDeadLetter(w)'
<1> USE DEF WorksOn, AfterSuccess, AfterDeadLetter
<1>1. CASE Arrives(w)
  BY <1>1
<1>2. CASE ~Arrives(w)
  <2>1. CASE Still(w) \/ Renewing(w) \/ Untracks(w)
    BY <1>2, <2>1 DEF Still, Renewing, Untracks
  <2>2. CASE Ends(w)
    BY <1>2, <2>2 DEF Ends, Job, JobAt
  <2>3. CASE Begins(w)
    BY <1>2, <2>3 DEF Begins, SameJob
  <2>4. CASE GoesOn(w)
    BY <1>2, <2>4 DEF GoesOn, SameJob
  <2>5. CASE LetsGo(w)
    BY <2>5 DEF LetsGo, NoJob
  <2> QED BY <1>2, <2>1, <2>2, <2>3, <2>4, <2>5, EveryStepIsLocal DEF LocalStep
<1> QED BY <1>1, <1>2

(* A message that is dead-lettered is so by a job that is done with it.    *)
LEMMA FirstDeliveryStep ==
  ASSUME TypeOK, BusyWithJob, HandlesOfJob, FirstDelivery, MaxAttempts > 1,
         [FullNext]_vars, \A m \in Msg : Flows(m)
  PROVE  FirstDelivery'
<1> SUFFICES ASSUME NEW m \in Msg, queue'[m].count < 2
             PROVE  /\ \A v, w \in Worker : WorksOn(v, m)' /\ WorksOn(w, m)' => v = w
                    /\ queue'[m].count = 0 =>
                         m \notin succeeded' \cup dead' /\ \A w \in Worker : ~WorksOn(w, m)'
                    /\ m \notin succeeded' \cap dead'
                    /\ m \in succeeded' => \A w \in Worker : WorksOn(w, m)' => AfterSuccess(w)'
                    /\ m \in dead' => \A w \in Worker : WorksOn(w, m)' => AfterDeadLetter(w)'
  BY DEF FirstDelivery
<1> DEFINE n  == queue[m].count
           n1 == queue'[m].count
<1>1. n \in Nat /\ n1 \in Nat /\ n <= n1 /\ n < 2 /\ n1 < 2 /\ MaxAttempts \in Nat
  BY QueueAssumption DEF Flows
<1>2. /\ \A v, w \in Worker : WorksOn(v, m) /\ WorksOn(w, m) => v = w
      /\ n = 0 => m \notin succeeded \cup dead /\ \A w \in Worker : ~WorksOn(w, m)
      /\ m \notin succeeded \cap dead
      /\ m \in succeeded => \A w \in Worker : WorksOn(w, m) => AfterSuccess(w)
      /\ m \in dead => \A w \in Worker : WorksOn(w, m) => AfterDeadLetter(w)
  BY <1>1 DEF FirstDelivery
<1>3. ASSUME NEW w \in Worker, Arrives(w), job'[w].msg = m
      PROVE  n = 0 /\ n1 = 1
  <2>1. n1 = IF n < MaxAttempts THEN n + 1 ELSE MaxAttempts
    BY <1>3 DEF Arrives
  <2> HIDE DEF n, n1
  <2> QED BY <1>1, <2>1
<1> HIDE DEF n, n1
<1>4. ASSUME NEW w \in Worker, WorksOn(w, m)'
      PROVE  \/ Arrives(w) /\ n = 0 /\ n1 = 1
             \/ /\ WorksOn(w, m) /\ n # 0
                /\ AfterSuccess(w) => AfterSuccess(w)'
                /\ AfterDeadLetter(w) => AfterDeadLetter(w)'
  BY <1>2, <1>3, <1>4, WorkGoesOn
<1>5. ASSUME m \in succeeded', m \notin succeeded
      PROVE  \E w \in Worker : /\ WorksOn(w, m) /\ job[w].pc = "running"
                               /\ AfterSuccess(w)'
  <2>1. PICK w \in Worker : /\ job[w].pc = "running" /\ job[w].msg = m
                           /\ job'[w].pc = "finishing" /\ job'[w].outcome = "success"
    BY <1>5, SucceededGrows
  <2> QED BY <2>1 DEF WorksOn, AfterSuccess
<1>6. ASSUME m \in dead', m \notin dead
      PROVE  \E w \in Worker : /\ WorksOn(w, m) /\ job[w].pc = "dlq"
                               /\ WorksOn(w, m)' => AfterDeadLetter(w)'
  <2>1. PICK w \in Worker : /\ job[w].pc = "dlq" /\ job[w].msg = m
                           /\ job'[w].pc \in {"none", "cleanup", "unwinding", "ended"}
    BY <1>6, DeadGrows
  <2> QED BY <2>1 DEF WorksOn, AfterDeadLetter
<1>7. ASSUME NEW v \in Worker, NEW w \in Worker, WorksOn(v, m)', WorksOn(w, m)', v # w
      PROVE  FALSE
  <2>1. Arrives(v) /\ Arrives(w)
    BY <1>2, <1>4, <1>7
  <2>2. ~Winds(v) /\ ~Winds(w)
    BY <2>1 DEF Arrives, Winds, Still, Ends, LetsGo, Untracks, NoJob, Job, JobAt
  <2> QED BY <1>7, <2>2, OneMoves
<1>8. ASSUME n1 = 0
      PROVE  m \notin succeeded' \cup dead' /\ \A w \in Worker : ~WorksOn(w, m)'
  <2>1. n = 0
    BY <1>1, <1>8
  <2> QED BY <1>2, <1>4, <1>5, <1>6, <1>8, <2>1
<1>9. m \notin succeeded' \cap dead'
  <2>1. SUFFICES ASSUME m \in succeeded', m \in dead'
                 PROVE  FALSE
    OBVIOUS
  <2>2. CASE m \in succeeded /\ m \notin dead
    BY <1>2, <1>6, <2>1, <2>2 DEF AfterSuccess
  <2>3. CASE m \notin succeeded /\ m \in dead
    BY <1>2, <1>5, <2>1, <2>3 DEF AfterDeadLetter
  <2>4. CASE m \notin succeeded /\ m \notin dead
    BY <1>2, <1>5, <1>6, <2>1, <2>4
  <2> QED BY <1>2, <2>2, <2>3, <2>4
<1>10. ASSUME m \in succeeded', NEW w \in Worker, WorksOn(w, m)'
       PROVE  AfterSuccess(w)'
  BY <1>2, <1>4, <1>5, <1>10
<1>11. ASSUME m \in dead', NEW w \in Worker, WorksOn(w, m)'
       PROVE  AfterDeadLetter(w)'
  BY <1>2, <1>4, <1>6, <1>11
<1> QED BY <1>7, <1>8, <1>9, <1>10, <1>11 DEF n1

-----------------------------------------------------------------------------
(* Leases.                                                                 *)

(* The handles a worker has.                                               *)
Handles(w) == {[msg |-> job[w].msg, receipt |-> job[w].receipt], inflightMessage[w],
               renew[w].on, job[w].arg}

LEMMA HandlesAreKnown ==
  ASSUME NEW w \in Worker, NEW h \in Handle, h \in Handles(w)
  PROVE  h.receipt \in KnownReceipts(h.msg)
<1>0. h # None /\ h.msg \in Msg
  BY QueueAssumption DEF Handle
<1>1. CASE h = [msg |-> job[w].msg, receipt |-> job[w].receipt]
  <2>1. w \in {x \in Worker : job[x].msg = h.msg}
    BY <1>1
  <2> QED BY <1>1, <2>1 DEF KnownReceipts
<1>2. CASE h \in {inflightMessage[w], renew[w].on, job[w].arg}
  <2>1. h \in {k \in {inflightMessage[x] : x \in Worker}
                        \cup {renew[x].on : x \in Worker}
                        \cup {job[x].arg : x \in Worker} :
                          k # None /\ k.msg = h.msg}
    BY <1>0, <1>2
  <2> QED BY <2>1 DEF KnownReceipts
<1> QED BY <1>1, <1>2 DEF Handles

(* A worker's new handles are fresh, and a worker that winds up gets none. *)
LEMMA HandlesFlow ==
  ASSUME TypeOK, BusyWithJob, HandlesOfJob, [FullNext]_vars,
         NEW w \in Worker, NEW h \in Handle, h \in Handles(w)'
  PROVE  \/ h \in Handles(w)
         \/ ~Winds(w) /\ h.receipt \notin KnownReceipts(h.msg)
<1> USE DEF Handles
<1>0. h # None /\ h # [msg |-> None, receipt |-> None]
  BY QueueAssumption DEF Handle
<1>w. job[w].pc = "created" \/ Begun(w) => job[w] \in Job
  BY HasJob DEF Begun
<1>1. CASE Still(w) \/ Untracks(w)
  BY <1>0, <1>1 DEF Still, Untracks
<1>2. CASE Ends(w)
  BY <1>0, <1>2 DEF Ends, NoRenew
<1>3. CASE LetsGo(w)
  BY <1>0, <1>3 DEF LetsGo, NoJob, NoRenew
<1>4. CASE Arrives(w)
  <2>1. job[w] # job'[w] /\ job'[w] # NoJob /\ ~Winds(w)
    BY <1>4 DEF Arrives, Winds, Still, Ends, LetsGo, Untracks, NoJob, Job, JobAt
  <2> QED BY <1>0, <1>4, <2>1 DEF Arrives, SameTracking
<1>5. CASE Begins(w)
  BY <1>0, <1>5 DEF Begins, SameJob
<1>6. CASE GoesOn(w)
  <2>1. CASE job'[w].arg \in {None, HeldBy(w)}
    BY <1>0, <1>6, <2>1 DEF GoesOn, SameJob, SameTracking, HeldBy, NoRenew
  <2>2. CASE /\ job[w].arg \in Handle /\ job'[w].arg \in Handle
             /\ job'[w].arg.msg = job[w].arg.msg
             /\ job'[w].arg.receipt \notin KnownReceipts(job[w].arg.msg)
    <3>1. job'[w].arg # job[w].arg
      BY <2>2, HandlesAreKnown
    <3>2. ~Winds(w)
      BY <1>6, <2>2, <3>1, QueueAssumption
         DEF Winds, Still, Ends, LetsGo, Untracks, NoJob, GoesOn, Begun
    <3> QED BY <1>0, <1>6, <2>2, <3>2 DEF GoesOn, SameJob, SameTracking, NoRenew
  <2> QED BY <1>6, <2>1, <2>2 DEF GoesOn
<1>7. CASE Renewing(w)
  <2>1. CASE renew'[w] = renew[w] \/ renew'[w].on \in Handles(w) \cup {None}
    BY <1>0, <1>7, <2>1 DEF Renewing
  <2>2. CASE renew'[w] # renew[w] /\ renew'[w].on \notin Handles(w) \cup {None}
    <3>1. ~Winds(w)
      <4>1. job'[w] = job[w] /\ renew'[w].st # "off" /\ renew[w].st # "off"
        BY <1>7 DEF Renewing
      <4>2. Begun(w)
        BY <4>1 DEF HandlesOfJob
      <4> QED BY <2>2, <4>1, <4>2
              DEF Winds, Still, Ends, LetsGo, Untracks, NoRenew, NoJob, Begun
    <3> QED BY <1>0, <1>7, <2>2, <3>1 DEF Renewing
  <2> QED BY <2>1, <2>2
<1> QED BY <1>1, <1>2, <1>3, <1>4, <1>5, <1>6, <1>7, EveryStepIsLocal DEF LocalStep

LEMMA OneHolderStep ==
  ASSUME TypeOK, TypeOK', BusyWithJob, HandlesOfJob, OneHolder, [FullNext]_vars,
         \A m \in Msg : Flows(m)
  PROVE  OneHolder'
<1> SUFFICES ASSUME NEW m \in Msg, NEW v \in Worker, NEW w \in Worker,
                    queue'[m].receipt # None, Knows(v, m)', Knows(w, m)', v # w
             PROVE  FALSE
  BY DEF OneHolder
<1> DEFINE h == [msg |-> m, receipt |-> queue'[m].receipt]
<1>1. h \in Handle
  BY DEF TypeOK, QueueEntry, Handle
<1>2. h \in Handles(v)' /\ h \in Handles(w)'
  BY DEF Knows, Handles
<1>3. Winds(v) \/ Winds(w)
  BY OneMoves
<1>4. \/ h \in Handles(v)
      \/ ~Winds(v) /\ queue'[m].receipt \notin KnownReceipts(m)
  BY <1>1, <1>2, HandlesFlow
<1>5. \/ h \in Handles(w)
      \/ ~Winds(w) /\ queue'[m].receipt \notin KnownReceipts(m)
  BY <1>1, <1>2, HandlesFlow
<1>6. h \in Handles(v) \/ h \in Handles(w) => queue'[m].receipt \in KnownReceipts(m)
  BY <1>1, HandlesAreKnown
<1>7. /\ h \in Handles(v) /\ h \in Handles(w)
      /\ queue'[m].receipt = queue[m].receipt
  BY <1>3, <1>4, <1>5, <1>6 DEF Flows
<1>8. Knows(v, m) /\ Knows(w, m)
  BY <1>7 DEF Knows, Handles
<1> QED BY <1>7, <1>8 DEF OneHolder

-----------------------------------------------------------------------------
(* Stopping.                                                               *)

(* A renewal task goes with the job it serves.                             *)
LEMMA RenewsAtWorkStep ==
  ASSUME TypeOK, BusyWithJob, RenewsAtWork, [FullNext]_vars
  PROVE  RenewsAtWork'
<1> USE DEF Begun, loops, tracking, requests, history
<1> SUFFICES ASSUME NEW w \in Worker, renew'[w].st # "off"
             PROVE  job'[w].pc \notin {"none", "created", "unwinding", "ended"}
  BY DEF RenewsAtWork
<1> DEFINE AtWork(j) == j.pc \notin {"none", "created", "unwinding", "ended"}
<1>1. renew[w].st # "off" => AtWork(job[w])
  BY DEF RenewsAtWork
<1>2. ASSUME renew'[w] = renew[w], job'[w] = job[w]
      PROVE  AtWork(job'[w])
  BY <1>1, <1>2
<1>3. CASE UNCHANGED vars \/ QueueStep
  BY <1>2, <1>3, QueueStepIsStill DEF vars, QueueStep
<1>4. ASSUME NEW v \in Worker, NEW m \in Msg, Receive(v, m)
      PROVE  AtWork(job'[w])
  <2>1. renew' = renew /\ job[v].pc = "none" /\ \A x \in Worker : x # v => job'[x] = job[x]
    BY <1>4 DEF Receive, TypeOK, BusyWithJob
  <2> QED BY <1>1, <1>2, <2>1
<1>5. ASSUME NEW v \in Worker, WorkerResumes(v)
      PROVE  AtWork(job'[w])
  <2>1. renew' = renew /\ job[v].pc = "ended" /\ \A x \in Worker : x # v => job'[x] = job[x]
    BY <1>5 DEF WorkerResumes, TypeOK
  <2> QED BY <1>1, <1>2, <2>1
<1>6. ASSUME NEW v \in Worker, RenewStep(v)
      PROVE  AtWork(job'[w])
  <2>1. job' = job /\ renew[v].st # "off" /\ \A x \in Worker : x # v => renew'[x] = renew[x]
    BY <1>6 DEF RenewStep, RenewCalls, RenewLifetimeOver, RenewLands, RenewStores,
       RenewFails, TypeOK
  <2> QED BY <1>1, <1>2, <2>1
<1>7. ASSUME NEW v \in Worker, JobStep(v)
      PROVE  AtWork(job'[w])
  <2>0. job[v] \in Job
    BY <1>7, HasJob DEF JobStep, RejectMalformed, StartJob, RunReturns,
       FinishSuccess, FinishFailure, RetryLands, RetryEnds, DeadLetterSent,
       DeadLetterFails, ExtendEnds, CleanupEnds, Unwind, Parses, Cleaning
  <2>e. ASSUME NEW q, EndJob(v, q)
        PROVE  AtWork(job'[w])
    <3>1. renew'[v].st = "off"
      BY <2>e DEF EndJob, NoRenew, TypeOK
    <3>2. v # w => renew'[w] = renew[w] /\ job'[w] = job[w]
      BY <2>e DEF EndJob, TypeOK
    <3> QED BY <1>2, <3>1, <3>2
  <2>o. ASSUME NEW j, job' = [job EXCEPT ![v] = j], AtWork(j), renew' = renew
        PROVE  AtWork(job'[w])
    BY <1>2, <2>o DEF TypeOK
  <2>f. ASSUME NEW outcome, NEW held, job' = [job EXCEPT ![v] = FailWith(v, outcome, held)],
               renew' = renew \/ renew' = [renew EXCEPT ![v] = [st |-> "sleep", on |-> None]]
        PROVE  AtWork(job'[w])
    <3>1. AtWork(FailWith(v, outcome, held))
      BY <2>0 DEF FailWith, Job, JobAt
    <3> QED BY <1>2, <2>f, <3>1 DEF TypeOK
  <2>1. CASE RejectMalformed(v) \/ FinishFailure(v)
    BY <2>1, <2>f DEF RejectMalformed, FinishFailure, Parses
  <2>2. CASE StartJob(v)
    <3>1. CASE job' = [job EXCEPT ![v].pc = "running"]
      BY <1>2, <2>0, <2>2, <3>1 DEF StartJob, Track, TypeOK, Job, JobAt, Parses
    <3> QED BY <2>2, <2>f, <3>1 DEF StartJob, Track, Parses
  <2>3. ASSUME NEW outcome, RunReturns(v, outcome)
        PROVE  AtWork(job'[w])
    <3>1. job'[v] = [job[v] EXCEPT !.pc = "finishing", !.outcome = outcome]
      BY <2>3 DEF RunReturns, TypeOK
    <3>2. AtWork(job'[v])
      BY <2>0, <3>1 DEF Job, JobAt
    <3> QED BY <1>2, <2>3, <3>2 DEF RunReturns, TypeOK
  <2>4. CASE RetryLands(v)
    <3>1. PICK answer : job' = [job EXCEPT ![v] = [job[v] EXCEPT !.pc = "retried",
                                                                !.arg = answer]]
      BY <2>0, <2>4 DEF RetryLands
    <3>2. AtWork([job[v] EXCEPT !.pc = "retried", !.arg = answer])
      BY <2>0 DEF Job, JobAt
    <3> QED BY <2>4, <2>o, <3>1, <3>2 DEF RetryLands
  <2>5. CASE DeadLetterSent(v)
    <3>1. CASE job' = [job EXCEPT ![v].pc = "cleanup"] /\ renew' = renew
      BY <1>2, <2>0, <3>1 DEF TypeOK, Job, JobAt
    <3> QED BY <2>5, <2>e, <3>1 DEF DeadLetterSent
  <2>6. CASE DeadLetterFails(v)
    BY <1>2, <2>0, <2>6 DEF DeadLetterFails, TypeOK, Job, JobAt
  <2>7. CASE Unwind(v)
    <3>1. /\ renew' = renew /\ job[v].pc = "unwinding"
          /\ \A x \in Worker : x # v => job'[x] = job[x]
      BY <2>7 DEF Unwind, TypeOK
    <3> QED BY <1>1, <1>2, <3>1
  <2>8. CASE FinishSuccess(v) \/ RetryEnds(v) \/ ExtendEnds(v) \/ CleanupEnds(v)
    BY <2>e, <2>8 DEF FinishSuccess, RetryEnds, ExtendEnds, CleanupEnds, Cleaning
  <2> QED BY <1>7, <2>1, <2>2, <2>3, <2>4, <2>5, <2>6, <2>7, <2>8 DEF JobStep
<1>c. ASSUME NEW S \in SUBSET Worker, CancelJobs(S)
      PROVE  AtWork(job'[w])
  <2>1. Still(w) \/ Ends(w)
    BY <1>c, CancelJobsFacts
  <2> QED BY <1>2, <2>1 DEF Still, Ends, NoRenew
<1>8. CASE KillStep
  <2>1. kill.worker \in inflightTask => {kill.worker} \in SUBSET Worker
    BY DEF TypeOK
  <2> QED BY <1>2, <1>8, <1>c, <2>1
          DEF KillStep, StopProcess, StopProcessCancels, StopProcessReturns
<1>9. CASE FreshService
  BY <1>9 DEF FreshService, NoRenew
<1>10. CASE ControlStep
  <2>0. workerTasks \in SUBSET Worker /\ inflightTask \in SUBSET Worker
    BY DEF TypeOK
  <2>1. ASSUME NEW S \in SUBSET Worker, CancelWorkers(S)
        PROVE  AtWork(job'[w])
    <3>1. {x \in S : workerLoop[x] = "busy"} \in SUBSET Worker
      OBVIOUS
    <3> QED BY <1>c, <2>1, <3>1 DEF CancelWorkers
  <2>2. CASE Interrupt \/ StopService \/ \E x \in Worker : StopWorker(x)
    BY <2>0, <2>1, <2>2 DEF Interrupt, StopService, StopWorker
  <2>3. CASE StopServiceCancelsJobs
    BY <1>c, <2>0, <2>3 DEF StopServiceCancelsJobs
  <2>4. CASE StopServiceCloses \/ StopWorkerFinishes
    BY <1>2, <2>4 DEF StopServiceCloses, StopWorkerFinishes
  <2>5. CASE Restart
    BY <1>9, <2>5 DEF Restart
  <2> QED BY <1>10, <2>2, <2>3, <2>4, <2>5 DEF ControlStep
<1> QED BY <1>3, <1>4, <1>5, <1>6, <1>7, <1>8, <1>9, <1>10
        DEF FullNext, Next, WorkerStep, Crash

(* Steps of the queue, of the workers and of stop_process leave the service*)
(* as it is.                                                               *)
LEMMA ServiceStays ==
  ASSUME TypeOK, QueueStep \/ (\E w \in Worker : WorkerStep(w)) \/ KillStep
  PROVE  UNCHANGED <<control, isRunning, workerTasks>>
<1> USE DEF loops, tracking, requests, history
<1>1. CASE QueueStep
  BY <1>1, QueueStepIsStill DEF QueueStep, Accept, Expire, LateCallLands
<1>2. ASSUME NEW w \in Worker, WorkerStep(w)
      PROVE  UNCHANGED <<control, isRunning, workerTasks>>
  BY <1>2 DEF WorkerStep, JobStep, RejectMalformed, StartJob, FinishSuccess, FinishFailure,
     RetryLands, RetryEnds, DeadLetterSent, DeadLetterFails, ExtendEnds, CleanupEnds,
     RunReturns, Unwind, Receive, RenewStep, RenewCalls, RenewLifetimeOver, RenewLands,
     RenewStores, RenewFails, WorkerResumes, Parses, Cleaning
<1>3. CASE KillStep
  BY <1>3 DEF KillStep, StopProcess, StopProcessCancels, StopProcessReturns
<1> QED BY <1>1, <1>2, <1>3

(* A worker that has stopped has no job, and takes none.                   *)
LEMMA StoppedStays ==
  ASSUME TypeOK, BusyWithJob, RenewsAtWork, [FullNext]_vars, ~FreshService,
         NEW w \in Worker, workerLoop[w] = "stopped"
  PROVE  /\ workerLoop'[w] = "stopped"
         /\ inflight[w] = None => inflight'[w] = None
         /\ inflightMessage[w] = None => inflightMessage'[w] = None
<1> USE DEF loops, tracking, requests, history
<1> DEFINE Stays == /\ workerLoop'[w] = "stopped"
                    /\ inflight[w] = None => inflight'[w] = None
                    /\ inflightMessage[w] = None => inflightMessage'[w] = None
<1>0. job[w].pc = "none" /\ renew[w].st = "off" /\ job[w] = NoJob
  BY DEF BusyWithJob, RenewsAtWork, Begun, TypeOK, Job, JobAt
<1>1. CASE UNCHANGED vars \/ QueueStep
  BY <1>1, QueueStepIsStill DEF vars, QueueStep, Accept, Expire, LateCallLands
<1>2. ASSUME NEW v \in Worker, (\E m \in Msg : Receive(v, m)) \/ WorkerResumes(v)
      PROVE  Stays
  BY <1>2 DEF Receive, WorkerResumes, TypeOK
<1>3. ASSUME NEW v \in Worker, RenewStep(v)
      PROVE  Stays
  BY <1>0, <1>3 DEF RenewStep, RenewCalls, RenewLifetimeOver, RenewLands, RenewStores,
     RenewFails, TypeOK
<1>4. ASSUME NEW v \in Worker, JobStep(v)
      PROVE  Stays
  <2>1. job[v].pc # "none" /\ workerLoop' = workerLoop
    BY <1>4 DEF JobStep, RejectMalformed, StartJob, RunReturns, FinishSuccess,
       FinishFailure, RetryLands, RetryEnds, DeadLetterSent, DeadLetterFails, ExtendEnds,
       CleanupEnds, Unwind, Parses, Cleaning
  <2>2. v # w
    BY <1>0, <2>1
  <2>e. ASSUME NEW q, EndJob(v, q)
        PROVE  Stays
    BY <2>1, <2>2, <2>e DEF EndJob, TypeOK
  <2>3. CASE UNCHANGED <<inflight, inflightMessage>>
    BY <2>1, <2>3
  <2>4. CASE StartJob(v) \/ Unwind(v)
    BY <2>1, <2>2, <2>4 DEF StartJob, Track, Unwind, TypeOK, Parses
  <2>5. CASE DeadLetterSent(v)
    BY <2>3, <2>5, <2>e DEF DeadLetterSent
  <2>6. CASE FinishSuccess(v) \/ RetryEnds(v) \/ ExtendEnds(v) \/ CleanupEnds(v)
    BY <2>6, <2>e DEF FinishSuccess, RetryEnds, ExtendEnds, CleanupEnds, Cleaning
  <2>7. CASE RejectMalformed(v) \/ FinishFailure(v) \/ RetryLands(v) \/ DeadLetterFails(v)
    BY <2>3, <2>7 DEF RejectMalformed, FinishFailure, RetryLands, DeadLetterFails, Parses
  <2>8. ASSUME NEW outcome, RunReturns(v, outcome)
        PROVE  Stays
    BY <2>3, <2>8 DEF RunReturns
  <2> QED BY <1>4, <2>4, <2>5, <2>6, <2>7, <2>8 DEF JobStep
<1>c. ASSUME NEW S \in SUBSET Worker, CancelJobs(S)
      PROVE  /\ inflight[w] = None => inflight'[w] = None
             /\ inflightMessage[w] = None => inflightMessage'[w] = None
  <2>1. Still(w) \/ Ends(w)
    BY <1>c, CancelJobsFacts
  <2> QED BY <1>0, <2>1 DEF Still, Ends, Job, JobAt
<1>5. CASE KillStep
  <2>1. kill.worker \in inflightTask => {kill.worker} \in SUBSET Worker
    BY DEF TypeOK
  <2> QED BY <1>5, <1>c, <2>1
          DEF KillStep, StopProcess, StopProcessCancels, StopProcessReturns
<1>6. CASE ControlStep
  <2>0. workerTasks \in SUBSET Worker /\ inflightTask \in SUBSET Worker
    BY DEF TypeOK
  <2>1. ASSUME NEW S \in SUBSET Worker, CancelWorkers(S)
        PROVE  Stays
    <3>1. {x \in S : workerLoop[x] = "busy"} \in SUBSET Worker
      OBVIOUS
    <3> QED BY <1>c, <2>1, <3>1 DEF CancelWorkers
  <2>2. CASE Interrupt \/ StopService \/ \E x \in Worker : StopWorker(x)
    BY <2>0, <2>1, <2>2 DEF Interrupt, StopService, StopWorker
  <2>3. CASE StopServiceCancelsJobs
    BY <1>c, <2>0, <2>3 DEF StopServiceCancelsJobs
  <2>4. CASE StopServiceCloses
    BY <2>4 DEF StopServiceCloses
  <2>5. CASE StopWorkerFinishes
    BY <2>5 DEF StopWorkerFinishes, TypeOK
  <2>6. CASE Restart
    BY <2>6 DEF Restart
  <2> QED BY <1>6, <2>2, <2>3, <2>4, <2>5, <2>6 DEF ControlStep
<1> QED BY <1>1, <1>2, <1>3, <1>4, <1>5, <1>6 DEF FullNext, Next, WorkerStep, Crash

LEMMA StopsStep ==
  ASSUME TypeOK, BusyWithJob, RenewsAtWork, Stops, [FullNext]_vars
  PROVE  Stops'
<1> USE DEF Stops, loops, tracking, requests, history
<1>1. CASE FreshService
  BY <1>1 DEF FreshService, NoControl
<1>2. CASE UNCHANGED <<control, isRunning, workerTasks>> /\ ~FreshService
  BY <1>2, StoppedStays
<1>3. CASE ControlStep /\ ~FreshService
  <2>1. CASE Interrupt
    BY <2>1 DEF Interrupt, NoControl
  <2>2. CASE StopService
    BY <2>2 DEF StopService, NoControl
  <2>3. CASE StopServiceCancelsJobs
    <3>1. \A w \in Worker : workerLoop[w] = "stopped" /\ workerLoop'[w] = "stopped"
      BY <2>3 DEF StopServiceCancelsJobs
    <3> QED BY <2>3, <3>1 DEF StopServiceCancelsJobs, NoControl
  <2>4. CASE StopServiceCloses
    BY <2>4 DEF StopServiceCloses, ControlDone, NoControl
  <2>5. ASSUME NEW w \in Worker, StopWorker(w)
        PROVE  Stops'
    BY <2>5 DEF StopWorker, NoControl
  <2>6. CASE StopWorkerFinishes
    BY <2>6 DEF StopWorkerFinishes, ControlDone, NoControl
  <2> QED BY <1>3, <2>1, <2>2, <2>3, <2>4, <2>5, <2>6 DEF ControlStep, Restart
<1>4. CASE UNCHANGED vars
  BY <1>4 DEF vars
<1> QED BY <1>1, <1>2, <1>3, <1>4, ServiceStays DEF FullNext, Next, Crash

(* A worker that has stopped is idle.                                      *)
LEMMA StopsIdle == TypeOK /\ BusyWithJob /\ RenewsAtWork /\ Stops => StoppedIsIdle
<1> SUFFICES ASSUME TypeOK, BusyWithJob, RenewsAtWork, Stops, ~isRunning,
                    control = ControlDone, NEW w \in Worker
             PROVE  /\ ~JobActive(w) /\ renew[w] = NoRenew
                    /\ inflight[w] = None /\ inflightMessage[w] = None
  BY DEF StoppedIsIdle
<1>1. workerLoop[w] = "stopped" /\ inflight[w] = None /\ inflightMessage[w] = None
  BY DEF Stops, ControlDone
<1>2. job[w].pc = "none"
  BY <1>1 DEF BusyWithJob
<1>3. renew[w].st = "off"
  BY <1>2 DEF RenewsAtWork, Begun
<1> QED BY <1>1, <1>2, <1>3 DEF JobActive, TypeOK, Renew

-----------------------------------------------------------------------------
(* The promise.                                                            *)

(* Verdicts are reached on messages that were sent.                        *)
LEMMA VerdictsOnSent ==
  ASSUME TypeOK, OnlySent, [FullNext]_vars, NEW m \in Msg,
         \/ m \in succeeded' /\ m \notin succeeded
         \/ m \in dead' /\ m \notin dead
         \/ m \in killed' /\ m \notin killed
  PROVE  queue[m].loc # "unsent" /\ \A n \in Msg : ~Accept(n)
<1> USE DEF loops, tracking, requests, history
<1>0. \A n \in Msg : ~Accept(n)
  BY DEF Accept
<1>1. CASE m \in dead' /\ m \notin dead
  BY <1>0, <1>1, DeadGrows DEF OnlySent
<1>2. CASE UNCHANGED <<succeeded, killed>>
  BY <1>1, <1>2
<1>3. ASSUME NEW w \in Worker, NEW outcome, RunReturns(w, outcome)
      PROVE  m \in succeeded' /\ m \notin succeeded => job[w].msg = m /\ job[w].pc # "none"
  BY <1>3 DEF RunReturns
<1>4. ASSUME NEW w \in Worker, NEW outcome, RunReturns(w, outcome)
      PROVE  UNCHANGED killed
  BY <1>4 DEF RunReturns
<1>5. ASSUME NEW w \in Worker, JobStep(w)
      PROVE  \/ UNCHANGED <<succeeded, killed>>
             \/ \E outcome : RunReturns(w, outcome)
  BY <1>5 DEF JobStep, RejectMalformed, StartJob, FinishSuccess,
     FinishFailure, RetryLands, RetryEnds, DeadLetterSent, DeadLetterFails,
     ExtendEnds, CleanupEnds, Unwind, Parses, Cleaning
<1>6. ASSUME NEW c \in Claim, StopProcess(c)
      PROVE  UNCHANGED succeeded /\ (m \in killed' /\ m \notin killed => queue[m].loc # "unsent")
  BY <1>6 DEF StopProcess
<1>7. CASE UNCHANGED vars \/ QueueStep
  BY <1>2, <1>7, QueueStepIsStill DEF QueueStep, vars
<1>8. CASE Crash \/ StopProcessCancels \/ StopProcessReturns \/ ControlStep
  BY <1>2, <1>8 DEF Crash, StopProcessCancels, StopProcessReturns, ControlStep,
     Interrupt, StopService, StopServiceCancelsJobs, StopServiceCloses, StopWorker,
     StopWorkerFinishes, Restart
<1>9. ASSUME NEW w \in Worker,
             (\E n \in Msg : Receive(w, n)) \/ RenewStep(w) \/ WorkerResumes(w)
      PROVE  UNCHANGED <<succeeded, killed>>
  BY <1>9 DEF Receive, RenewStep, RenewCalls, RenewLifetimeOver, RenewLands,
     RenewStores, RenewFails, WorkerResumes
<1>10. CASE \E w \in Worker : WorkerStep(w)
  BY <1>0, <1>1, <1>2, <1>3, <1>4, <1>5, <1>9, <1>10 DEF WorkerStep, OnlySent
<1> QED BY <1>0, <1>1, <1>6, <1>7, <1>8, <1>10 DEF FullNext, Next, KillStep

LEMMA PromiseStep ==
  ASSUME TypeOK, TypeOK', OnlySent, [FullNext]_vars, \A m \in Msg : Flows(m),
         (\A m \in Msg : ~Accept(m)) => Moves(queue', Verdicts')
  PROVE  [Promise!Next]_(Promise!vars)
<1> USE DEF Promise!vars, Promise!Next
<1>1. ASSUME NEW m \in Msg, Accept(m)
      PROVE  Promise!Send(m)
  <2>1. /\ queue[m].loc = "unsent" /\ queue[m] \in QueueEntry
        /\ queue' = [queue EXCEPT ![m].loc = "visible"]
        /\ UNCHANGED <<succeeded, dead, killed>>
    BY <1>1 DEF Accept, history, TypeOK
  <2>2. PlaceOf(m) = "unsent"
    BY <2>1 DEF PlaceOf
  <2>3. queue'[m].loc = "visible" /\ \A n \in Msg : n # m => queue'[n] = queue[n]
    BY <2>1 DEF TypeOK, QueueEntry
  <2>4. PlaceOf(m)' = "queued" /\ \A n \in Msg : n # m => PlaceOf(n)' = PlaceOf(n)
    BY <2>3 DEF PlaceOf
  <2>5. \A n \in Msg : VerdictsOn(n)' = VerdictsOn(n)
    BY <2>1 DEF VerdictsOn
  <2> QED BY <2>2, <2>4, <2>5 DEF Promise!Send
<1>2. CASE \A m \in Msg : ~Accept(m)
  <2>1. Moves(queue', Verdicts')
    BY <1>2
  <2>2. \A m \in Msg : VerdictsOn(m) \subseteq VerdictsOn(m)'
    BY HistoryGrows DEF VerdictsOn
  <2>3. \A m \in Msg : VerdictsOn(m)' \in SUBSET Promise!Verdict
    BY DEF VerdictsOn, Promise!Verdict
  <2>4. ASSUME NEW m \in Msg, queue[m].loc = "unsent"
        PROVE  VerdictsOn(m)' = VerdictsOn(m)
    BY <2>4, HistoryGrows, VerdictsOnSent DEF VerdictsOn
  <2>5. ASSUME NEW m \in Msg, PlaceOf(m) = "unsent"
        PROVE  queue[m].loc = "unsent"
    BY <2>5 DEF PlaceOf, TypeOK, QueueEntry
  <2> DEFINE gone == {m \in Msg : PlaceOf(m) = "queued" /\ queue'[m].loc = "deleted"}
  <2>6. ASSUME NEW m \in gone
        PROVE  VerdictsOn(m)' # {}
    <3>1. m \in Verdicts'
      BY <2>1, <2>6 DEF Moves, PlaceOf
    <3> QED BY <3>1 DEF Verdicts, VerdictsOn
  <2>7. ASSUME NEW m \in Msg
        PROVE  PlaceOf(m)' = IF m \in gone THEN "gone" ELSE PlaceOf(m)
    <3>1. queue[m].loc \in {"unsent", "visible", "leased", "deleted"}
          /\ queue'[m].loc \in {"unsent", "visible", "leased", "deleted"}
      BY DEF TypeOK, QueueEntry
    <3> QED BY <2>1, <3>1 DEF Moves, PlaceOf
  <2>8. Promise!Settle
    <3>1. gone \in SUBSET {m \in Msg : PlaceOf(m) = "queued" /\ VerdictsOn(m)' # {}}
      BY <2>6
    <3>2. [m \in Msg |-> PlaceOf(m)]' =
            [m \in Msg |-> IF m \in gone THEN "gone" ELSE [n \in Msg |-> PlaceOf(n)][m]]
      BY <2>7
    <3> QED BY <2>2, <2>3, <2>4, <2>5, <3>1, <3>2 DEF Promise!Settle
  <2> QED BY <2>8
<1> QED BY <1>1, <1>2

-----------------------------------------------------------------------------
(* The theorems.                                                           *)

(* The inductive invariant but for CleanArrival, which the two settings    *)
(* below get from different sources.                                       *)
Core ==
  /\ TypeOK /\ BusyWithJob /\ HandlesOfJob /\ HandlesOfClaim
  /\ VerdictFirst /\ OnlySent /\ NoMessageLost
  /\ ReasonFirst /\ DeadLetterJustified /\ OneHolder

LEMMA CoreInit == Init => Core /\ NothingLeft
<1> SUFFICES ASSUME Init PROVE Core /\ NothingLeft
  OBVIOUS
<1> USE DEF Init, NoJob, NoRenew
<1>1. TypeOK
  BY TypeInit
<1>2. BusyWithJob /\ HandlesOfJob /\ HandlesOfClaim /\ VerdictFirst
  BY DEF BusyWithJob, HandlesOfJob, HandlesOfClaim, VerdictFirst
<1>3. OnlySent /\ NoMessageLost /\ ReasonFirst /\ DeadLetterJustified
  BY DEF OnlySent, NoMessageLost, ReasonFirst, DeadLetterJustified
<1>4. OneHolder /\ NothingLeft
  BY DEF OneHolder, NothingLeft
<1> QED BY <1>1, <1>2, <1>3, <1>4 DEF Core

LEMMA CoreStep == Core /\ CleanArrival /\ [FullNext]_vars => Core'
<1> SUFFICES ASSUME Core, CleanArrival, [FullNext]_vars
             PROVE  Core'
  OBVIOUS
<1> USE DEF Core
<1>1. TypeOK'
  BY TypeStep
<1>2. BusyWithJob' /\ HandlesOfJob' /\ HandlesOfClaim' /\ VerdictFirst'
  BY BusyStep, HandlesStep, ClaimStep, VerdictStep
<1>3. \A m \in Msg : Flows(m)
  BY EveryStepFlows
<1>4. OnlySent' /\ NoMessageLost' /\ ReasonFirst'
  BY <1>3, OnlySentStep, NoMessageLostStep, ReasonStep
<1>5. DeadLetterJustified'
  BY <1>1, <1>3, DeadLetterJustifiedStep DEF TypeOK
<1>6. OneHolder'
  BY <1>1, <1>3, OneHolderStep
<1> QED BY <1>1, <1>2, <1>4, <1>5, <1>6

LEMMA CoreKeepsPromise ==
  Core /\ Core' /\ [FullNext]_vars => [Promise!Next]_(Promise!vars)
<1> SUFFICES ASSUME Core, Core', [FullNext]_vars
             PROVE  [Promise!Next]_(Promise!vars)
  OBVIOUS
<1> USE DEF Core
<1> QED BY EveryStepFlows, EveryStepMoves, PromiseStep

LEMMA PromiseInit == Init => Promise!Init
BY DEF Init, Promise!Init, PlaceOf, VerdictsOn

LEMMA NothingLeftIsClean == NothingLeft => CleanArrival
BY DEF NothingLeft, CleanArrival, Begun

LEMMA NextIsFullNext == [Next]_vars => [FullNext]_vars
BY DEF FullNext

LEMMA AllParse ==
  ASSUME \A m \in Msg : ClaimOf[m] # Malformed
  PROVE  TypeOK => CleanArrival
BY HasJob DEF CleanArrival, Job, JobAt

(* Two jobs on one message have their handle of it from the same place.    *)
LEMMA OneHolderIsExclusive == TypeOK /\ OneHolder => ExclusiveLease
<1> SUFFICES ASSUME TypeOK, OneHolder, NEW v \in Worker, NEW w \in Worker, v # w,
                    HoldsLease(v), HoldsLease(w), HeldBy(v).msg = HeldBy(w).msg
             PROVE  FALSE
  BY DEF ExclusiveLease
<1>1. HeldBy(v) \in Handle /\ HeldBy(w) \in Handle
  BY HasJob, HeldType DEF HoldsLease, JobActive
<1> DEFINE m == HeldBy(v).msg
<1>2. /\ m \in Msg /\ queue[m].receipt = HeldBy(v).receipt
      /\ queue[m].receipt = HeldBy(w).receipt /\ queue[m].receipt # None
  BY <1>1, QueueAssumption DEF HoldsLease, Current, Handle
<1>3. HeldBy(v) = [msg |-> m, receipt |-> queue[m].receipt]
      /\ HeldBy(w) = [msg |-> m, receipt |-> queue[m].receipt]
  BY <1>1, <1>2 DEF Handle
<1>4. Knows(v, m) /\ Knows(w, m)
  BY <1>3 DEF Knows, HeldBy
<1> QED BY <1>2, <1>4 DEF OneHolder

LEMMA NothingLeftIsTrue == HandlesOfJob /\ NothingLeft => TrackingMatchesJob
BY DEF HandlesOfJob, NothingLeft, TrackingMatchesJob, JobActive, Begun

LEMMA FirstInit == Init => FirstDelivery
BY DEF Init, FirstDelivery, WorksOn, NoJob

LEMMA FirstIsOne == TypeOK /\ FirstDelivery => OneVerdictPerDelivery
<1> SUFFICES ASSUME TypeOK, FirstDelivery, NEW m \in succeeded \cap dead
             PROVE  queue[m].count >= 2
  BY DEF OneVerdictPerDelivery
<1>1. m \in Msg /\ queue[m].count \in Nat
  BY QueueAssumption DEF TypeOK, QueueEntry
<1>2. ~(queue[m].count < 2)
  BY <1>1 DEF FirstDelivery
<1> QED BY <1>1, <1>2

(* The service working through its queue, with crashes and any message:    *)
(* the invariant.                                                          *)
THEOREM WorkingInvariant == Spec => [](Core /\ NothingLeft)
<1>1. Core /\ NothingLeft /\ [Next]_vars => (Core /\ NothingLeft)'
  <2> SUFFICES ASSUME Core, NothingLeft, [Next]_vars
               PROVE  Core' /\ NothingLeft'
    OBVIOUS
  <2>1. Core'
    BY CoreStep, NothingLeftIsClean, NextIsFullNext
  <2>2. NothingLeft'
    BY NothingLeftStep DEF Core
  <2> QED BY <2>1, <2>2
<1> QED BY <1>1, CoreInit, PTL DEF Spec

(* The operator's commands included, for messages that all parse.          *)
THEOREM ControlledInvariant ==
  ASSUME \A m \in Msg : ClaimOf[m] # Malformed
  PROVE  FullSpec => []Core
<1>1. Core /\ [FullNext]_vars => Core'
  BY CoreStep, AllParse DEF Core
<1> QED BY <1>1, CoreInit, PTL DEF FullSpec

(* No message leaves the claim queue without a verdict on its claim: a job *)
(* that completed it, an entry in the dead-letter queue or a kill.         *)
THEOREM NothingIsLost == Spec => []NoMessageLost
<1>1. Core => NoMessageLost
  BY DEF Core
<1> QED BY <1>1, WorkingInvariant, PTL

(* The same under stop_process, stop_worker, stop_service and interrupts.  *)
THEOREM NothingIsLostUnderControl ==
  ASSUME \A m \in Msg : ClaimOf[m] # Malformed
  PROVE  FullSpec => []NoMessageLost
<1>1. Core => NoMessageLost
  BY DEF Core
<1> QED BY <1>1, ControlledInvariant, PTL

(* Of two jobs on one message at most one can still delete or hide it.     *)
THEOREM LeasesAreExclusive == Spec => []ExclusiveLease
<1>1. Core => ExclusiveLease
  BY OneHolderIsExclusive DEF Core
<1> QED BY <1>1, WorkingInvariant, PTL

THEOREM LeasesAreExclusiveUnderControl ==
  ASSUME \A m \in Msg : ClaimOf[m] # Malformed
  PROVE  FullSpec => []ExclusiveLease
<1>1. Core => ExclusiveLease
  BY OneHolderIsExclusive DEF Core
<1> QED BY <1>1, ControlledInvariant, PTL

(* Only what could not be completed reaches the dead-letter queue.         *)
THEOREM DeadLettersAreJustified == Spec => []DeadLetterJustified
<1>1. Core => DeadLetterJustified
  BY DEF Core
<1> QED BY <1>1, WorkingInvariant, PTL

(* Without the operator's commands the dictionaries the operator reads,    *)
(* and the handles the finalising calls take from them, are the job's own. *)
THEOREM TrackingIsTrue == Spec => []TrackingMatchesJob
<1>1. Core /\ NothingLeft => TrackingMatchesJob
  BY NothingLeftIsTrue DEF Core
<1> QED BY <1>1, WorkingInvariant, PTL

(* The queue with its workers, leases, renewals and crashes implements the *)
(* promise of ClaimMessages.                                               *)
THEOREM PromiseIsKept == Spec => PromiseKept
<1>1. Core /\ Core' /\ [Next]_vars => [Promise!Next]_(Promise!vars)
  BY CoreKeepsPromise, NextIsFullNext
<1> QED BY <1>1, PromiseInit, WorkingInvariant, PTL DEF PromiseKept, Promise!Spec, Spec

THEOREM PromiseIsKeptUnderControl ==
  ASSUME \A m \in Msg : ClaimOf[m] # Malformed
  PROVE  FullSpec => PromiseKept
<1> QED BY CoreKeepsPromise, PromiseInit, ControlledInvariant, PTL
        DEF PromiseKept, Promise!Spec, FullSpec

(* A delivery has one verdict.  A message delivered once is not completed  *)
(* and dead-lettered, by jobs that fail, are cancelled or die with their   *)
(* process; MaxAttempts > 1 because counts are capped there.               *)
THEOREM OneDeliveryOneVerdict ==
  ASSUME MaxAttempts > 1
  PROVE  Spec => []OneVerdictPerDelivery
<1>1. FirstDelivery /\ Core /\ [Next]_vars => FirstDelivery'
  <2> SUFFICES ASSUME FirstDelivery, Core, [Next]_vars
               PROVE  FirstDelivery'
    OBVIOUS
  <2> QED BY NextIsFullNext, EveryStepFlows, FirstDeliveryStep DEF Core
<1>2. Core /\ FirstDelivery => OneVerdictPerDelivery
  BY FirstIsOne DEF Core
<1>3. Init => FirstDelivery
  BY FirstInit
<1> QED BY <1>1, <1>2, <1>3, WorkingInvariant, PTL DEF Spec

(* The same with every operator command, when every message parses.        *)
THEOREM OneDeliveryOneVerdictUnderControl ==
  ASSUME MaxAttempts > 1, \A m \in Msg : ClaimOf[m] # Malformed
  PROVE  FullSpec => []OneVerdictPerDelivery
<1>1. FirstDelivery /\ Core /\ [FullNext]_vars => FirstDelivery'
  <2> SUFFICES ASSUME FirstDelivery, Core, [FullNext]_vars
               PROVE  FirstDelivery'
    OBVIOUS
  <2> QED BY EveryStepFlows, FirstDeliveryStep DEF Core
<1>2. Core /\ FirstDelivery => OneVerdictPerDelivery
  BY FirstIsOne DEF Core
<1>3. Init => FirstDelivery
  BY FirstInit
<1> QED BY <1>1, <1>2, <1>3, ControlledInvariant, PTL DEF FullSpec

(* Whatever messages it was given and whoever else commanded it, a service *)
(* that stop_service has returned from is idle until its container starts  *)
(* again.                                                                  *)
THEOREM StoppedServiceIsIdle == FullSpec => []StoppedIsIdle
<1> DEFINE Inv == TypeOK /\ BusyWithJob /\ RenewsAtWork /\ Stops
<1>1. Init => Inv
  <2>1. Init => BusyWithJob /\ RenewsAtWork /\ Stops
    BY DEF Init, BusyWithJob, RenewsAtWork, Stops, NoJob, NoRenew, NoControl
  <2> QED BY <2>1, TypeInit
<1>2. Inv /\ [FullNext]_vars => Inv'
  BY TypeStep, BusyStep, RenewsAtWorkStep, StopsStep
<1>3. Inv => StoppedIsIdle
  BY StopsIdle
<1> QED BY <1>1, <1>2, <1>3, PTL DEF FullSpec
=============================================================================
