-------------------------- MODULE ClaimQueueWorker --------------------------
(***************************************************************************)
(* The claim workflow's queue service: ClaimProcessingQueueService of      *)
(* src/ContentProcessorWorkflow/src/services/queue_service.py, one process *)
(* with its worker loops, the job task each worker awaits, the visibility- *)
(* renewal task beside each job, and the control operations (stop_process, *)
(* stop_worker, stop_service, an interrupt), against the Azure queue it    *)
(* polls.                                                                  *)
(*                                                                         *)
(* Everything runs on one asyncio loop, so an action is the code between   *)
(* two awaits.  A call made through asyncio.to_thread is two actions: the  *)
(* await starts it, and it lands on the service or fails at any later      *)
(* time, even after the task that awaited it was cancelled.                *)
(***************************************************************************)
EXTENDS Naturals, FiniteSets

CONSTANTS
  Msg,          (* messages sent to the claim queue                         *)
  Worker,       (* worker ids, 1..concurrent_workers in the code            *)
  Claim,        (* claim process ids                                        *)
  ClaimOf,      (* the claim a message names, Malformed if it does not parse*)
  Receipt,      (* pop receipts; only equality of receipts matters          *)
  MaxAttempts,  (* max_receive_attempts                                     *)
  Malformed,    (* in place of a claim: the payload does not parse          *)
  None          (* absent dictionary entry                                  *)

(* A message id with the pop receipt its holder believes to be current.    *)
Handle == [msg : Msg, receipt : Receipt]

ASSUME QueueAssumption ==
  /\ MaxAttempts \in Nat \ {0}
  /\ ClaimOf \in [Msg -> Claim \cup {Malformed}]
  /\ Malformed \notin Claim
  /\ None \notin Claim \cup {Malformed} \cup Msg \cup Receipt \cup Worker \cup Handle

VARIABLES
  queue,           (* the Azure queue: where each message is, its           *)
                   (* dequeue_count and its current pop receipt             *)
  dead,            (* messages that have an entry in the dead-letter queue  *)
  isRunning,       (* is_running                                            *)
  workerLoop,      (* where each _worker_loop task is                       *)
  workerTasks,     (* the keys of _worker_tasks                             *)
  job,             (* the job task of each worker                           *)
  inflight,        (* _worker_inflight (and _worker_inflight_batch_id)      *)
  inflightMessage, (* _worker_inflight_message                              *)
  inflightTask,    (* the keys of _worker_inflight_task                     *)
  renew,           (* the visibility-renewal task beside each job           *)
  kill,            (* the stop_process call under way                       *)
  control,         (* the stop_service / stop_worker / interrupt under way  *)
  succeeded,       (* history: messages some job completed                  *)
  killed,          (* history: messages stop_process was asked to kill      *)
  execFailed       (* history: messages some job failed in an executor      *)

tracking == <<inflight, inflightMessage>>
loops == <<isRunning, workerLoop, workerTasks, inflightTask>>
requests == <<kill, control>>
history == <<succeeded, killed, execFailed>>
vars == <<queue, dead, isRunning, workerLoop, workerTasks, job, inflight,
          inflightMessage, inflightTask, renew, kill, control,
          succeeded, killed, execFailed>>

-----------------------------------------------------------------------------
(* The shapes of the state.                                                *)

(* late: an update_message call with the current receipt is still on its   *)
(* way although the task that awaited it was cancelled.  A second such call*)
(* would find its receipt rotated by the first, so one flag is enough.     *)
QueueEntry == [loc : {"unsent", "visible", "leased", "deleted"},
               count : 0..MaxAttempts,
               receipt : Receipt \cup {None},
               late : BOOLEAN]

NoJob == [pc |-> "none", msg |-> None, receipt |-> None, attempt |-> 0,
          outcome |-> "none", arg |-> None]

(* The awaits of _process_queue_message and _handle_failed_no_retry.  arg  *)
(* is the handle a pending update_message call was started with, or, at    *)
(* "retried", the new one it has answered with (None: the answer was lost).*)
JobAt(pcs, args) ==
  [pc : pcs, msg : Msg, receipt : Receipt, attempt : 1..MaxAttempts,
   outcome : {"none", "malformed", "setup", "success", "executor", "error"},
   arg : args]
Job == JobAt({"created", "running", "finishing", "retried", "dlq", "cleanup",
              "unwinding", "ended"}, {None})
         \cup JobAt({"retry", "retried", "extend"}, Handle)

NoRenew == [st |-> "off", on |-> None]

(* "late": the last renewal failed, so the lease runs out before the next. *)
(* "call": update_message is in its thread; "landed": the service has      *)
(* rotated the receipt but the loop has not stored it.                     *)
Renew == [st : {"sleep", "late", "over"}, on : {None}]
           \cup [st : {"call", "landed"}, on : Handle]

(* Bound: one stop_process per life of a process.                          *)
NoKill == [st |-> "idle", claim |-> None, worker |-> None]
KillDone == [NoKill EXCEPT !.st = "done"]
Kill == [st : {"cleanup", "waiting"}, claim : Claim, worker : Worker]

(* Bound: one stop_service, stop_worker or interrupt per life of a process.*)
NoControl == [op |-> "none", worker |-> None]
ControlDone == [op |-> "done", worker |-> None]
Control == [op : {"interrupt", "stop_service", "closing", "done"}, worker : {None}]
             \cup [op : {"stop_worker"}, worker : Worker]

TypeOK ==
  /\ queue \in [Msg -> QueueEntry]
  /\ dead \subseteq Msg
  /\ isRunning \in BOOLEAN
  /\ workerLoop \in [Worker -> {"polling", "busy", "stopped"}]
  /\ workerTasks \subseteq Worker
  /\ job \in [Worker -> Job \cup {NoJob}]
  /\ inflight \in [Worker -> Claim \cup {None}]
  /\ inflightMessage \in [Worker -> Handle \cup {None}]
  /\ inflightTask \subseteq Worker
  /\ renew \in [Worker -> Renew \cup {NoRenew}]
  /\ kill \in Kill \cup {NoKill, KillDone}
  /\ control \in Control \cup {NoControl}
  /\ succeeded \subseteq Msg
  /\ killed \subseteq Msg
  /\ execFailed \subseteq Msg

-----------------------------------------------------------------------------
(* The Azure queue, as the service relies on it: a receipt is current      *)
(* until the message is received again, updated or deleted; running out of *)
(* visibility time alone does not invalidate it.                           *)

Current(h) == /\ queue[h.msg].loc \in {"visible", "leased"}
              /\ queue[h.msg].receipt = h.receipt

(* delete_message: a stale handle is refused and nothing changes.          *)
AfterDelete(h) ==
  IF Current(h)
  THEN [queue EXCEPT ![h.msg] = [@ EXCEPT !.loc = "deleted", !.late = FALSE]]
  ELSE queue

(* update_message on a current handle: hidden again, under a new receipt.  *)
AfterUpdate(h, r) ==
  [queue EXCEPT ![h.msg] = [@ EXCEPT !.loc = "leased", !.receipt = r,
                                     !.late = FALSE]]

(* The queue q once update calls with the handles H have lost the tasks    *)
(* that awaited them.                                                      *)
WithLate(q, H) ==
  [m \in Msg |-> [q[m] EXCEPT !.late =
                    \/ @
                    \/ /\ q[m].loc \in {"visible", "leased"}
                       /\ [msg |-> m, receipt |-> q[m].receipt] \in H]]

(* Every receipt of m that is held anywhere.                               *)
KnownReceipts(m) ==
  {queue[m].receipt}
    \cup {job[w].receipt : w \in {x \in Worker : job[x].msg = m}}
    \cup {h.receipt : h \in {k \in {inflightMessage[w] : w \in Worker}
                              \cup {renew[w].on : w \in Worker}
                              \cup {job[w].arg : w \in Worker} :
                                k # None /\ k.msg = m}}

(* A receipt nobody holds.  At most one is offered, which one is irrelevant*)
FreshReceipts(m) ==
  LET free == Receipt \ KnownReceipts(m)
  IN  IF free = {} THEN {} ELSE {CHOOSE r \in free : TRUE}

(* A renewal loop that will extend the lease of m before it runs out: it   *)
(* wakes at 60% of the visibility time and holds the current receipt.      *)
Protected(m) ==
  \E w \in Worker :
    \/ /\ job[w].pc = "created"
       /\ job[w].msg = m
    \/ /\ renew[w].st = "sleep"
       /\ inflightMessage[w] = [msg |-> m, receipt |-> queue[m].receipt]
    \/ /\ renew[w].st \in {"call", "landed"}
       /\ renew[w].on = [msg |-> m, receipt |-> queue[m].receipt]

(* The API puts a claim's message on the queue.                            *)
Accept(m) ==
  /\ queue[m].loc = "unsent"
  /\ queue' = [queue EXCEPT ![m].loc = "visible"]
  /\ UNCHANGED <<dead, loops, job, tracking, renew, requests, history>>

(* The visibility timeout runs out.                                        *)
Expire(m) ==
  /\ queue[m].loc = "leased"
  /\ ~Protected(m)
  /\ queue' = [queue EXCEPT ![m].loc = "visible"]
  /\ UNCHANGED <<dead, loops, job, tracking, renew, requests, history>>

(* A call whose awaiting task was cancelled reaches the service, or fails. *)
LateCallLands(m) ==
  /\ queue[m].late
  /\ \/ \E r \in FreshReceipts(m) :
          queue' = AfterUpdate([msg |-> m, receipt |-> queue[m].receipt], r)
     \/ queue' = [queue EXCEPT ![m].late = FALSE]
  /\ UNCHANGED <<dead, loops, job, tracking, renew, requests, history>>

-----------------------------------------------------------------------------
(* Helpers of the service.                                                 *)

(* Mutant: the handle is looked up by message instead of by worker.        *)
HeldByMessage(w) ==
  LET tracked == {v \in Worker : /\ inflightMessage[v] # None
                                 /\ inflightMessage[v].msg = job[w].msg
                                 /\ Current(inflightMessage[v])}
  IN  IF tracked # {}
      THEN inflightMessage[CHOOSE v \in tracked : TRUE]
      ELSE [msg |-> job[w].msg, receipt |-> job[w].receipt]

(* "If visibility was renewed, prefer the latest tracked pop_receipt": the *)
(* handle every finalising call uses.                                      *)
HeldBy(w) ==
  IF inflightMessage[w] # None
  THEN inflightMessage[w]
  ELSE [msg |-> job[w].msg, receipt |-> job[w].receipt]

JobActive(w) == job[w].pc \notin {"none", "ended"}
HoldsLease(w) == JobActive(w) /\ Current(HeldBy(w))

(* Mutant: one attempt too few.                                            *)
DeadLettersEarly(j, outcome) ==
  \/ outcome \in {"malformed", "executor"}
  \/ j.attempt + 1 >= MaxAttempts

(* Mutant: attempts are not counted.                                       *)
DeadLettersForced(j, outcome) == outcome \in {"malformed", "executor"}

(* should_dead_letter: forced, or the delivery was the last attempt.       *)
DeadLetters(j, outcome) ==
  \/ outcome \in {"malformed", "executor"}
  \/ j.attempt >= MaxAttempts

(* _handle_failed_no_retry up to its first await.                          *)
FailWith(w, outcome, held) ==
  [job[w] EXCEPT !.outcome = outcome,
                 !.pc = IF DeadLetters(job[w], outcome) THEN "dlq" ELSE "retry",
                 !.arg = IF DeadLetters(job[w], outcome) THEN None ELSE held]

(* renew_task.cancel(): the task goes at once, a call in its thread stays. *)
RenewCallOf(w) == IF renew[w].st = "call" THEN {renew[w].on} ELSE {}

(* Mutant: the tracked handle is not cleared.                              *)
EndJobKeepsHandle(w, q) ==
  /\ queue' = q
  /\ job' = [job EXCEPT ![w].pc = "ended", ![w].arg = None]
  /\ inflight' = [inflight EXCEPT ![w] = None]
  /\ renew' = [renew EXCEPT ![w] = NoRenew]
  /\ UNCHANGED inflightMessage

(* Mutant: a renewal task that is left is not cancelled.                   *)
EndJobKeepsRenewing(w, q) ==
  /\ queue' = q
  /\ job' = [job EXCEPT ![w].pc = "ended", ![w].arg = None]
  /\ inflight' = [inflight EXCEPT ![w] = None]
  /\ inflightMessage' = [inflightMessage EXCEPT ![w] = None]
  /\ UNCHANGED renew

(* The handle tracked once the retry update of w has answered.             *)
Tracked(w) == IF job[w].pc = "retried" /\ job[w].arg # None
              THEN job[w].arg ELSE inflightMessage[w]

(* The finally block of _process_queue_message, q being the queue the job  *)
(* leaves: a renewal task that is left is cancelled and awaited first, then*)
(* the tracking is cleared.                                                *)
EndJob(w, q) ==
  IF renew[w].st = "off"
  THEN /\ queue' = q
       /\ job' = [job EXCEPT ![w].pc = "ended", ![w].arg = None]
       /\ inflight' = [inflight EXCEPT ![w] = None]
       /\ inflightMessage' = [inflightMessage EXCEPT ![w] = None]
       /\ UNCHANGED renew
  ELSE /\ queue' = WithLate(q, RenewCallOf(w))
       /\ job' = [job EXCEPT ![w].pc = "unwinding", ![w].arg = None]
       /\ renew' = [renew EXCEPT ![w] = NoRenew]
       /\ inflightMessage' = [inflightMessage EXCEPT ![w] = Tracked(w)]
       /\ UNCHANGED inflight

(* delete_message, which may be refused or fail: both are only logged.     *)
DeleteOutcomes(h) == {queue, AfterDelete(h)}

(* task.cancel() on the jobs of the workers in S.  CancelledError is raised*)
(* at the await the job is in: a job that has not started never runs, one  *)
(* with a renewal task awaits that task's end in its finally block, one    *)
(* already waiting there leaves before it has cleared the tracking.  The   *)
(* call the job awaited goes on in its thread.                             *)
CancelJobs(S) ==
  LET live   == {w \in S : job[w].pc \notin {"none", "ended"}}
      begun  == {w \in live : job[w].pc \notin {"created", "unwinding"}}
      awaits == {w \in begun : renew[w].st # "off" \/ job[w].pc = "finishing"}
      clears == begun \ awaits
      calls  == {job[w].arg : w \in {x \in live : job[x].pc \in {"retry", "extend"}}}
      sends  == {job[w].msg : w \in {x \in live : job[x].pc = "dlq"}}
  IN  /\ job' = [w \in Worker |->
                   IF w \in awaits
                   THEN [job[w] EXCEPT !.pc = "unwinding", !.arg = None]
                   ELSE IF w \in live
                        THEN [job[w] EXCEPT !.pc = "ended", !.arg = None]
                        ELSE job[w]]
      /\ inflight' = [w \in Worker |->
                        IF w \in clears THEN None ELSE inflight[w]]
      /\ inflightMessage' = [w \in Worker |->
                        IF w \in clears THEN None ELSE inflightMessage[w]]
      /\ renew' = [w \in Worker |-> IF w \in live THEN NoRenew ELSE renew[w]]
      /\ queue' = WithLate(queue, calls \cup UNION {RenewCallOf(w) : w \in live})
      /\ \E sent \in SUBSET sends : dead' = dead \cup sent

-----------------------------------------------------------------------------
(* The worker loop and the job it awaits.                                  *)

(* receive_messages hands out one visible message; its job task is created.*)
Receive(w, m) ==
  /\ workerLoop[w] = "polling"
  /\ isRunning
  /\ queue[m].loc = "visible"
  /\ \E r \in FreshReceipts(m) :
       LET n == IF queue[m].count < MaxAttempts
                THEN queue[m].count + 1 ELSE MaxAttempts
       IN  /\ queue' = [queue EXCEPT ![m] = [loc |-> "leased", count |-> n,
                                             receipt |-> r, late |-> FALSE]]
           /\ job' = [job EXCEPT ![w] = [NoJob EXCEPT
                                            !.pc = "created", !.msg = m,
                                            !.receipt = r, !.attempt = n]]
  /\ workerLoop' = [workerLoop EXCEPT ![w] = "busy"]
  /\ inflightTask' = inflightTask \cup {w}
  /\ UNCHANGED <<dead, isRunning, workerTasks, tracking, renew,
                 requests, history>>

(* parse_claim_task_parameters_from_queue_content finds a claim's id in it,*)
(* or raises.                                                              *)
Parses(m) == ClaimOf[m] # Malformed

(* The payload does not parse: nothing is tracked, dead-letter at once.    *)
RejectMalformed(w) ==
  /\ job[w].pc = "created"
  /\ ~Parses(job[w].msg)
  /\ job' = [job EXCEPT ![w] = FailWith(w, "malformed", HeldBy(w))]
  /\ UNCHANGED <<queue, dead, loops, tracking, renew, requests, history>>

(* Track the message in the dictionaries and start renewing its lease.     *)
Track(w) ==
  /\ inflight' = [inflight EXCEPT ![w] = ClaimOf[job[w].msg]]
  /\ inflightMessage' = [inflightMessage EXCEPT ![w] =
                           [msg |-> job[w].msg, receipt |-> job[w].receipt]]
  /\ renew' = [renew EXCEPT ![w] = [st |-> "sleep", on |-> None]]

(* The payload parses; either run() is entered, or get_service raises and  *)
(* the last-resort handler takes over with the renewal task still running. *)
StartJob(w) ==
  /\ job[w].pc = "created"
  /\ Parses(job[w].msg)
  /\ Track(w)
  /\ \/ job' = [job EXCEPT ![w].pc = "running"]
     \/ job' = [job EXCEPT ![w] = FailWith(w, "setup",
                           [msg |-> job[w].msg, receipt |-> job[w].receipt])]
  /\ UNCHANGED <<queue, dead, loops, requests, history>>

(* run() ends; the renewal task is cancelled before the queue is touched.  *)
RunReturns(w, outcome) ==
  /\ job[w].pc = "running"
  /\ job' = [job EXCEPT ![w].pc = "finishing", ![w].outcome = outcome]
  /\ renew' = [renew EXCEPT ![w] = NoRenew]
  /\ queue' = WithLate(queue, RenewCallOf(w))
  /\ succeeded' = IF outcome = "success"
                  THEN succeeded \cup {job[w].msg} ELSE succeeded
  /\ execFailed' = IF outcome = "executor"
                   THEN execFailed \cup {job[w].msg} ELSE execFailed
  /\ UNCHANGED <<dead, loops, tracking, requests, killed>>

(* Mutant: a delete that is refused is taken for a failed job.             *)
FinishSuccessOrFails(w) ==
  /\ job[w].pc = "finishing"
  /\ job[w].outcome = "success"
  /\ \/ EndJob(w, AfterDelete(HeldBy(w)))
     \/ /\ job' = [job EXCEPT ![w] = FailWith(w, "executor", HeldBy(w))]
        /\ UNCHANGED <<queue, tracking, renew>>
  /\ UNCHANGED <<dead, loops, requests, history>>

(* _handle_successful_processing: delete with the latest handle; a refused *)
(* or failed delete is only logged.                                        *)
FinishSuccess(w) ==
  /\ job[w].pc = "finishing"
  /\ job[w].outcome = "success"
  /\ \E q \in DeleteOutcomes(HeldBy(w)) : EndJob(w, q)
  /\ UNCHANGED <<dead, loops, requests, history>>

FinishFailure(w) ==
  /\ job[w].pc = "finishing"
  /\ job[w].outcome # "success"
  /\ job' = [job EXCEPT ![w] = FailWith(w, job[w].outcome, HeldBy(w))]
  /\ UNCHANGED <<queue, dead, loops, tracking, renew, requests, history>>

(* Retry: shorten the visibility so that the message comes back soon.      *)
RetryLands(w) ==
  /\ job[w].pc = "retry"
  /\ Current(job[w].arg)
  /\ \E r \in FreshReceipts(job[w].arg.msg) :
       /\ queue' = AfterUpdate(job[w].arg, r)
       /\ \E answer \in {None, [msg |-> job[w].arg.msg, receipt |-> r]} :
            job' = [job EXCEPT ![w].pc = "retried", ![w].arg = answer]
  /\ UNCHANGED <<dead, loops, tracking, renew, requests, history>>

(* Mutant: the retry path goes on to the delete.                           *)
RetryEndsDeleting(w) ==
  /\ job[w].pc \in {"retry", "retried"}
  /\ EndJob(w, AfterDelete(HeldBy(w)))
  /\ UNCHANGED <<dead, loops, requests, history>>

(* The retry update has answered with the receipt to track from now on, or *)
(* has raised and was logged.                                              *)
RetryEnds(w) ==
  /\ job[w].pc \in {"retry", "retried"}
  /\ EndJob(w, queue)
  /\ UNCHANGED <<dead, loops, requests, history>>

(* The dead-letter entry is written.  A job that ran cleans its output     *)
(* blobs next; the others delete the message in the same step.             *)
DeadLetterSent(w) ==
  /\ job[w].pc = "dlq"
  /\ dead' = dead \cup {job[w].msg}
  /\ \/ /\ job[w].outcome \in {"executor", "error"}
        /\ job' = [job EXCEPT ![w].pc = "cleanup"]
        /\ UNCHANGED <<queue, tracking, renew>>
     \/ /\ job[w].outcome \in {"malformed", "setup"}
        /\ \E q \in DeleteOutcomes(HeldBy(w)) : EndJob(w, q)
  /\ UNCHANGED <<loops, requests, history>>

(* Mutant: the failed send is swallowed and the message deleted after all. *)
DeadLetterFailsSilently(w) ==
  /\ job[w].pc = "dlq"
  /\ job' = [job EXCEPT ![w].pc = "cleanup"]
  /\ UNCHANGED <<queue, dead, loops, tracking, renew, requests, history>>

(* The send failed: keep the message and hide it for a while.              *)
DeadLetterFails(w) ==
  /\ job[w].pc = "dlq"
  /\ job' = [job EXCEPT ![w].pc = "extend", ![w].arg = HeldBy(w)]
  /\ UNCHANGED <<queue, dead, loops, tracking, renew, requests, history>>

ExtendEnds(w) ==
  /\ job[w].pc = "extend"
  /\ \/ /\ Current(job[w].arg)
        /\ \E r \in FreshReceipts(job[w].arg.msg) :
             EndJob(w, AfterUpdate(job[w].arg, r))
     \/ EndJob(w, queue)
  /\ UNCHANGED <<dead, loops, requests, history>>

(* The output blobs are removed in a thread; every way for that to end, a  *)
(* failure too, is the same to the queue.                                  *)
Cleaning(w) == job[w].pc = "cleanup"

(* The output blobs are gone (or their removal failed): delete the message.*)
CleanupEnds(w) ==
  /\ Cleaning(w)
  /\ \E q \in DeleteOutcomes(HeldBy(w)) : EndJob(w, q)
  /\ UNCHANGED <<dead, loops, requests, history>>

(* The awaited renewal task is gone: the rest of the finally block.        *)
Unwind(w) ==
  /\ job[w].pc = "unwinding"
  /\ job' = [job EXCEPT ![w].pc = "ended"]
  /\ inflight' = [inflight EXCEPT ![w] = None]
  /\ inflightMessage' = [inflightMessage EXCEPT ![w] = None]
  /\ UNCHANGED <<queue, dead, loops, renew, requests, history>>

(* The worker's await of the job returns or raises CancelledError, which is*)
(* taken for the job's; the loop goes on while is_running.                 *)
WorkerResumes(w) ==
  /\ workerLoop[w] = "busy"
  /\ job[w].pc = "ended"
  /\ job' = [job EXCEPT ![w] = NoJob]
  /\ inflightTask' = inflightTask \ {w}
  /\ workerLoop' = [workerLoop EXCEPT ![w] =
                      IF isRunning THEN "polling" ELSE "stopped"]
  /\ inflight' = IF isRunning THEN inflight ELSE [inflight EXCEPT ![w] = None]
  /\ UNCHANGED <<queue, dead, isRunning, workerTasks, inflightMessage, renew,
                 requests, history>>

-----------------------------------------------------------------------------
(* _renew_visibility_loop.                                                 *)

(* The sleep ends; the next extension starts with the tracked handle.      *)
RenewCalls(w) ==
  /\ renew[w].st \in {"sleep", "late"}
  /\ inflightMessage[w] # None
  /\ renew' = [renew EXCEPT ![w] = [st |-> "call", on |-> inflightMessage[w]]]
  /\ UNCHANGED <<queue, dead, loops, job, tracking, requests, history>>

(* The job has run longer than the renewal lifetime.                       *)
RenewLifetimeOver(w) ==
  /\ renew[w].st \in {"sleep", "late"}
  /\ renew' = [renew EXCEPT ![w] = [st |-> "over", on |-> None]]
  /\ UNCHANGED <<queue, dead, loops, job, tracking, requests, history>>

(* The service extends the lease and rotates the receipt.                  *)
RenewLands(w) ==
  /\ renew[w].st = "call"
  /\ Current(renew[w].on)
  /\ \E r \in FreshReceipts(renew[w].on.msg) :
       /\ queue' = AfterUpdate(renew[w].on, r)
       /\ renew' = [renew EXCEPT ![w] =
                      [st |-> "landed", on |-> [msg |-> renew[w].on.msg,
                                                receipt |-> r]]]
  /\ UNCHANGED <<dead, loops, job, tracking, requests, history>>

(* The answer reaches the loop: track the new receipt and go back to sleep.*)
RenewStores(w) ==
  /\ renew[w].st = "landed"
  /\ inflightMessage' = [inflightMessage EXCEPT ![w] = renew[w].on]
  /\ renew' = [renew EXCEPT ![w] =
                 [st |-> IF isRunning THEN "sleep" ELSE "over", on |-> None]]
  /\ UNCHANGED <<queue, dead, loops, job, inflight, requests, history>>

(* The call raises, before or after it took effect: the loop ends when the *)
(* message is gone, otherwise it sleeps for another 60% of the timeout.    *)
RenewFails(w) ==
  /\ renew[w].st \in {"call", "landed"}
  /\ renew' = [renew EXCEPT ![w] =
                 [st |-> IF queue[renew[w].on.msg].loc = "deleted" \/ ~isRunning
                         THEN "over" ELSE "late",
                  on |-> None]]
  /\ UNCHANGED <<queue, dead, loops, job, tracking, requests, history>>

-----------------------------------------------------------------------------
(* Control operations.                                                     *)

(* stop_process, up to its first await: find a worker on the claim, delete *)
(* the message it tracks, start removing the claim's output blobs.         *)
StopProcess(c) ==
  /\ kill = NoKill
  /\ \E w \in Worker :
       /\ inflight[w] = c
       /\ IF inflightMessage[w] # None
          THEN queue' \in DeleteOutcomes(inflightMessage[w])
          ELSE UNCHANGED queue
       /\ killed' = killed \cup {m \in Msg : ClaimOf[m] = c /\ queue[m].loc # "unsent"}
       /\ kill' = [st |-> "cleanup", claim |-> c, worker |-> w]
  /\ UNCHANGED <<dead, loops, job, tracking, renew, control,
                 succeeded, execFailed>>

(* stop_process after the blobs: cancel the job task the worker has now.   *)
StopProcessCancels ==
  /\ kill.st = "cleanup"
  /\ \/ /\ kill.worker \in inflightTask
        /\ CancelJobs({kill.worker})
        /\ kill' = [kill EXCEPT !.st = "waiting"]
     \/ /\ kill.worker \notin inflightTask
        /\ kill' = KillDone
        /\ UNCHANGED <<queue, dead, job, tracking, renew>>
  /\ UNCHANGED <<loops, control, history>>

(* stop_process returns once the cancelled job is over.                    *)
StopProcessReturns ==
  /\ kill.st = "waiting"
  /\ job[kill.worker].pc \in {"none", "created", "ended"}
  /\ kill' = KillDone
  /\ UNCHANGED <<queue, dead, loops, job, tracking, renew, control,
                 history>>

(* task.cancel() on worker loops: one that sleeps ends, one that awaits its*)
(* job has that job cancelled and lives on.                                *)
CancelWorkers(S) ==
  /\ CancelJobs({w \in S : workerLoop[w] = "busy"})
  /\ workerLoop' = [w \in Worker |->
                      IF w \in S /\ workerLoop[w] = "polling"
                      THEN "stopped" ELSE workerLoop[w]]

(* SIGINT: asyncio.run cancels the main task, and with it every worker.    *)
Interrupt ==
  /\ control = NoControl
  /\ control' = [op |-> "interrupt", worker |-> None]
  /\ CancelWorkers(Worker)
  /\ UNCHANGED <<isRunning, workerTasks, inflightTask, kill, history>>

(* stop_service up to the gather of the worker tasks.                      *)
StopService ==
  /\ control = NoControl
  /\ isRunning
  /\ control' = [op |-> "stop_service", worker |-> None]
  /\ isRunning' = FALSE
  /\ CancelWorkers(workerTasks)
  /\ UNCHANGED <<workerTasks, inflightTask, kill, history>>

(* stop_service after it: cancel the jobs that are still registered ...    *)
StopServiceCancelsJobs ==
  /\ control.op = "stop_service"
  /\ \A w \in workerTasks : workerLoop[w] = "stopped"
  /\ workerTasks' = {}
  /\ CancelJobs(inflightTask)
  /\ control' = [op |-> "closing", worker |-> None]
  /\ UNCHANGED <<isRunning, workerLoop, inflightTask, kill, history>>

(* ... and, once they are over, clear every tracking dictionary.           *)
StopServiceCloses ==
  /\ control.op = "closing"
  /\ \A w \in inflightTask : job[w].pc \in {"none", "ended"}
  /\ inflightTask' = {}
  /\ inflight' = [w \in Worker |-> None]
  /\ inflightMessage' = [w \in Worker |-> None]
  /\ control' = ControlDone
  /\ UNCHANGED <<queue, dead, isRunning, workerLoop, workerTasks, job, renew,
                 kill, history>>

(* stop_worker up to its wait.                                             *)
StopWorker(w) ==
  /\ control = NoControl
  /\ w \in workerTasks
  /\ control' = [op |-> "stop_worker", worker |-> w]
  /\ CancelWorkers({w})
  /\ UNCHANGED <<isRunning, workerTasks, inflightTask, kill, history>>

(* The wait ends, with the worker gone or after timeout_seconds: forget it.*)
StopWorkerFinishes ==
  /\ control.op = "stop_worker"
  /\ workerTasks' = workerTasks \ {control.worker}
  /\ inflight' = [inflight EXCEPT ![control.worker] = None]
  /\ inflightMessage' = [inflightMessage EXCEPT ![control.worker] = None]
  /\ inflightTask' = inflightTask \ {control.worker}
  /\ control' = ControlDone
  /\ UNCHANGED <<queue, dead, isRunning, workerLoop, job, renew, kill,
                 history>>

(* A fresh ClaimProcessingQueueService with its workers spawned.           *)
FreshService ==
  /\ isRunning' = TRUE
  /\ workerLoop' = [w \in Worker |-> "polling"]
  /\ workerTasks' = Worker
  /\ job' = [w \in Worker |-> NoJob]
  /\ inflight' = [w \in Worker |-> None]
  /\ inflightMessage' = [w \in Worker |-> None]
  /\ inflightTask' = {}
  /\ renew' = [w \in Worker |-> NoRenew]
  /\ kill' = NoKill
  /\ control' = NoControl

(* Every worker has stopped: start_service returns, the container restarts.*)
Restart ==
  /\ \A w \in Worker : workerLoop[w] = "stopped"
  /\ FreshService
  /\ UNCHANGED <<queue, dead, history>>

(* The process dies and is restarted; only the queues survive, with what a *)
(* dead-letter send under way may have left.                               *)
Crash ==
  /\ \E sent \in SUBSET {job[w].msg : w \in {x \in Worker : job[x].pc = "dlq"}} :
       dead' = dead \cup sent
  /\ FreshService
  /\ UNCHANGED <<queue, history>>

-----------------------------------------------------------------------------
Init ==
  /\ queue = [m \in Msg |-> [loc |-> "unsent", count |-> 0, receipt |-> None,
                           late |-> FALSE]]
  /\ dead = {}
  /\ isRunning = TRUE
  /\ workerLoop = [w \in Worker |-> "polling"]
  /\ workerTasks = Worker
  /\ job = [w \in Worker |-> NoJob]
  /\ inflight = [w \in Worker |-> None]
  /\ inflightMessage = [w \in Worker |-> None]
  /\ inflightTask = {}
  /\ renew = [w \in Worker |-> NoRenew]
  /\ kill = NoKill
  /\ control = NoControl
  /\ succeeded = {}
  /\ killed = {}
  /\ execFailed = {}

JobStep(w) ==
  \/ RejectMalformed(w)
  \/ StartJob(w)
  \/ \E outcome \in {"success", "executor", "error"} : RunReturns(w, outcome)
  \/ FinishSuccess(w)
  \/ FinishFailure(w)
  \/ RetryLands(w)
  \/ RetryEnds(w)
  \/ DeadLetterSent(w)
  \/ DeadLetterFails(w)
  \/ ExtendEnds(w)
  \/ CleanupEnds(w)
  \/ Unwind(w)

RenewStep(w) ==
  \/ RenewCalls(w)
  \/ RenewLifetimeOver(w)
  \/ RenewLands(w)
  \/ RenewStores(w)
  \/ RenewFails(w)

WorkerStep(w) ==
  \/ \E m \in Msg : Receive(w, m)
  \/ JobStep(w)
  \/ RenewStep(w)
  \/ WorkerResumes(w)

QueueStep ==
  \E m \in Msg : Accept(m) \/ Expire(m) \/ LateCallLands(m)

KillStep ==
  \/ \E c \in Claim : StopProcess(c)
  \/ StopProcessCancels
  \/ StopProcessReturns

ControlStep ==
  \/ Interrupt
  \/ StopService
  \/ StopServiceCancelsJobs
  \/ StopServiceCloses
  \/ \E w \in Worker : StopWorker(w)
  \/ StopWorkerFinishes
  \/ Restart

(* The service working through its queue, with crashes and restarts.       *)
Next ==
  \/ QueueStep
  \/ \E w \in Worker : WorkerStep(w)
  \/ Crash

Spec == Init /\ [][Next]_vars

(* With the operations that cancel jobs or workers.                        *)
FullNext == Next \/ KillStep \/ ControlStep

FullSpec == Init /\ [][FullNext]_vars

(* Fairness.  The loop runs every task that can go on, a run ends, the     *)
(* queue hands out what is visible, a lease that is not renewed runs out   *)
(* and a container that has stopped is started again: weak fairness, which *)
(* asks nothing of the API, the renewal timer, faults or the operator.     *)
Proceeds(w) ==
  \/ \E m \in Msg : Receive(w, m)
  \/ JobStep(w)
  \/ WorkerResumes(w)

(* The step in which w would delete the message of its job.                *)
DeletesMessage(w) ==
  /\ job[w].pc \in {"finishing", "dlq", "cleanup"}
  /\ Current(HeldBy(w))
  /\ job'[w].pc \in {"ended", "unwinding"}

(* A step without a fault: the process lives, calls to the queue services  *)
(* are answered, no lease runs out under a job that still holds it, and no *)
(* job goes on while an extension of its lease is on its way.              *)
Faultless ==
  /\ ~Crash
  /\ ~Interrupt /\ ~StopService
  /\ \A w \in Worker : ~StopWorker(w)
  /\ \A c \in Claim : ~StopProcess(c)
  /\ \A m \in Msg :
       Expire(m) => \A w \in Worker : HoldsLease(w) => HeldBy(w).msg # m
  /\ \A w \in Worker :
       /\ ~RenewFails(w)
       /\ ~DeadLetterFails(w)
       /\ renew[w].st \in {"call", "landed"} => job'[w] = job[w]
       /\ DeletesMessage(w) => queue'[job[w].msg].loc = "deleted"

Finishes ==
  \/ StopProcessCancels \/ StopProcessReturns
  \/ StopServiceCancelsJobs \/ StopServiceCloses
  \/ StopWorkerFinishes
  \/ Restart
FairSpec ==
  /\ FullSpec
  /\ WF_vars(Finishes)
  /\ \A m \in Msg : WF_vars(Expire(m)) /\ WF_vars(LateCallLands(m))
  /\ \A w \in Worker : WF_vars(Proceeds(w))
  /\ <>[][Faultless]_vars

-----------------------------------------------------------------------------
(* No message is lost: one that is off the claim queue was completed by a  *)
(* job, has an entry in the dead-letter queue, or was killed by claim.     *)
NoMessageLost ==
  \A m \in Msg : queue[m].loc = "deleted" => m \in succeeded \cup dead \cup killed

(* A worker never removes a message another worker holds the lease of: of  *)
(* two jobs on one message at most one has a current handle.               *)
ExclusiveLease ==
  \A v, w \in Worker :
    v # w /\ HoldsLease(v) /\ HoldsLease(w) => HeldBy(v).msg # HeldBy(w).msg

(* The dead-letter queue holds only what may be there: a payload that does *)
(* not parse, an executor failure, or a message on its last attempt.       *)
DeadLetterJustified ==
  \A m \in dead :
    \/ ClaimOf[m] = Malformed
    \/ m \in execFailed
    \/ queue[m].count >= MaxAttempts

(* The queue with its workers, leases, renewals and crashes implements the *)
(* promise of ClaimMessages.                                               *)
PlaceOf(m) ==
  IF queue[m].loc \in {"visible", "leased"} THEN "queued"
  ELSE IF queue[m].loc = "deleted" THEN "gone" ELSE "unsent"
VerdictsOn(m) ==
  {v \in {"completed", "dead-lettered", "killed"} :
     \/ v = "completed" /\ m \in succeeded
     \/ v = "dead-lettered" /\ m \in dead
     \/ v = "killed" /\ m \in killed}
Promise == INSTANCE ClaimMessages WITH
             place <- [m \in Msg |-> PlaceOf(m)],
             verdicts <- [m \in Msg |-> VerdictsOn(m)]
PromiseKept == Promise!Spec

(* One delivery has one verdict: a message that was both completed and     *)
(* dead-lettered was delivered at least twice.                             *)
OneVerdictPerDelivery ==
  \A m \in succeeded \cap dead : queue[m].count >= 2

(* The dictionaries name what the worker is doing: nothing when it does    *)
(* nothing, and its own job's message and claim otherwise.                 *)
TrackingMatchesJob ==
  \A w \in Worker :
    /\ inflightMessage[w] # None =>
         /\ JobActive(w)
         /\ inflightMessage[w].msg = job[w].msg
    /\ inflight[w] # None =>
         /\ JobActive(w)
         /\ inflight[w] = ClaimOf[job[w].msg]

(* Once stop_service has returned nothing of the service is left at work:  *)
(* no job, no renewal, no tracked handle, until the container restarts.    *)
StoppedIsIdle ==
  ~isRunning /\ control = ControlDone =>
    \A w \in Worker :
      /\ ~JobActive(w)
      /\ renew[w] = NoRenew
      /\ inflight[w] = None /\ inflightMessage[w] = None

(* The renewal loop is cancelled before the message is deleted so that the *)
(* delete cannot meet a rotated receipt: the job of a message's only       *)
(* delivery finds its handle current when it deletes the message.          *)
FirstDeliveryDeletes ==
  \A w \in Worker :
    /\ job[w].pc = "finishing"
    /\ job[w].outcome = "success"
    /\ queue[job[w].msg].count = 1
    /\ job[w].msg \notin killed
    => Current(HeldBy(w))

(* After an interrupt no worker takes another message.                     *)
InterruptStopsWorkers ==
  [][ \A w \in Worker :
        control.op = "interrupt" /\ control'.op = "interrupt"
          => ~ (job[w].pc = "none" /\ job'[w].pc = "created") ]_vars

-----------------------------------------------------------------------------
(* What the proofs carry along: the facts that make the properties above   *)
(* hold step by step.                                                      *)

(* The job of w got past parsing its message.                              *)
Begun(w) == job[w].pc \notin {"none", "created", "ended"}

(* A worker awaits a job exactly when it has one.                          *)
BusyWithJob == \A w \in Worker : workerLoop[w] = "busy" <=> job[w].pc # "none"

(* Every handle a job works with is one of its own message.                *)
HandlesOfJob ==
  \A w \in Worker :
    /\ Begun(w) /\ inflightMessage[w] # None => inflightMessage[w].msg = job[w].msg
    /\ renew[w].st # "off" => Begun(w) /\ job[w].pc # "unwinding"
    /\ renew[w].on # None => renew[w].on.msg = job[w].msg
    /\ job[w].arg # None => job[w].arg.msg = job[w].msg

(* A tracked handle is one of the tracked claim.                           *)
HandlesOfClaim ==
  \A w \in Worker :
    inflight[w] # None =>
      /\ inflightMessage[w] # None => ClaimOf[inflightMessage[w].msg] = inflight[w]
      /\ renew[w].st # "off" => ClaimOf[job[w].msg] = inflight[w]

(* A job that is about to delete its message has its verdict on record.    *)
VerdictFirst ==
  \A w \in Worker :
    /\ job[w].pc = "finishing" /\ job[w].outcome = "success" => job[w].msg \in succeeded
    /\ job[w].pc = "cleanup" => job[w].msg \in dead

(* Only sent messages are worked on, only queued ones have late calls.     *)
OnlySent ==
  /\ \A m \in Msg : queue[m].late => queue[m].loc \in {"visible", "leased"}
  /\ \A w \in Worker : job[w].pc # "none" => queue[job[w].msg].loc # "unsent"

(* Jobs that are dead-lettered are so for a reason.                        *)
ReasonFirst ==
  \A w \in Worker :
    /\ job[w].outcome = "malformed" => ClaimOf[job[w].msg] = Malformed
    /\ job[w].outcome = "executor" => job[w].msg \in execFailed
    /\ job[w].pc # "none" => job[w].attempt <= queue[job[w].msg].count
    /\ job[w].pc = "dlq" => DeadLetters(job[w], job[w].outcome)

(* The current handle of a message is known to one worker at most.         *)
Knows(w, m) ==
  [msg |-> m, receipt |-> queue[m].receipt] \in
    {[msg |-> job[w].msg, receipt |-> job[w].receipt], inflightMessage[w],
     renew[w].on, job[w].arg}
OneHolder ==
  \A m \in Msg : \A v, w \in Worker :
    queue[m].receipt # None /\ Knows(v, m) /\ Knows(w, m) => v = w

(* No handle is left tracked when a message that does not parse arrives.   *)
(* Without the operator's commands none is left at all; with them one may  *)
(* be, and only a queue whose messages all parse is safe from it.          *)
NothingLeft ==
  \A w \in Worker :
    /\ inflightMessage[w] # None => Begun(w)
    /\ inflight[w] # None => Begun(w) /\ inflight[w] = ClaimOf[job[w].msg]
CleanArrival ==
  \A w \in Worker :
    job[w].pc = "created" /\ ClaimOf[job[w].msg] = Malformed => inflightMessage[w] = None

(* Until a message is delivered again it is worked on by one job at most,  *)
(* which leaves it alone once it has its verdict.                          *)
WorksOn(w, m) == job[w].pc # "none" /\ job[w].msg = m
AfterSuccess(w) ==
  \/ job[w].pc \in {"unwinding", "ended"}
  \/ job[w].pc = "finishing" /\ job[w].outcome = "success"
AfterDeadLetter(w) == job[w].pc \in {"cleanup", "unwinding", "ended"}
FirstDelivery ==
  \A m \in Msg : queue[m].count < 2 =>
    /\ \A v, w \in Worker : WorksOn(v, m) /\ WorksOn(w, m) => v = w
    /\ queue[m].count = 0 =>
         m \notin succeeded \cup dead /\ \A w \in Worker : ~WorksOn(w, m)
    /\ m \notin succeeded \cap dead
    /\ m \in succeeded => \A w \in Worker : WorksOn(w, m) => AfterSuccess(w)
    /\ m \in dead => \A w \in Worker : WorksOn(w, m) => AfterDeadLetter(w)

(* Only jobs at work have a renewal task.                                  *)
RenewsAtWork ==
  \A w \in Worker : renew[w].st # "off" => Begun(w) /\ job[w].pc # "unwinding"

(* stop_service in its order: until it is called nothing has stopped, it   *)
(* goes on once every worker has, and nothing moves or is tracked after it.*)
Stops ==
  /\ control = NoControl => isRunning /\ workerTasks = Worker
  /\ ~isRunning => control.op \in {"stop_service", "closing", "done"}
  /\ control.op = "stop_service" => ~isRunning /\ workerTasks = Worker
  /\ control.op = "closing" => ~isRunning
  /\ control.op = "closing" \/ (~isRunning /\ control.op = "done") =>
       \A w \in Worker : workerLoop[w] = "stopped"
  /\ ~isRunning /\ control.op = "done" =>
       \A w \in Worker : inflight[w] = None /\ inflightMessage[w] = None

(* A message on the queue is in the end taken off it, by its success or    *)
(* through its retries and the dead-letter queue.                          *)
QueueDrains ==
  \A m \in Msg : queue[m].loc = "visible" ~> queue[m].loc = "deleted"
=============================================================================
