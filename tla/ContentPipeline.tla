-------------------------- MODULE ContentPipeline --------------------------
(***************************************************************************)
(* The content pipeline of src/ContentProcessor: one queue per step, the   *)
(* handler processes that move a document from step to step (HandlerBase of*)
(* libs/pipeline/queue_handler_base.py), the host that restarts them, the  *)
(* process record in Cosmos DB that the API and the claim workflow poll,   *)
(* and the two ways a document is submitted.                               *)
(*                                                                         *)
(* Handlers are operating-system processes and every call they make is to a*)
(* remote service, so an action is one call: it takes effect and returns,  *)
(* takes effect and raises, or raises without effect.                      *)
(***************************************************************************)
EXTENDS Naturals, FiniteSets

CONSTANTS
  Doc,          (* submitted documents, by process_id                       *)
  Handler,      (* handler processes of all replicas                        *)
  NumSteps,     (* length of app_process_steps; the last step is save       *)
  StepOf,       (* the step each handler was started for                    *)
  MaxDequeue,   (* a failed message delivered more often is dead-lettered   *)
  Slot,         (* bound: messages that exist at one time                   *)
  None          (* no message, no record, no receipt holder                 *)

Step == 1..NumSteps

VARIABLES
  queue,        (* the messages of all step queues                          *)
  deadLetters,  (* <<document, step>> of every dead-letter entry            *)
  handler,      (* what each handler process is doing                       *)
  record,       (* the Cosmos record of each document                       *)
  outputs,      (* the steps whose output is in blob storage                *)
  submit,       (* where the submission of each document is                 *)
  sent          (* history: documents put on the first queue                *)

vars == <<queue, deadLetters, handler, record, outputs, submit, sent>>

-----------------------------------------------------------------------------
(* A message: its payload (document, remaining_steps), the queue it is on, *)
(* its dequeue_count (bound: capped above MaxDequeue) and the handler whose*)
(* pop receipt is current.                                                 *)
Message == [doc : Doc, remaining : SUBSET Step, step : Step,
            loc : {"visible", "leased"}, count : 0..(MaxDequeue + 1),
            holder : Handler \cup {None}]

(* The calls of _connect_async, and the process before its restart.        *)
Pc == {"received", "executing", "saving", "executed", "passed", "deleted",
       "failed", "reported", "buried", "dropped"}
Idle == [pc |-> "idle"]
Down == [pc |-> "down"]
Busy == [pc : Pc, slot : Slot, doc : Doc, remaining : SUBSET Step,
         count : 1..(MaxDequeue + 1)]

(* Pollers tell three statuses apart: Completed, Error, and all others     *)
(* ("processing" and the step names).  result: the extracted result and its*)
(* scores are there.                                                       *)
Record == [status : {"working", "Error", "Completed"}, result : BOOLEAN]

ASSUME PipelineAssumption ==
  /\ NumSteps \in Nat \ {0}
  /\ MaxDequeue \in Nat
  /\ StepOf \in [Handler -> Step]
  /\ None \notin Handler \cup Message \cup Record

TypeOK ==
  /\ queue \in [Slot -> Message \cup {None}]
  /\ deadLetters \subseteq Doc \X Step
  /\ handler \in [Handler -> Busy \cup {Idle, Down}]
  /\ record \in [Doc -> Record \cup {None}]
  /\ outputs \in [Doc -> SUBSET Step]
  /\ submit \in [Doc -> {"upload", "new", "enqueued", "added", "answered", "done"}]
  /\ sent \subseteq Doc

-----------------------------------------------------------------------------
(* Storage queue and record, as the handlers use them.                     *)

(* The slots a new message may take; which one is irrelevant.              *)
FreeSlots ==
  LET free == {s \in Slot : queue[s] = None}
  IN  IF free = {} THEN {} ELSE {CHOOSE s \in free : TRUE}

(* send_message on the queue of step k, with the remaining_steps rest.     *)
Send(d, rest, k) ==
  \E s \in FreeSlots :
    queue' = [queue EXCEPT ![s] = [doc |-> d, remaining |-> rest, step |-> k,
                                   loc |-> "visible", count |-> 0,
                                   holder |-> None]]

(* delete_message and update_message want the current receipt: the message *)
(* has not been received, updated or deleted since h received it.          *)
Holds(h) == LET s == handler[h].slot
            IN  queue[s] # None /\ queue[s].holder = h

(* The status write of update_process_status_to_cosmos: an upsert of the   *)
(* tracked fields that leaves the result as it is.                         *)
WithStatus(d, status) ==
  [record EXCEPT ![d] = [status |-> status,
                         result |-> IF @ = None THEN FALSE ELSE @.result]]

(* update_status_to_cosmos: every field of the model is written, those that*)
(* were not filled in included.                                            *)
WithModel(d, status, result) ==
  [record EXCEPT ![d] = [status |-> status, result |-> result]]

(* h goes on, or the call it made has raised although it took effect.      *)
Goes(h, pc) ==
  \E next \in {pc, "failed"} : handler' = [handler EXCEPT ![h].pc = next]

(* Mutant: the step stays in remaining_steps.                              *)
AfterUpdateStepKept(h) == handler[h].remaining

(* update_step: the active step is taken off remaining_steps, and the whole*)
(* is completed when none is left.                                         *)
AfterUpdateStep(h) == handler[h].remaining \ {StepOf[h]}

(* Mutant: every step ends with the status Completed.                      *)
CompletedAlways(h) == TRUE
Completed(h) == handler[h].remaining = {}

(* Mutant: the attempts are never used up.                                 *)
ExhaustedNever(h) == FALSE

(* dequeue_count > 5 in the code.                                          *)
Exhausted(h) == handler[h].count > MaxDequeue

-----------------------------------------------------------------------------
(* A handler at work on a message.                                         *)

(* receive_messages, whose visibility timeout nobody extends.              *)
Receive(h, s) ==
  /\ handler[h] = Idle
  /\ queue[s] # None
  /\ queue[s].step = StepOf[h]
  /\ queue[s].loc = "visible"
  /\ LET n == IF queue[s].count > MaxDequeue
              THEN queue[s].count ELSE queue[s].count + 1
     IN  /\ queue' = [queue EXCEPT ![s] = [@ EXCEPT !.loc = "leased",
                                                    !.count = n, !.holder = h]]
         /\ handler' = [handler EXCEPT ![h] =
                          [pc |-> "received", slot |-> s, doc |-> queue[s].doc,
                           remaining |-> queue[s].remaining, count |-> n]]
  /\ UNCHANGED <<deadLetters, record, outputs, submit, sent>>

(* The running step is written to the record before it is executed.        *)
Begin(h) ==
  /\ handler[h].pc = "received"
  /\ record' = WithStatus(handler[h].doc, "working")
  /\ Goes(h, "executing")
  /\ UNCHANGED <<queue, deadLetters, outputs, submit, sent>>

(* The save step writes the whole record, with the result.                 *)
SaveResult(h) ==
  /\ handler[h].pc = "executing"
  /\ StepOf[h] = NumSteps
  /\ record' = WithModel(handler[h].doc, "working", TRUE)
  /\ Goes(h, "saving")
  /\ UNCHANGED <<queue, deadLetters, outputs, submit, sent>>

(* Nothing is left of execute() but its files; the save step has put the   *)
(* result into the record before.                                          *)
OnlyFilesLeft(h) ==
  \/ handler[h].pc = "executing" /\ StepOf[h] # NumSteps
  \/ handler[h].pc = "saving"

(* execute() ends: the step's output is in blob storage, then its result   *)
(* and the pipeline status are.                                            *)
WriteOutput(h) ==
  /\ OnlyFilesLeft(h)
  /\ outputs' = [outputs EXCEPT ![handler[h].doc] = @ \cup {StepOf[h]}]
  /\ handler' \in {[handler EXCEPT ![h].pc = "executed",
                                   ![h].remaining = AfterUpdateStep(h)],
                   [handler EXCEPT ![h].pc = "failed"]}
  /\ UNCHANGED <<queue, deadLetters, record, submit, sent>>

(* Mutant: a send that failed is only logged.                              *)
PassOnSilently(h) ==
  /\ handler[h].pc = "executed"
  /\ Goes(h, "passed")
  /\ UNCHANGED <<queue, deadLetters, record, outputs, submit, sent>>

(* pass_data_pipeline_to_next_step: nothing to send after the last step.   *)
PassOn(h) ==
  /\ handler[h].pc = "executed"
  /\ IF StepOf[h] = NumSteps
     THEN UNCHANGED queue
     ELSE Send(handler[h].doc, handler[h].remaining, StepOf[h] + 1)
  /\ Goes(h, "passed")
  /\ UNCHANGED <<deadLetters, record, outputs, submit, sent>>

Delete(h) ==
  /\ handler[h].pc = "passed"
  /\ Holds(h)
  /\ queue' = [queue EXCEPT ![handler[h].slot] = None]
  /\ Goes(h, "deleted")
  /\ UNCHANGED <<deadLetters, record, outputs, submit, sent>>

(* The last status write, after which the handler polls again.             *)
Finish(h) ==
  /\ handler[h].pc = "deleted"
  /\ record' = WithStatus(handler[h].doc,
                          IF Completed(h) THEN "Completed" ELSE "working")
  /\ handler' \in {[handler EXCEPT ![h] = Idle],
                   [handler EXCEPT ![h].pc = "failed"]}
  /\ UNCHANGED <<queue, deadLetters, outputs, submit, sent>>

-----------------------------------------------------------------------------
(* The error path.                                                         *)

(* A call raises without effect, or the step itself fails.                 *)
Raises(h) ==
  /\ handler[h].pc \in {"received", "executing", "saving", "executed",
                        "passed", "deleted"}
  /\ handler' = [handler EXCEPT ![h].pc = "failed"]
  /\ UNCHANGED <<queue, deadLetters, record, outputs, submit, sent>>

(* The record is written whole, with the error and no result.              *)
Report(h) ==
  /\ handler[h].pc = "failed"
  /\ record' = WithModel(handler[h].doc, "Error", FALSE)
  /\ handler' = [handler EXCEPT ![h].pc = "reported"]
  /\ UNCHANGED <<queue, deadLetters, outputs, submit, sent>>

(* Attempts left: hide the message for a moment and poll again.            *)
Retry(h) ==
  /\ handler[h].pc = "reported"
  /\ ~Exhausted(h)
  /\ Holds(h)
  /\ queue' = [queue EXCEPT ![handler[h].slot].loc = "leased",
                            ![handler[h].slot].holder = None]
  /\ handler' = [handler EXCEPT ![h] = Idle]
  /\ UNCHANGED <<deadLetters, record, outputs, submit, sent>>

(* No attempts left: dead-letter, delete, and report once more.            *)
Bury(h) ==
  /\ handler[h].pc = "reported"
  /\ Exhausted(h)
  /\ deadLetters' = deadLetters \cup {<<handler[h].doc, StepOf[h]>>}
  /\ handler' = [handler EXCEPT ![h].pc = "buried"]
  /\ UNCHANGED <<queue, record, outputs, submit, sent>>

DeleteBuried(h) ==
  /\ handler[h].pc = "buried"
  /\ Holds(h)
  /\ queue' = [queue EXCEPT ![handler[h].slot] = None]
  /\ handler' = [handler EXCEPT ![h].pc = "dropped"]
  /\ UNCHANGED <<deadLetters, record, outputs, submit, sent>>

ReportAgain(h) ==
  /\ handler[h].pc = "dropped"
  /\ record' = WithModel(handler[h].doc, "Error", FALSE)
  /\ handler' = [handler EXCEPT ![h] = Idle]
  /\ UNCHANGED <<queue, deadLetters, outputs, submit, sent>>

(* A call on a stale receipt is refused: on the way to success that is an  *)
(* error like any other, in the error path it ends the process.            *)
Refused(h) ==
  /\ handler[h] \notin {Idle, Down}
  /\ ~Holds(h)
  /\ \/ /\ handler[h].pc = "passed"
        /\ handler' = [handler EXCEPT ![h].pc = "failed"]
     \/ /\ handler[h].pc = "buried" \/ (handler[h].pc = "reported" /\ ~Exhausted(h))
        /\ handler' = [handler EXCEPT ![h] = Down]
  /\ UNCHANGED <<queue, deadLetters, record, outputs, submit, sent>>

(* The process ends: it is killed, or raises outside the try block (a      *)
(* payload that does not parse) or in the error path.                      *)
Crash(h) ==
  /\ handler[h] # Down
  /\ handler' = [handler EXCEPT ![h] = Down]
  /\ queue' = [s \in Slot |->
                 IF queue[s] # None /\ queue[s].holder = h
                 THEN [queue[s] EXCEPT !.holder = None] ELSE queue[s]]
  /\ UNCHANGED <<deadLetters, record, outputs, submit, sent>>

(* The host finds the process dead and starts another.                     *)
Restart(h) ==
  /\ handler[h] = Down
  /\ handler' = [handler EXCEPT ![h] = Idle]
  /\ UNCHANGED <<queue, deadLetters, record, outputs, submit, sent>>

(* The visibility timeout of a message runs out, its handler still at work *)
(* or not.                                                                 *)
Expire(s) ==
  /\ queue[s] # None
  /\ queue[s].loc = "leased"
  /\ queue' = [queue EXCEPT ![s].loc = "visible"]
  /\ UNCHANGED <<deadLetters, handler, record, outputs, submit, sent>>

-----------------------------------------------------------------------------
(* Submission: a document is uploaded to the API, or is "new" to the claim *)
(* workflow.                                                               *)

(* The API sends the message, then upserts the record.                     *)
ApiSends(d) ==
  /\ submit[d] = "upload"
  /\ Send(d, Step, 1)
  /\ submit' = [submit EXCEPT ![d] = "enqueued"]
  /\ sent' = sent \cup {d}
  /\ UNCHANGED <<deadLetters, handler, record, outputs>>

ApiRecords(d) ==
  /\ submit[d] = "enqueued"
  /\ \/ record' = WithStatus(d, "working")
     \/ UNCHANGED record
  /\ submit' = [submit EXCEPT ![d] = "answered"]
  /\ UNCHANGED <<queue, deadLetters, handler, outputs, sent>>

(* ContentProcessService.submit adds the record, then sends the message.   *)
WorkflowRecords(d) ==
  /\ submit[d] = "new"
  /\ record[d] = None
  /\ record' = WithModel(d, "working", FALSE)
  /\ submit' = [submit EXCEPT ![d] = "added"]
  /\ UNCHANGED <<queue, deadLetters, handler, outputs, sent>>

WorkflowSends(d) ==
  /\ submit[d] = "added"
  /\ Send(d, Step, 1)
  /\ submit' = [submit EXCEPT ![d] = "done"]
  /\ sent' = sent \cup {d}
  /\ UNCHANGED <<deadLetters, handler, record, outputs>>

(* The claim's message is delivered again, after a crash between or after  *)
(* the two calls, and submits the same document anew ...                   *)
Redeliver(d) ==
  /\ submit[d] \in {"added", "done"}
  /\ submit' = [submit EXCEPT ![d] = "new"]
  /\ UNCHANGED <<queue, deadLetters, handler, record, outputs, sent>>

(* ... which returns at once when the record exists.                       *)
ShortCircuit(d) ==
  /\ submit[d] = "new"
  /\ record[d] # None
  /\ submit' = [submit EXCEPT ![d] = "done"]
  /\ UNCHANGED <<queue, deadLetters, handler, record, outputs, sent>>

-----------------------------------------------------------------------------
Init ==
  /\ queue = [s \in Slot |-> None]
  /\ deadLetters = {}
  /\ handler = [h \in Handler |-> Idle]
  /\ record = [d \in Doc |-> None]
  /\ outputs = [d \in Doc |-> {}]
  /\ submit \in [Doc -> {"upload", "new"}]
  /\ sent = {}

HandlerStep(h) ==
  \/ \E s \in Slot : Receive(h, s)
  \/ Begin(h)
  \/ SaveResult(h)
  \/ WriteOutput(h)
  \/ PassOn(h)
  \/ Delete(h)
  \/ Finish(h)
  \/ Report(h)
  \/ Retry(h)
  \/ Bury(h)
  \/ DeleteBuried(h)
  \/ ReportAgain(h)
  \/ Refused(h)
  \/ Restart(h)

SubmitStep(d) ==
  \/ ApiSends(d)
  \/ ApiRecords(d)
  \/ WorkflowRecords(d)
  \/ WorkflowSends(d)
  \/ Redeliver(d)
  \/ ShortCircuit(d)

Next ==
  \/ \E h \in Handler : HandlerStep(h) \/ Raises(h) \/ Crash(h)
  \/ \E s \in Slot : Expire(s)
  \/ \E d \in Doc : SubmitStep(d)

Spec == Init /\ [][Next]_vars

(* A step without a fault of the surroundings: processes live, no lease    *)
(* runs out under a handler that holds it, and remote calls succeed.  The  *)
(* steps themselves may go on failing.                                     *)
Faultless ==
  /\ \A h \in Handler :
       /\ ~Crash(h)
       /\ handler'[h] \notin {Idle, Down} /\ handler'[h].pc = "failed" =>
            \/ handler[h].pc \in {"executing", "failed"}
            \/ handler[h].pc = "passed" /\ ~Holds(h)
  /\ \A s \in Slot : Expire(s) => queue[s].holder = None

(* Without any such fault.                                                 *)
CalmSpec == Init /\ [][Next /\ Faultless]_vars

(* Fairness: handlers that can go on do, dead ones are restarted and leases*)
(* run out, which nobody has to do anything for; nothing is asked of the   *)
(* submitters.  Faults end at some time: a message that meets one at every *)
(* delivery may go round for ever.                                         *)
FairSpec ==
  /\ Spec
  /\ \A h \in Handler : WF_vars(HandlerStep(h))
  /\ \A s \in Slot : WF_vars(Expire(s))
  /\ <>[][Faultless]_vars

-----------------------------------------------------------------------------
(* No document is lost: once sent it is on a queue, in a dead-letter queue,*)
(* or its save step has written its output.                                *)
NoDocumentLost ==
  \A d \in sent :
    \/ \E s \in Slot : queue[s] # None /\ queue[s].doc = d
    \/ \E k \in Step : <<d, k>> \in deadLetters
    \/ NumSteps \in outputs[d]

(* Steps build on each other: a message on the queue of a step finds the   *)
(* output of every earlier step, and lists exactly the steps to come.      *)
StepsInOrder ==
  \A s \in Slot : queue[s] # None =>
    /\ 1..(queue[s].step - 1) \subseteq outputs[queue[s].doc]
    /\ queue[s].remaining = queue[s].step..NumSteps

(* Completed is said only of documents whose save step has been through,   *)
(* whatever was duplicated, retried or reported in between.                *)
CompletedMeansSaved ==
  \A d \in Doc :
    record[d] # None /\ record[d].status = "Completed" => NumSteps \in outputs[d]

(* A message leaves its queue in the end, by its step's success or for the *)
(* dead-letter queue, however often its step fails.                        *)
QueuesDrain ==
  \A s \in Slot : queue[s] # None ~> queue[s] = None

(* Once nobody is at work on a document any more, its status is final.     *)
AtWork(d) ==
  \/ submit[d] \notin {"answered", "done"}
  \/ \E s \in Slot : queue[s] # None /\ queue[s].doc = d
  \/ \E h \in Handler : handler[h] \notin {Idle, Down} /\ handler[h].doc = d
QuietIsTerminal ==
  \A d \in sent : ~AtWork(d) => record[d].status \in {"Completed", "Error"}

(* The processed result of a completed document can be fetched.            *)
CompletedHasResult ==
  \A d \in Doc :
    record[d] # None /\ record[d].status = "Completed" => record[d].result

(* A submit that has returned has put its document on the first queue.     *)
SubmittedIsSent == \A d \in Doc : submit[d] = "done" => d \in sent
-----------------------------------------------------------------------------
(* What the proofs carry along: the facts that make the properties above   *)
(* hold step by step.                                                      *)

InHand(h) == handler[h] \notin {Idle, Down}

(* A current receipt is one of the message in hand.                        *)
HoldsOwn ==
  \A h \in Handler : InHand(h) /\ Holds(h) =>
    /\ queue[handler[h].slot].doc = handler[h].doc
    /\ queue[handler[h].slot].step = StepOf[h]

(* A handler, too, finds the output of every earlier step, and leaves its  *)
(* own before it passes the document on.                                   *)
HandlersInOrder ==
  \A h \in Handler : InHand(h) =>
    /\ 1..(StepOf[h] - 1) \subseteq outputs[handler[h].doc]
    /\ handler[h].pc \in {"received", "executing", "saving"} =>
         handler[h].remaining = StepOf[h]..NumSteps
    /\ handler[h].pc \in {"executed", "passed", "deleted"} =>
         /\ StepOf[h] \in outputs[handler[h].doc]
         /\ handler[h].remaining = (StepOf[h] + 1)..NumSteps

(* The document is kept at step k or later.                                *)
Kept(d, k) ==
  \/ \E s \in Slot : queue[s] # None /\ queue[s].doc = d /\ queue[s].step >= k
  \/ \E j \in Step : j >= k /\ <<d, j>> \in deadLetters
  \/ NumSteps \in outputs[d]

(* A message is deleted only after its document is kept further on or has  *)
(* an entry in the dead-letter queue.                                      *)
KeptBeforeDelete ==
  \A h \in Handler : InHand(h) =>
    /\ handler[h].pc = "passed" => Kept(handler[h].doc, StepOf[h] + 1)
    /\ handler[h].pc = "buried" => <<handler[h].doc, StepOf[h]>> \in deadLetters

PipelineInvariant ==
  /\ TypeOK /\ NoDocumentLost /\ StepsInOrder /\ CompletedMeansSaved
  /\ HoldsOwn /\ HandlersInOrder /\ KeptBeforeDelete
=============================================================================
