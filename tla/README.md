# Claims Intelligence: verification project

TLA+ models of the program in `src/`, the TLC configurations that check them on small instances, and
TLAPS proofs of what matters most for instances of any size. Every definition is translated from the
code; where a document and the code disagree the model follows the code, and the disagreement has a
configuration of its own in which TLC finds what the document says violated.

| read this | for |
|---|---|
| `ClaimQueueWorker` | the claim workflow's queue service (`queue_service.py`) |
| `ClaimMessages` | what a claim queue promises; `ClaimQueueWorker` is shown to implement it |
| `ContentPipeline` | the document pipeline (`queue_handler_base.py`) and its two submitters |
| `ClaimWorkflow` | the run of one claim: executors, fan-out, event loop, and the claim record |
| `ClaimIntake` | a claim on its way in: the claim API, the demo's background intake, the manifest |
| `DocumentRouting` | how a document gets its schema: analyzers on a shared resource, classification, extraction |
| `ClaimJourney` | the adjuster's session: the web application's store and sections against the demo API |
| `GroupChat`, `ModelCall` | the group chat orchestrator, and the retried model calls its agents make |
| `SchemaVault` | schemas, their envelopes and the sets that list them |
| `ServiceContainer` | the dependency container with its scopes, under concurrent tasks |
| `MC*.tla`, `*.cfg` | the instances TLC checks |
| `ClaimQueueProofs`, `ContentPipelineProofs`, `ClaimWorkflowProofs` | proofs about the queue service, the document pipeline, the claim record |
| `ClaimIntakeProofs`, `ClaimJourneyProofs` | proofs about intake and journey |
| `SchemaVaultProofs`, `ServiceContainerProofs` | proofs about the vault and the dependency container |
| `AIServiceProofs` | proofs about the two components that ask AI services: the group chat with its model calls, and document routing |

Module paths below are relative to `src/src/`; *W* is `ContentProcessorWorkflow/src/`, *P* is
`ContentProcessor/src/`, *A* is `ContentProcessorAPI/app/`, *D* is `ContentProcessorClaimsDemo/src/`.

## 1. The system

A claim is a set of documents. The **API** takes the files and a manifest, and puts the claim on a
queue. The **claim workflow** takes it from there: it submits every document to the **content
pipeline** (four queues, one handler process per step and replica), polls until all are done, and runs
three agents over what was extracted. Everything that is shared is in Azure: storage queues, blobs,
and Cosmos DB records that all parts read and write without transactions.

```
 browser -> API --claim queue--> claim workflow --extract queue--> extract -> map -> evaluate -> save
              \                    |   ^ polls                       |  (one queue per step)
               \                   v   |                             v
                +-----> claim record   document record <---- status after every step, result
```

### Components

**Claim queue service** (*W* `services/queue_service.py`, `main_service.py`). State: the worker loops, and
per worker the job task, the tracked claim (`_worker_inflight`), the tracked message with its pop
receipt (`_worker_inflight_message`), the renewal task. Operations: receive, process, delete, retry with
a visibility delay, dead-letter, renew the lease, `stop_process`, `stop_worker`, `stop_service`,
interrupt, start. Hard: one asyncio loop with calls in threads that outlive the task that awaits them;
leases that lapse; receipts that rotate under a job; cancellation at every await; a crash at any time.
Correct when no message is lost, leases are exclusive, dead letters are justified, the dictionaries tell
the truth, and the queue drains. **Modelled.**

**Content pipeline handlers** (*P* `libs/pipeline/queue_handler_base.py`, its handlers, helper and entities,
`libs/process_host/`). State: the queues with their `dequeue_count`s, the document's Cosmos record, the
blobs. Operations: receive, status write, execute, pass on, delete, status write; on an exception
report, then retry or dead-letter. Hard: handlers are processes on several replicas; every call may fail
before or after it takes effect; the lease (180 s) is never renewed; each status write is a race with the
next step's. Correct when documents are not lost, steps run in order, and a status means what it says.
**Modelled.**

**Document fan-out and submission** (*W* `steps/document_process/`, `services/content_process_service.py`).
State: the claim record's `processed_documents`, document records under ids derived from claim and file
name. Operations: `submit` (with a short-circuit for redeliveries), poll with timeout, four documents at a
time under a lock. Hard: redelivery at every point, polling a status that goes back and forth, tasks that
change one record side by side. Correct when a document is submitted once in effect and the claim's list
tells its outcome. **Modelled**: submission with the pipeline, the fan-out with the workflow.

**Claim workflow** (*W* `steps/claim_processor.py`, the RAI, summary and gap executors,
`repositories/claim_processes.py`). State: the claim record (status, documents, summary, gaps, comment),
always read, changed and replaced whole. Operations: the executors of the graph, and an event loop that
writes status and reason while they run. Hard: two jobs of one claim after a lapsed lease, the API
writing the same record, updates of executor and event loop that overlap. Correct when the list of
documents is exact, results are of listed documents, and a verdict stays with its reason. **Modelled.**

**Claim intake API** (*A* `routers/claimprocessor.py`, `logics/claimbatchprocessor.py`) and the intake of the
**Claims demo API** (*A* `routers/claimsdemo.py`). State: a claim's folder of blobs with its manifest, the claim
record, the queue message. Operations: upload, start, comment, two deletions; auto-submit, which stores the
files, answers, and classifies and enqueues in a detached task. Hard: manifest and record are edited by
read, change, write in several processes; the message goes out before the record is replaced; nothing
resumes a detached task. Correct when what the manifest lists is stored, the workflow reads classified
documents, an accepted claim is found and does not stay pending. **Modelled.**

**Content understanding client** (*A* `libs/azure/content_understanding/`, the map handler of *P*). State: the
analyzers of one Azure resource, and which of them each process believes ready. Operations: create router,
image classifier and extractors on demand, analyze, poll, sweep stale analyzers, fall back to a vision
model and the file name. Hard: creation takes minutes and is shared by workers that do not know of each
other; schemas are edited meanwhile; the service may answer 403, fail, or never answer. Correct when an
envelope is of the schema its document is given, a router that counts as ready is usable, and every
document settles. **Partly modelled**: the layout call of the extract step has its submission and its end,
its deadline and its hang, without the polls between them; what an analysis holds is whether there are fields.

**Claims demo web application** (*D*) with the rest of the **Claims demo API**. State: the browser's persisted
store (current section, completed sections, cached answers), what mounted components hold, calls under
way; in the API the decision, acknowledgements and queued letter as blobs beside the claim. Operations: seven
sections with their buttons, fetches and polls, a reload. Hard: answers arrive after the adjuster has gone
elsewhere; saving an earlier section re-opens later ones; a side file is read, changed and written back.
Correct when no section is skipped, what a completed section stands for was recorded, and a letter is
queued once. **Partly modelled**: one claim per session, one adjuster; no rendering, index seeding or warm-up.

**Group chat orchestrator** (*W* `libs/agent_framework/groupchat_orchestrator.py`). State: conversation,
responses, termination flags, loop detection. Operations: one per update of a streamed answer, and the end
of the run. Hard: five reasons to stop that are set on different paths, and instructions that stay behind.
Correct when it stops for real reasons and does not present a blocked run as a result. It has no caller in
the claim steps. **Partly modelled**: spoken tokens and the shape of the final result are left out.

**LLM call retry** (*W* `libs/agent_framework/azure_openai_response_retry.py`). State: attempt, request, what a stream
has yielded. Hard: rate limits, challenges and overlong requests overlap in how they read, and share one
counter; trimming has three limits. **Partly modelled**: the copy in *P*, which no handler uses, and
`utils/http_request.py`, which no step calls, are left out.

**Schema vault API** (*A* `routers/schemavault.py`, `schemasetvault.py`, `routers/logics/`). State: schema records in
Cosmos, envelopes in blob storage, sets that list ids. Hard: four API processes, two stores, no
transaction. Correct when a record has its envelope and sets list what exists. **Modelled.**

**Dependency container** (three `application_context.py`). State: singletons, per-scope instances, and one field for
the current scope. Hard: that field is set and put back around awaits. Correct when singletons are made
once, a scope has one instance of each service, and an ended scope leaves nothing. **Partly modelled**:
the registration operators make the constant `Service` (all registering is done before the first lookup),
and `shutdown_async`, which nothing calls, is left out.

**Document API** (*A* `routers/contentprocessor.py`): **submission is modelled**; status reads are what the
properties of the record are about. Listing, update of a result and delete are not modelled.

**Not modelled**: agent builders and settings (construction of client objects), checkpoint storage and
Foundry agents (adapters without state), confidence evaluation (a pure merge of two trees: a matter for
unit tests), upload validation (one stateless check), deployment templates (read for replica counts and
timeouts).

## 2. The queue service: `ClaimQueueWorker`

### Correspondence

| model | code |
|---|---|
| `queue[m]` | the Azure message: place, `dequeue_count`, current pop receipt; `late` marks an update call still in its thread after its task was cancelled |
| `dead` | messages with an entry in the dead-letter queue |
| `workerLoop`, `workerTasks`, `isRunning` | the `_worker_loop` tasks, `_worker_tasks`, `is_running` |
| `job[w]` | the task of `_process_queue_message`: at which await it is, message, receipt at the start, attempt, outcome |
| `inflight`, `inflightMessage`, `inflightTask` | the dictionaries of these names |
| `renew[w]` | the task of `_renew_visibility_loop` |
| `kill`, `control` | the `stop_process`, or `stop_service` / `stop_worker` / interrupt, under way |
| `succeeded`, `killed`, `execFailed` | history, for the properties |

The service is one asyncio loop, so an action is the code between two awaits. A call made through
`asyncio.to_thread` is two actions, its start and its landing: it may land, be lost, or land after the
awaiting task has been cancelled (`LateCallLands`). A receipt is valid until the message is received,
updated or deleted again; running out of visibility time alone does not invalidate it. Payloads are
either one of `Claim` or `Malformed`. What a claim's workflow does is its outcome: success, an executor's
failure (which is dead-lettered at once, `queue_service.py:1057`), or another exception (retried).

Three specifications share the actions: `Spec` (workers, queue, crashes and restarts), `FullSpec` (with
the commands that cancel jobs and workers) and `FairSpec` (`FullSpec` with fairness).
`stop_process` and `stop_worker` have no caller in the repository outside its tests; they are public
operations and are modelled as such, `FullSpec` only. (TLC shows that `stop_process` may cancel the job of
another claim, since it reads the worker's task after two awaits, `queue_service.py:508`.) The branch at `queue_service.py:881-911` for a job
task that raises is not reachable, because the task catches what it raises, and has no action.

### Runs

| run | instance | what it shows |
|---|---|---|
| `queue_delivery` | 2 workers, one claim and one malformed message, 2 attempts, `Spec` | `ExclusiveLease`, `DeadLetterJustified`, `OneVerdictPerDelivery`, `TrackingMatchesJob`, and `PromiseKept`: the refinement of `ClaimMessages` |
| `queue_control` | 1 worker, 1 message, 2 attempts, `FairSpec` | `NoMessageLost`, `StoppedIsIdle` under every command, and `QueueDrains` |

Bounds: `MaxAttempts` 2 gives a retry and a last attempt; two workers give two jobs on one message, which
is what leases are about; one malformed delivery (`MalformedOnce`). Receipts are a pool: a fresh one is
any that nobody holds, and the view `ReceiptView` identifies states whose receipts differ in name only.
The pool is large enough never to run dry. One command of each kind per life of the process
(`NoKill`, `NoControl`); a restart resets it. Workers are symmetric.

### Fairness

Weak fairness of what the surroundings do by themselves: the loop runs tasks that can go on, visible
messages are handed out, leases that nobody renews lapse, a stopped container is started. Nothing is
asked of the API or the operator. `QueueDrains` also needs that faults end: `<>[][Faultless]_vars` says
that from some time on the process is not killed, calls are answered, a lease does not lapse under a job
that is renewed, and the operator gives no commands. Without it a message may meet a fault at each of its
deliveries for ever, and the code promises nothing then. Jobs may fail for ever all the same: the
dead-letter policy has to end that, which is what the run is about.

## 3. The document pipeline: `ContentPipeline`

### Correspondence

| model | code |
|---|---|
| `queue[s]` | a message on the queue of step `step`: document, `remaining_steps`, `dequeue_count`, and the handler whose receipt is current |
| `deadLetters` | entries of the dead-letter queues |
| `handler[h]` | a handler process: the call of `_connect_async` it is about to make, the message in hand |
| `record[d]` | the Cosmos record: `status`, and whether `result` is there |
| `outputs[d]` | the steps whose output is in blob storage |
| `submit[d]`, `sent` | where the submission of `d` is; history of what was sent |

A handler is an OS process and every call is to a remote service, so an action is one call, which takes
effect and returns, takes effect and raises (`Goes`), or raises without effect (`Raises`). Statuses are
abstracted to what pollers distinguish: Completed, Error, and all others. The two kinds of record write
differ and both are modelled: `update_process_status_to_cosmos` leaves the result alone, and
`update_status_to_cosmos` writes every field, so that the error path replaces a result by its default.
`process-status.json` is written and never read, and is left out; so is the peek before a receive. A
payload that does not parse raises outside the `try` block and is a `Crash`; the branch for an invalid
model (`queue_handler_base.py:237`) is unreachable since `get_object` raises instead of returning None.
The claim workflow's redelivery is `Redeliver`: the same document is submitted again, under the same id,
after or between the two calls of `submit`. A client that repeats its API request gets a new id, which
is another document.

### Runs

| run | instance | what it shows |
|---|---|---|
| `pipeline` | 2 steps, one handler each, both submitters with redeliveries, dead-letter after the 2nd delivery, `FairSpec` | `NoDocumentLost`, `StepsInOrder`, `CompletedMeansSaved`, `QueuesDrain` |
| `pipeline_status` | finding, no fault at all (`CalmSpec`) | the status write after the delete lands after the last step's Completed |

Bounds: two steps have a first, which passes on, and a last, which saves; steps between them do what the
first does. A second replica of a step adds a second delivery of a message whose lease has lapsed; the run has
those through `Expire`, with the first handler gone on or restarted, and the theorems hold for any number of
replicas. `MaxDequeue` is 5 in the code; with 1
a message is retried, then dead-lettered, and the count is capped just above. Two messages may exist at a
time (`Slot`); a sender finding no free slot waits, which only removes behaviours, so safety is checked up
to two copies of a document and proved for any number. Slots are reused, so that a stale receipt can meet
a new message in its old slot.

### Fairness

Weak fairness of each handler's next call, of restarts by the host and of lapsing leases; nothing of
submitters. `Faultless` again says that faults end: no crash, no failing remote call, no lease lapsing
under the handler that holds it. `execute` itself may fail at every attempt, and the document must then
reach a dead-letter queue. That a creation time with no fraction crashes
every status write (`queue_handler_base.py:151`) is a crash at each delivery and therefore outside what `QueuesDrain` promises.
So is an `execute` that never returns, which the layout call of the extract step may do (section 6).

## 4. The claim workflow: `ClaimWorkflow`

### Correspondence

| model | code |
|---|---|
| `record` | the `Claim_Process` record, or `None` |
| `document[f]` | the status of the document record of file `f`, which `ContentPipeline` models |
| `api` | where `start_claim_process` of the API is: it enqueues, looks up, deletes, adds |
| `job[j]` | the executor job `j` is in, the call it is about to make, `processed_files`, the copy of the record it will store, the holder of `_upsert_lock` |
| `item[j][f]` | the task `_process_one` of file `f`: its next call, its copy of the record, `_last_polled_status`, polls so far |
| `consumer[j]` | the event loop of `ClaimProcessor.run`: the update it is making, and how the run ended |
| `foreign`, `screened` | history: jobs whose record others have written since its create; files the RAI agent found safe |

A job is one call of `ClaimProcessor.run`; a second job of the same claim runs after a crash or beside the
first after a lapsed lease. The claim record is never changed in place: an update reads it into a copy,
changes a field, and replaces the whole record, so load and store are two actions and everything may
happen between them. `Replace` of a record deleted meanwhile may recreate it or not: what `sas-cosmosdb`
does then is not in the repository. `Create_Claim_Process` is three calls: look up, delete, add. Any
call may raise, before or after its effect.

The executors run as agent-framework schedules them: the start executor runs before the first event is
delivered, later ones while the event loop handles theirs. A task group waits for its tasks, which catch
their exceptions, so that a failed document does not fail the claim. A job's content is abstracted:
a summary is the set of files it was made of. Scores, file types, prompts and the agents' words are left out.
The API's comment and deletions, which also write the record, are in `ClaimIntake`; the adjuster's summary and
decision are in `ClaimJourney`.

### Properties

What a job's record says can only be stated while no other job and no API request writes it; the history
variable `foreign` has the jobs for which that is not so. Within these terms: `ListExact`, the list has the
final status of every file whose task is through; `ResultsFromListed`, summary and gaps are of files that
the same record lists as Completed; `FailureHasReason`, a run ended by an executor's failure leaves status
Failed and a comment; `VerdictStays`, no later update takes back Completed or Failed. Each could fail by an
update that overlaps another: of two tasks, of task and event loop, of the finally block and what came
before. `JobsEnd` says that a job ends although its documents may not.

### Runs

| run | instance | what it shows |
|---|---|---|
| `claim_job` | 1 job, 2 files at once, 2 polls, gate on, faults, API reset | `ListExact`, `ResultsFromListed`, `FailureHasReason`, `VerdictStays` |
| `claim_end` | 1 job, 2 files for 1 permit, 1 poll, `FairSpec` | `JobsEnd` |

Bounds: two files make two tasks that contend for lock, record and, in `claim_end`, the permit; two polls
give a round that goes on and one that times out. `Stage` is empty: a document is in its first status or
a terminal one, and moves between them in any order; a further stage is written as the first is. The
exhaustive runs have one job; two jobs are beyond TLC here, and the theorems hold for any number.
Faults are not bounded: every call may raise at any time.

### Fairness

Weak fairness of each job's next step: calls return and the loop runs what can go on. Nothing is asked of
the documents, which may stay as they are or go back and forth for ever. Faults need no assumption, since a
fault only takes a job nearer to its end.

## 5. A claim on its way in: `ClaimIntake`

| model | code |
|---|---|
| `blob`, `manifest` | the claim's folder: the file under each name, and `manifest.json` |
| `record`, `messages` | the claim record and the claim's messages on the queue |
| `call[r]` | a request under way: its operation, its next remote call, what it has read |
| `intake` | auto-submit (or the sample claim, which goes the same way) and then its detached task |
| `workflow` | the workflow's reads and writes of the same record, seen from here |

A step is one remote call, since requests run in several API processes. A claim is `"auto"` (stored, recorded,
answered, then classified and enqueued in the background) or `"batch"` (a container, uploads, a start). A request
or the task is lost when its process dies or a call fails. `NameOf` is the name `sanitize_filename` gives a file.

The workflow's replacement of the record is three calls, as the API's is: look up, delete, add. Each may fail, or the
process die, and then its message comes back or was the last attempt's (`WorkflowFails`). Nothing in the code adds the
record again after a failure between delete and add, but a later start or attempt; `past.halfway` is up from such a
failure to the next replacement. `past.undone` is up once a comment request stored a copy that makes
the claim pending again: it had read the record before the mark, or before a deletion.

Run `intake`: two requests of any kind, two files, one fault, 452,346 states (it also passes with two faults, 1,531,957
states). `ItemsHaveFiles`: what the manifest lists is stored. `WorkflowReadsClassified`: the workflow of an auto claim
never reads the placeholder schemas that are in the manifest until the task replaces them. `AcceptedIsFound`: a claim
that was answered is found by its status poll, except between the halves of a replacement and after one that was cut
short; with two starts at once, a start during the workflow, or a redelivered message this is not obvious.
`AcceptedSettles`: an accepted claim comes to stay sent or not pending (`~> []`), unless its task died or such a comment
came. Two requests make every pair of operations meet; a third adds no new pair on a record that each replaces whole.

Fairness: weak, of the detached task only. The event loop runs it as long as its process lives; clients
and the workflow owe nothing. That a dead task or a comment in the wrong place leaves a claim pending for ever is in the
statement (`intake.at = "lost"`, `past.undone`), not assumed away: `PendingEnds`, without the latter, is refuted
(`MCClaimIntakeComment.cfg`).

## 6. How a document gets its schema: `DocumentRouting`

| model | code |
|---|---|
| `cu[a]` | an analyzer of the resource: absent, of the wrong shape, being created, ready; and the resource's model defaults |
| `ensured[w]` | the `_ensured` flags of the client objects of API worker `w` |
| `version` | the schema versions registered now; an analyzer id is a hash, so it stands for versions |
| `job[d]` | a document's classification, then the extract, map and evaluate steps of the pipeline: stage, next HTTP call, category, envelope |
| `maker`, `past` | history |

Every HTTP call is a step; documents interleave between them, and a document fails over from the image
classifier to the router, to the vision model, to its name. The analyses are answered by anything, or never:
`PollLate` is the deadline, which the code looks at between calls. Calls have timeouts of their own, but for the POST and
GET of the layout analysis (*P* `libs/azure_helper/content_understanding.py:219`, `:346`): there the deadline may
never be looked at (`LayoutHangs`), and the handler waits for good. Polls that change nothing are left out. `PatchDefaults` comes before the first
analyzer of a client object and is best effort, so that an analysis may be refused for want of a deployment.
Of the pipeline this module has what an envelope does there: `ExtractDocument` takes one that has a text in
place of a layout, `MapDocument` takes its fields without asking again, and `EvaluateDocument` wants the shape
of an analysis, which nobody asked an envelope for; such a document fails its step.

Run `routing`: one worker, a scan and a photo, two versions of the form schema, one edit or fault, one
tolerated 403, 557,413 states. It begins with an image analyzer of the wrong shape, without defaults, and with
any routers of other versions. `EnvelopeMatchesSchema`: the envelope stored beside a document was produced for the
category whose schema it is given. `RouterUsable`: a router counted as ensured is on the resource with its
extractors, as long as nobody edits a schema and no creation fails. `EveryDocumentSettles`: a document comes to an end
whatever the service answers, or to the one call that may hang; `MCDocumentRoutingHang.cfg` refutes it without the
second half. The two
documents share a worker, so that one finds the analyzers the other is creating or sweeping; each kind of
document takes a different path through the stages. The code tolerates five 403 answers; one has the reset
and the limit.

Fairness: weak, of the steps that are taken whatever the service does (`Proceed`): threads run and deadlines
pass. No answer of the service is assumed; a layout call that is never answered has `LayoutHangs` for its next step.

## 7. The adjuster's session: `ClaimJourney`

| model | code |
|---|---|
| `store` | `claimStore.ts`, kept over a reload: current section, completed sections, cache |
| `page` | what the mounted components hold: the loops of `useSectionData`, shown data, side fetches, the edited text and its attestation, the chosen decision |
| `posts` | acknowledgements, save, decision and letter under way, each as far as the API has got |
| `server` | the claim record's summary and readiness, disposition, acknowledgements, queued letter |

The browser runs one event at a time, and between two events the API may serve any call that is out, so a call
and its answer are two steps, and what a call wrote may be old when its answer is shown. `Rendered` is what a
change of the store does to the components: a section that is unlocked starts to fetch, one that is locked is
cancelled.

Run `journey`: one critical finding, one decision, two texts, one fault, one visit back, 2,251,676 states (the longest
run, two and a half minutes). `JourneyInOrder`: the completed sections are the first ones, in order, whatever
is saved, re-opened or answered late. `ConfirmedIsRecorded`: what a completed section stands for was recorded by
the API, although the browser completes sections on what it is shown. `SentOnce`: the letter is queued
once, and again only after a failed call or a reload, since the page forgets and the API has no key for it.

Bounds: `MaxVisits` is how often the adjuster goes back, `MaxLetters` how many letters reach the API, `MaxFaults`
failed calls and reloads together. One acknowledgement call per finding at a time, side fetches are answered
before the next click (`Calm`), a call not served when the page is reloaded is not served later. The theorems
need no bound on findings, decisions, texts, visits or faults.

## 8. Model calls and the group chat: `ModelCall`, `GroupChat`

`ModelCall` is one call through the retrying client: `call.at` is where it is, `request` what is sent after
trimming, `attempt` and `round` what is counted, `seen` what a stream has yielded. Failures are abstracted to how
their text and status read, which is what the code goes by; they overlap (a token rate limit also looks
like an overlong request). `Trim` is `_trim_messages` as an operator: clean, drop the oldest, cut the longest.

`GroupChat` extends it with one `run_stream`: `flow` is the framework's turn and what was said, `heard` the answer
being put together, `responses` and `usage` the run's records, `stop` the termination flags, `loop` loop detection.
An action is one update, the end of a turn, or a stage of the result generator's calls. Answers are decisions
(a selection, a finish) and opinions (a sign-off, a tool call); texts are left out.

Run `chat`: one reviewer, two updates per answer, four rounds, five turns, two failures of one call, one retry;
2,007,248 states. `GivesUpLate`: a call makes no more attempts than it may, and gives up only when they are used up, when
a shorter request was tried, or when nothing it does may help. For a stream whose shortened request is too long
again the comments want it to stop there ("one-shot retry") and the code goes on with the same request; the property
allows both, and with the run's one retry both are the same. `MCGroupChatOneShot.cfg` has two retries and shows
the difference. `RequestIsSound`: a request is the caller's messages in their order, all leading system messages
among them, without gaps behind the oldest kept one other than repeated texts, and it fits unless only system
messages are left. `LastSurvives`: the last message, the one to be answered, is in the request, cut or whole. Two cases are
excepted, and the run reaches both: it repeats an earlier text, for the code keeps the first copy, or it does not fit
behind the system messages; then the code sends those alone, and there is nothing to answer.
`LoopIsReal`, `RoundsBounded`, `NoResultOfBlocked`: the run is forced to end for three selections without a response
between them, keeps within its rounds, and a run that is blocked or forced to end is not written up as a result.
Four rounds allow a selection three times with responses in between. Lengths are small numbers chosen so that
each of the three limits of trimming is met on one side and on the other.

## 9. The schema vault: `SchemaVault`

`schemas` are the ids with a record, `files` those with an envelope, `sets` what each set lists; `call[p]` is the
request of API process `p`: handlers have no await, so a process serves one at a time, and a step is one remote
call. Run `vault`: three processes, two schemas, one set, one fault (a call that fails or a process that
dies, anywhere), 551,828 states. `RegisteredHasFile`: whoever finds a record finds its envelope, for envelopes are
written before and removed after it. `OrphanNeedsFault`: a vault at rest that met no fault has one envelope per
record. `ListedWasRegistered`, `AnswerIsRecent`: sets and listings name only what was registered, and a listing
nothing that was gone before it was asked for. `DeletedStaysDeleted`: an edit that read a set before it was deleted
does not bring it back (the update has no upsert).

## 10. The dependency container: `ServiceContainer`

`instances` are the singletons, `entries` what each scope holds, `current` the one field `_current_scope_id`; `task[t]`
has the scopes a task has open and the await it is in. Tasks of one event loop interleave at awaits only: the
making of an async service and the closing of one. Run `container`: two tasks, of which one opens scopes, a
service of each kind but transient, three scopes, four instances, one fault, 1,997,164 states. `SameWithinScope`: a scope
holds one instance of a service around nested scopes and requests that fail; `EndedLeavesNothing`: a scope that ended
has nothing in the container. That a singleton that is made synchronously is made once is not stated: check and store
have no await between them. For the async ones it fails, see section 12. Only one task opens scopes because that is how the repository uses the
container (the extract step); with two, the field would be overwritten by the other and the last two
properties fail. They are stated up to a close that failed (`past.spoiled`): the code then leaves entry and
field as they are.

## 11. What is proved

TLAPS checks these for every value of the constants, under the named assumptions of the modules
(`QueueAssumption`, `PipelineAssumption`, `WorkflowAssumption`, `IntakeAssumption`, `JourneyAssumption`, `VaultAssumption`,
`RoutingAssumption`, `CallAssumption`, `ChatAssumption`, `SayingsAssumption`, `ContainerAssumption`, `NoneAssumption`: limits
that count are naturals or positive, `None` is none of the values, each message names a claim or is malformed,
each handler serves a step). Messages, workers, receipts, documents, handlers, slots, steps, files, jobs,
schemas, reviewers, services, scopes and tasks may be any number. Every invariant and action property that a
passing run checks is proved; liveness is not.

**Queue service.** `TypeCorrect`, under `FullSpec`. The safety properties do not hold inductively: that a
deleted message has a verdict needs that a job deletes its own message and only after its verdict is on
record. The strengthening has these parts, each about one kind of state:

- `BusyWithJob`: a worker awaits a job exactly when it has one;
- `HandlesOfJob`, `HandlesOfClaim`: handles in the job, the dictionary and the renewal task are of the job's
  own message and claim;
- `VerdictFirst`, `ReasonFirst`: the verdict, and the reason for a dead letter, come before the call that
  acts on them;
- `OnlySent`: only sent messages are worked on;
- `OneHolder`: the current handle of a message is known to one worker. Fresh receipts make this inductive,
  and `ExclusiveLease` follows;
- `NothingLeft` / `CleanArrival`: no handle is left tracked when a malformed message arrives, for the
  dead-letter path of a malformed payload would act on it.

The last part is why there are two sets of theorems. Under `Spec` nothing is left tracked
(`WorkingInvariant`). A command that cancels a job while its `finally` block awaits the renewal task can
leave a handle behind, so under `FullSpec` the theorems (`...UnderControl`, `ControlledInvariant`) assume that
every message parses; with a malformed message `NoMessageLost` can fail there. From the invariants:
`NothingIsLost`, `LeasesAreExclusive`, `DeadLettersAreJustified`, `TrackingIsTrue`, and `PromiseIsKept`, the
refinement of `ClaimMessages`. The proofs go through *flows*: lemmas that say, once for all actions, what a
step may do to a job, to its tracking and to a message, so that each invariant is proved from a handful of
cases instead of from all actions.

Two properties have strengthenings of their own. `OneDeliveryOneVerdict` rests on `FirstDelivery`: a message with
one delivery is worked on by one job, which is past the call its verdict asks for. It assumes
`MaxAttempts > 1` (the code has 3): counts are capped at `MaxAttempts`, and with 1 the model no longer tells a first
delivery from a second. `StoppedServiceIsIdle` holds with malformed messages and every command alike: `Stops` follows
`stop_service` through its order, and `RenewsAtWork` says that only jobs at work have a renewal task.

**Document pipeline.** `PipelineTypeCorrect` and `PipelineInvariantHolds`. The invariant adds to the properties:
`HoldsOwn` (a current receipt is of the message in hand, although slots are reused), `HandlersInOrder` (a
handler finds the output of earlier steps and leaves its own before it passes the document on) and
`KeptBeforeDelete` (before a handler deletes, the document is kept at a later step, saved, or
dead-lettered). Its heart is the lemma `KeptStays`: a document kept at step *k* stays kept at *k* or later,
because only a handler that has passed it on or buried it can delete its message, and what it has passed
on has a later step. From it: `DocumentsAreKept`, `StepsRunInOrder`, `CompletedIsSaved`.

**Claim workflow.** `WorkflowInvariantHolds`, and from it `WorkflowTypeCorrect`, `ListIsExact`,
`ResultsAreListed`, `FailuresHaveReasons` and `VerdictsStay`. The invariant has two layers. `Coherent(j)` is about
job `j` alone: up to the end of the fan-out its event loop has nothing to do (`FanOutFirst`), who is about to
store has read a record and, among the tasks, has the lock (`StoresWhatIsRead`), who polls has time left
(`PollsLeft`), and the update under way fits how the run ended (`WantsItsVerdict`). `Own(j)` ties `j` to the record
as long as nobody else writes it: the record is there and exact (`OwnRecord`), every copy that will be
stored agrees with it in the documents, and entirely once the verdict is written (`OwnCopies`), and a final
status means that the executors are done and only comment and time are left to write (`OwnVerdict`). The
properties alone are not inductive: an exact list can be spoiled by an old copy. A step of one job leaves
`Coherent` of all others alone, and either leaves the record alone or makes it foreign to them
(`OthersSame`, `OthersSeeWrites`), so that each action is looked at for its own job only. What this shows of the
code: `_upsert_lock` is needed, and enough, among the tasks of a job; the updates of event loop and
executors are not locked, and are harmless for these properties only because the event loop waits until
the fan-out is over and because documents do not change afterwards.

**Intake.** `IntakeInv` is the type invariant with `Purpose` (a request is where its operation has it, and has read
what that place needs). On it rest `AcceptedClaimsAreFound` (`FoundInv`: a claim that was answered
and is not there is being replaced, by a request or the workflow that adds a record next, or its last
replacement was cut short; `Purpose` says that only a start is at those places), `ClassifiedBeforeRead` (`ClassifiedInv`: an auto claim
that no client started has a message, or a workflow, only when its intake is past the enqueue, and from the
labels on the manifest is final or gone) and `ItemsAreStored` (`FilesInv`: a file a request is about to list is stored, and stays stored until a
deletion). `ItemsAreStored` assumes `OwnName`: different files have different names. Without it
the property fails, see section 12.

**Journey.** `JourneyInv` has four parts: `Shape` (the fields records have), `OrderInv`
(`JourneyInOrder`, and that a save or a decision is only under way while the sections before it are completed, so
that its late answer completes no section out of order), `RecordedInv` (what is shown as
acknowledged, saved, decided or sent was once recorded, in the page, in answers under way and in the API) and
`LettersInv` (a letter counted without a fault is still known to page or call). From them `SectionsInOrder`,
`ConfirmedWasRecorded` and `LetterSentOnce`.

**Schema vault.** `TypeCorrect`, `RecordsHaveFiles`, `RestIsConsistent`, `ListsAreRegistered`, `AnswersAreRecent`,
`NoSetReturns`: all five properties of the run, for any number of processes, schemas, sets and faults. The
strengthening says of each request under way what the vault must hold for its next call: ids are given out once,
an envelope that is being uploaded has no record yet, and one that is being purged has none any more.

**Dependency container.** `ContainerTypes` holds for any tasks. `ScopesHoldOneInstance` and
`ScopesLeaveNothing` assume `OneScopedTask`, since that is how the repository uses scopes and since with two
such tasks they fail. `ContainerInvariant` says that the task's frames are a stack of all scopes that have not
ended, each remembering the one below (`Stacked`); that the one field holds the innermost of them, or the
one a request goes through (`InPlace`), which is what nested scopes and requests that raise could spoil; that
a scope has no instance of what is being made for it (`RoomForMade`); and that what a scope being closed still
has open is on the list of what is to be closed (`ClosesAll`). All but the types are given up after a failed close.

**Document routing.** `RoutingInvariantHolds`: the types together with `FitsStage` (each job asks the analyzer its
stage is about, and a sweep's list is disjoint from what it must keep), `FitsEnvelope` (an envelope is there only
while the document waits for its fields, and is of the job's category), `OneVersion`, `DefaultsSet` and
`RouterWhole`: the router of the registered schemas is never on the resource without its extractors, and stays
there once a worker counts on it. `RouterUsable` alone is not inductive: a router is put only when its
extractors exist, and what exists must then survive the sweeps of other jobs, which is so because all of them
keep the same set while no schema is edited. From it `EnvelopesMatchSchemas` and `RoutersAreUsable`, for any
number of documents, workers, categories and versions.

**Group chat and model calls.** `ChatInvariantHolds`. For `GivesUpLate` a call is *counted* (`CallCounted`): attempts
and sendings go together over both rounds. For `RequestIsSound` (`CallTrimmed`): what is sent is what the caller
gave, or `Trim` of it, and `TrimIsSound` is about the operator alone. Its two halves follow the code: `CleanedOrder`
says that cleaning keeps the first message of each text, in order (`Ranks` and `Places` number what a filter keeps),
and `DropShape`, `TrimShape` that of the cleaned ones the heads and a newest part of the rest stay, until it fits.
`RequestFollows` reads that as a request of the caller's messages, from which `RequestsAreSound` and `LastMessageSurvives`
follow; the latter because the newest of the rest is dropped last, and cut before that. They rest on lemmas
about sums, subsequences and minima (`CharsOfOne`, `SubOrder`, `RankOnto`, `MinOfNaturals`). `LoopsAreReal` needs the history behind a number: `StreakIsReal` names the positions
among the responses that the streak counts, as long as nobody responded since. `RoundsAreBounded` and
`BlockedHasNoResult` follow from `Listens` (nothing has stopped a run that still listens, and it has a round
left), `BlockKept` and `ResultAllowed`.

**Type correctness** is proved for the queue service, the pipeline, the workflow, the intake, the vault, the
container and routing. The runs therefore leave `TypeOK` out; for `GroupChat` and `ClaimJourney`, whose invariants
carry the types they need (`Shapes`, `Shape`), `TypeOK` was checked with TLC on the instances of their runs
(add it to the INVARIANTS to repeat this).

**Only model-checked**: liveness under fairness (`QueueDrains`, `QueuesDrain`, `JobsEnd`, `AcceptedSettles`,
`EveryDocumentSettles`), which the provers cannot do, and the finding, which is a counterexample. The inductive
invariants were checked by TLC on the instances of the runs before they were proved. What a recursive
definition computes cannot be proved by the library's induction theorems here; no theorem needs it, for sums over
messages are compared, never computed, except that of a list of one.

## 12. Where the code does something else

The finding `pipeline_status` is a run: without any fault, the status write a handler makes after its delete may
land after the last step's Completed, and a finished document stays in processing.

Further configurations each state what a comment or a reader of the code expects, and TLC finds the
property violated by a behaviour of the code. They are kept to exhibit these behaviours;
what the repository says is quoted where it says something.

| configuration | property | behaviour |
|---|---|---|
| `MCClaimQueueRenewRace` | `FirstDeliveryDeletes` | cancelling the renewal task does not stop its thread, which rotates the receipt under the delete of a finished job |
| `MCClaimQueueInterrupt` | `InterruptStopsWorkers` | a worker that awaits a job takes an interrupt for the job's own cancellation and goes on |
| `MCContentPipelineResult` | `CompletedHasResult` | the error path of one delivery erases the result another has saved |
| `MCContentPipelineSubmit` | `SubmittedIsSent` | a crash between record and message makes every redelivery skip the document |
| `MCClaimWorkflowGate` | `UsedIsScreened` | what the safety gate could not fetch is used unscreened by the next executor |
| `MCClaimIntakeNames` | `ItemsHaveFiles` | two files of one name, which *D* `pages/LandingPage.tsx:252` admits when their sizes differ: the second replaces the first, and both are listed |
| `MCClaimIntakeComment` | `PendingEnds` | a comment read before the claim was marked failed and stored after it makes the claim pending for ever, with nothing sent |
| `MCClaimJourneyLetter` | `LetterMatchesDecision` | a letter drafted for one decision is sent after another was recorded; *A* `routers/claimsdemo.py:2337` wants that "the letter actually reflects what the adjuster decided" |
| `MCDocumentRoutingSweep` | `OnlyOwnSwept` | the API sweeps extractors the map handler has created; `analyzer_gc.py:48`: "we never touch analyzers we did not create" |
| `MCDocumentRoutingHang` | `EveryDocumentEnds` | the layout call has no timeout, and the deadline is looked at between calls; *P* `content_understanding.py:320`: "The maximum number of seconds to wait for the operation to complete" |
| `MCGroupChatOneShot` | `OneShotTrim` | a stream repeats the same shortened request until its attempts are used up; `azure_openai_response_retry.py:880`: "One-shot retry for context-length failures" |
| `MCGroupChatSignOff` | `SignOffsChecked` | sign-offs are looked for in a conversation that is filled after the run; `groupchat_orchestrator.py:38`: "only accepted after SIGN-OFF validation" |
| `MCGroupChatStream` | `YieldedOnce` | a stream that fails after its first updates is begun anew; `azure_openai_response_retry.py:823`: "only retries failures before the first yielded update" |
| `MCServiceContainerOnce` | `AsyncSingletonMadeOnce` | two tasks that ask at once make two; `application_context.py:640`: "Async singleton services are created once" |

## 13. What is left

1. Two jobs of one claim against the comment that the lock prevents lost updates on the shared record
   (`document_process_executor.py:222`): one file and two jobs would refute it.
2. Two adjusters, or two claims in one session, in `ClaimJourney`; what happens to calls that are served after a
   reload.
3. Two workers in the run of `DocumentRouting`: the module has any number, the run one.
4. A composition of the queue service's promise (`ClaimMessages`) with `ClaimWorkflow`, so that jobs begin by
   deliveries, and an abstract specification of a claim's outcome that the composition implements.
5. Theorems: type correctness of `ClaimJourney` and `GroupChat`; the composition of item 4.
6. Listing, update and delete of the Document API.

## 14. Running

```
tlc -workers 2 -config MCClaimQueueDelivery.cfg MCClaimQueueWorker.tla
tlc -workers 2 -config MCContentPipeline.cfg MCContentPipeline.tla
tlc -workers 2 -config MCClaimWorkflowJob.cfg MCClaimWorkflow.tla
tlc -workers 2 -config MCClaimJourney.cfg MCClaimJourney.tla
tlapm ContentPipelineProofs.tla
```

`PROJECT.json` lists the runs with their properties, for every property a mutation of the code under which
it fails, the lines each definition models, the hazards with the properties that cover them, and the
theorems.
