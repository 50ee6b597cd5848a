-------------------------- MODULE DocumentRouting --------------------------
(***************************************************************************)
(* How an uploaded document gets its schema.  API workers classify it with *)
(* Content Understanding analyzers they create on demand on one shared     *)
(* resource (auto_router.py, image_classifier.py), fall back to a vision   *)
(* model and to the file name (claimsdemo.py), and sweep analyzers they    *)
(* think stale (analyzer_gc.py).  The pipeline's handlers later read the   *)
(* text (extract_handler.py), extract the fields (map_handler.py), each    *)
(* from the router's envelope or with an analyzer of its own on the same   *)
(* resource (content_understanding.py, cu_field_extractor.py), and score   *)
(* them (evaluate_handler.py).                                             *)
(*                                                                         *)
(* Every HTTP call is one step; documents, API workers and pipelines       *)
(* interleave between calls.  An analyzer id is a hash of its payload, so  *)
(* an id stands for the schema versions it was built from.                 *)
(***************************************************************************)
EXTENDS Naturals, FiniteSets

CONSTANTS
  Worker,        (* API worker processes, each with its own singletons      *)
  Doc,           (* uploaded documents, one per claim                       *)
  Image,         (* those whose MIME type is image/...                      *)
  Class,         (* categories known to _CATEGORY_DEFINITIONS               *)
  DamagePhoto,   (* the one the document router must not hold               *)
  Registered,    (* categories whose schema is in the schema set            *)
  Other,         (* the catch-all category of every classifier              *)
  NoEnvelope,    (* what a job without an envelope has                      *)
  Versions,      (* the combinations of schema versions, class by class     *)
  MaxForbidden,  (* consecutive 403 answers tolerated while polling (5)     *)
  MaxTroubles    (* bound: schema edits and calls that fail, together       *)

RouterClass == Registered \ {DamagePhoto}

ASSUME RoutingAssumption ==
  /\ Image \subseteq Doc /\ Registered \subseteq Class
  /\ DamagePhoto \in Class /\ RouterClass # {} /\ Other \notin Class
  /\ MaxForbidden \in Nat /\ MaxTroubles \in Nat
  /\ Versions # {}

VARIABLES
  cu,        (* the Content Understanding resource: analyzers and defaults  *)
  maker,     (* history: who created each analyzer there is (a default when *)
             (* there is none)                                              *)
  version,   (* the schema versions registered now                          *)
  ensured,   (* per worker: analyzers whose client object has _ensured set  *)
  job,       (* per document: its classification, then its pipeline steps   *)
  past       (* history: edits, faults, a creation that failed, and the     *)
             (* analyzers of others that were swept                         *)

routing == <<cu, maker, version, ensured, job, past>>

ImageAnalyzer    == <<"image">>
Extractor(c, vs) == <<"extract", c, vs[c]>>
Router(vs)       == <<"router", [c \in RouterClass |-> vs[c]]>>
Nested(vs)       == {Extractor(c, vs) : c \in RouterClass}

Routers  == {Router(vs) : vs \in Versions}
Analyzer == {ImageAnalyzer} \cup Routers
              \cup {Extractor(c, vs) : c \in Class, vs \in Versions}

(* The aliases of the models that every analyzer of the program names; they*)
(* are set once for the resource.                                          *)
Defaults == <<"defaults">>

Step  == {"idle", "patch", "get", "drop", "put", "wait", "list", "sweep",
          "post", "poll", "vision", "name", "classified", "laid",
          "extracted", "scored", "failed", "hung"}
Stage == {"image", "router", "nested", "layout", "extract"}
Envelope == [category : Class, fields : BOOLEAN]

(* The schemas as they are registered first; ids are hashes, so that which *)
(* these are makes no difference.                                          *)
FirstVersion == CHOOSE vs \in Versions : TRUE

(* A fresh upload; the worker is the one that accepted it.                 *)
Upload(w) == [worker |-> w, stage |-> "image", step |-> "idle",
              forbidden |-> 0, vs |-> FirstVersion,
              todo |-> {}, target |-> ImageAnalyzer, category |-> Other,
              envelope |-> NoEnvelope]

(* Content Understanding starts with an image analyzer of the wrong shape  *)
(* (a missing one takes the same path but for its DELETE), without defaults*)
(* and perhaps with routers of other schema versions.                      *)
RoutingInit ==
  /\ version = FirstVersion
  /\ \E old \in SUBSET Routers :
       cu = [a \in Analyzer \cup {Defaults} |->
               IF a = ImageAnalyzer THEN "wrong"
               ELSE IF a \in old \ {Router(version)} THEN "ready"
               ELSE "absent"]
  /\ maker = [a \in Analyzer |-> "api"]
  /\ ensured = [w \in Worker |-> {}]
  /\ job \in [Doc -> {Upload(w) : w \in Worker}]
  /\ past = [edits |-> 0, faults |-> 0, broken |-> FALSE, foreign |-> {}]

Exists(a) == cu[a] # "absent"
At(d, stages, step) == job[d].stage \in stages /\ job[d].step = step
Goto(d, j) == job' = [job EXCEPT ![d] = j]
CanFail == past.edits + past.faults < MaxTroubles
Fault   == [past EXCEPT !.faults = @ + 1]

-----------------------------------------------------------------------------
(* Where a job goes next.  Entering a stage skips the calls that ensure    *)
(* its analyzer when this worker's client object already did; the first of *)
(* them sets the defaults, for the two analyzers the API itself asks.      *)

Enter(j, stage, a) ==
  [j EXCEPT !.stage = stage, !.target = a, !.forbidden = 0,
            !.step = IF a \in ensured[j.worker] THEN "post"
                     ELSE IF stage \in {"image", "router"} THEN "patch" ELSE "get"]

(* The router's nested extractors are ensured one after the other, then    *)
(* the router itself is PUT.                                               *)
NextNested(j) ==
  IF j.todo = {}
  THEN [j EXCEPT !.stage = "router", !.target = Router(j.vs), !.step = "put"]
  ELSE LET a == CHOOSE b \in j.todo : TRUE
       IN Enter([j EXCEPT !.todo = @ \ {a}], "nested", a)

(* The target is taken to be there.                                        *)
Ready(j) == IF j.stage = "nested" THEN NextNested(j) ELSE [j EXCEPT !.step = "post"]

(* A result is returned: the locals of the call are gone.                  *)
Returns(j, step) ==
  [Upload(j.worker) EXCEPT !.step = step, !.category = j.category,
                           !.envelope = j.envelope]

(* The document is done, saved or not: nothing of it is read again.        *)
Done(j, step) == [Upload(j.worker) EXCEPT !.step = step]

Finished(j) == Returns(j, IF j.category \in Registered THEN "classified" ELSE "name")

(* An exception ends the stage.  A failed image classifier leaves the      *)
(* document to the router; a failed router leaves an image as it was and a *)
(* typed document to the vision model; a handler fails its step.           *)
Raised(d, j) ==
  CASE j.stage \in {"layout", "extract"} -> Done(j, "failed")
    [] j.stage = "image" -> Enter([j EXCEPT !.category = Other], "router", Router(j.vs))
    [] j.stage \in {"router", "nested"} /\ d \in Image -> Finished(j)
    [] OTHER -> Returns([j EXCEPT !.category = Other], "vision")

(* The client object that is marked is the worker's, shared by its jobs.   *)
MarkEnsured(j) ==
  ensured' = IF j.stage \in {"image", "router"}
             THEN [ensured EXCEPT ![j.worker] = @ \cup {j.target}] ELSE ensured

-----------------------------------------------------------------------------
(* claimsdemo.py: _build_auto_router reads the schemas registered now and  *)
(* takes the worker's cached router of that id or a new one; then          *)
(* _classify_bytes sends images to the image classifier first.             *)
BuildRouter(d) ==
  /\ job[d].step = "idle"
  /\ LET j == [job[d] EXCEPT !.vs = version]
     IN Goto(d, IF d \in Image THEN Enter(j, "image", ImageAnalyzer)
                ELSE Enter(j, "router", Router(version)))
  /\ UNCHANGED <<cu, maker, version, ensured, past>>

(* PATCH of the defaults, before anything else is ensured: best effort.    *)
PatchDefaults(d) ==
  /\ job[d].step = "patch"
  /\ Goto(d, [job[d] EXCEPT !.step = "get"])
  /\ \/ cu' = [cu EXCEPT ![Defaults] = "ready"] /\ UNCHANGED past
     \/ CanFail /\ past' = Fault /\ UNCHANGED cu
  /\ UNCHANGED <<maker, version, ensured>>

(* GET: 200 ends the ensuring, except that an image analyzer of the wrong  *)
(* shape is deleted first.  A router that is missing first needs its       *)
(* nested extractors.                                                      *)
GetAnalyzer(d) ==
  /\ job[d].step = "get"
  /\ LET j == job[d]
         found == Exists(j.target)
     IN IF found /\ cu[j.target] = "wrong"
        THEN Goto(d, [j EXCEPT !.step = "drop"]) /\ UNCHANGED ensured
        ELSE IF found THEN Goto(d, Ready(j)) /\ MarkEnsured(j)
        ELSE /\ Goto(d, IF j.stage = "router"
                        THEN NextNested([j EXCEPT !.todo = Nested(j.vs)])
                        ELSE [j EXCEPT !.step = "put"])
             /\ UNCHANGED ensured
  /\ UNCHANGED <<cu, maker, version, past>>

(* A GET that cannot be sent is taken for a miss.                          *)
GetRaises(d) ==
  /\ job[d].step = "get" /\ CanFail
  /\ LET j == job[d]
     IN Goto(d, IF j.stage = "router"
                THEN NextNested([j EXCEPT !.todo = Nested(j.vs)])
                ELSE [j EXCEPT !.step = "put"])
  /\ past' = Fault
  /\ UNCHANGED <<cu, maker, version, ensured>>

(* The DELETE of the wrong shape; whether it works is not looked at.       *)
DropWrongShape(d) ==
  /\ job[d].step = "drop"
  /\ Goto(d, [job[d] EXCEPT !.step = "put"])
  /\ \/ cu' = [cu EXCEPT ![job[d].target] = "absent"] /\ UNCHANGED past
     \/ CanFail /\ past' = Fault /\ UNCHANGED cu
  /\ UNCHANGED <<maker, version, ensured>>

(* PUT: 409 when the id exists, which counts as ensured though another     *)
(* creation may still run; refused when a router names a missing extractor;*)
(* otherwise the service starts to create.                                 *)
Refused(j) == j.stage = "router" /\ \E a \in Nested(j.vs) : ~Exists(a)

PutAnalyzer(d) ==
  /\ job[d].step = "put"
  /\ LET j == job[d]
     IN IF Exists(j.target)
        THEN Goto(d, Ready(j)) /\ MarkEnsured(j) /\ UNCHANGED <<cu, maker>>
        ELSE IF Refused(j)
        THEN Goto(d, Raised(d, j)) /\ UNCHANGED <<cu, maker, ensured>>
        ELSE /\ cu' = [cu EXCEPT ![j.target] = "creating"]
             /\ maker' = [maker EXCEPT ![j.target] =
                            IF j.stage = "extract" THEN "pipeline" ELSE "api"]
             /\ Goto(d, [j EXCEPT !.step = "wait"])
             /\ UNCHANGED ensured
  /\ UNCHANGED <<version, past>>

(* The service ends a creation; a failed one leaves no analyzer.           *)
CreationEnds(a) ==
  /\ cu[a] = "creating"
  /\ \/ cu' = [cu EXCEPT ![a] = "ready"] /\ UNCHANGED past
     \/ /\ CanFail /\ past' = [Fault EXCEPT !.broken = TRUE]
        /\ cu' = [cu EXCEPT ![a] = "absent"]
  /\ UNCHANGED <<maker, version, ensured, job>>

(* _wait_for_operation: polls until the creation ended, or raises when it  *)
(* failed (or the analyzer was deleted meanwhile) or runs past the deadline*)
WaitSucceeds(d) ==
  /\ job[d].step = "wait" /\ cu[job[d].target] = "ready"
  /\ LET j == job[d]
     IN Goto(d, IF j.stage = "router" THEN [j EXCEPT !.step = "list"] ELSE Ready(j))
        /\ MarkEnsured(j)
  /\ UNCHANGED <<cu, maker, version, past>>

WaitRaises(d) ==
  /\ job[d].step = "wait"
  /\ cu[job[d].target] \in {"absent", "creating"}
  /\ Goto(d, Raised(d, job[d]))
  /\ UNCHANGED <<cu, maker, version, ensured, past>>

(* A PUT or POST that fails or answers 5xx raises.  A poll that fails has  *)
(* the outcome of one that runs past its deadline.                         *)
RequestFails(d) ==
  /\ job[d].step \in {"put", "post"} /\ CanFail
  /\ Goto(d, Raised(d, job[d])) /\ past' = Fault
  /\ UNCHANGED <<cu, maker, version, ensured>>

-----------------------------------------------------------------------------
(* analyzer_gc.py, called after a router was created: lists what there is  *)
(* and deletes every router and extractor that is not this router's own.   *)
(* Only the image classifier's id has its prefix: its sweep finds nothing. *)

(* Mutant: the nested extractors are forgotten.                            *)
KeepRouterOnly(j) == {Router(j.vs)}

Keep(j) == {Router(j.vs)} \cup Nested(j.vs)
Stale(j) == {a \in Analyzer \ {ImageAnalyzer} : Exists(a)} \ Keep(j)

ListAnalyzers(d) ==
  /\ job[d].step = "list"
  /\ \/ /\ Goto(d, [job[d] EXCEPT !.step = "sweep", !.todo = Stale(job[d])])
        /\ UNCHANGED past
     \/ /\ CanFail /\ past' = Fault
        /\ Goto(d, [job[d] EXCEPT !.step = "post"])
  /\ UNCHANGED <<cu, maker, version, ensured>>

SweepOne(d) ==
  /\ job[d].step = "sweep"
  /\ \E a \in job[d].todo :
       /\ Goto(d, [job[d] EXCEPT !.todo = @ \ {a}])
       /\ \/ /\ cu' = [cu EXCEPT ![a] = "absent"]
             /\ maker' = [maker EXCEPT ![a] = "api"]
             /\ past' = IF maker[a] = "pipeline" /\ Exists(a)
                        THEN [past EXCEPT !.foreign = @ \cup {a}] ELSE past
          \/ CanFail /\ past' = Fault /\ UNCHANGED <<cu, maker>>
  /\ UNCHANGED <<version, ensured>>

SweepEnds(d) ==
  /\ job[d].step = "sweep" /\ job[d].todo = {}
  /\ Goto(d, [job[d] EXCEPT !.step = "post"])
  /\ UNCHANGED <<cu, maker, version, ensured, past>>

-----------------------------------------------------------------------------
(* :analyzeBinary answers 4xx for an analyzer that is missing or still     *)
(* being created, and while its model has no deployment; otherwise the     *)
(* operation is polled.  The layout analyzer is the service's own and has  *)
(* no model.                                                               *)
Analyzes(j) ==
  \/ j.stage = "layout"
  \/ cu[j.target] \in {"ready", "wrong"} /\ cu[Defaults] = "ready"

PostAnalyze(d) ==
  /\ job[d].step = "post"
  /\ LET j == job[d]
     IN Goto(d, IF Analyzes(j)
                THEN [j EXCEPT !.step = "poll", !.forbidden = 0]
                ELSE Raised(d, j))
  /\ UNCHANGED <<cu, maker, version, ensured, past>>

(* Mutant: a poll that answers 403 or running never looks at the clock.    *)
PollLateNever(d) == FALSE /\ UNCHANGED routing

(* The analysis still runs, or answers 403, when the deadline has passed;  *)
(* the clock is looked at between two calls.                               *)
PollLate(d) ==
  /\ job[d].step = "poll"
  /\ Goto(d, Raised(d, job[d]))
  /\ UNCHANGED <<cu, maker, version, ensured, past>>

Tolerated(n) == n < MaxForbidden

(* The service's occasional 403 is polled again, up to five times in a row.*)
(* The handlers' polls and those of a creation have no such tolerance.     *)
PollForbidden(d) ==
  /\ At(d, {"image", "router"}, "poll")
  /\ LET j == job[d]
     IN Goto(d, IF Tolerated(j.forbidden)
                THEN [j EXCEPT !.forbidden = @ + 1] ELSE Raised(d, j))
  /\ UNCHANGED <<cu, maker, version, ensured, past>>

PollRunning(d) ==
  /\ job[d].step = "poll" /\ job[d].forbidden > 0
  /\ Goto(d, [job[d] EXCEPT !.forbidden = 0])
  /\ UNCHANGED <<cu, maker, version, ensured, past>>

(* The image classifier answers; anything but a damage photo is sent to the*)
(* document router as well.                                                *)
ImageAnswers(d) ==
  /\ At(d, {"image"}, "poll")
  /\ \E c \in Class \cup {Other} :
       /\ cu[ImageAnalyzer] = "wrong" => c = Other
       /\ LET j == [job[d] EXCEPT !.category = c]
          IN Goto(d, IF c = DamagePhoto THEN Finished(j)
                     ELSE Enter(j, "router", Router(j.vs)))
  /\ UNCHANGED <<cu, maker, version, ensured, past>>

(* Mutant: the envelope is kept whatever category it carries.              *)
KeepsAnyEnvelope(d, c) == TRUE

(* What the document's category and envelope become once the router says c.*)
TakesRouter(d, c) == c \in RouterClass

(* The router answers with a category, and fields when the extractor it    *)
(* routed to was there; or with an envelope of no known shape.             *)
RouterAnswers(d) ==
  /\ At(d, {"router"}, "poll")
  /\ \E c \in RouterClass \cup {Other}, fields \in BOOLEAN :
       LET j == job[d]
           taken == [j EXCEPT !.category = c, !.envelope =
                        [category |-> c, fields |-> fields]]
       IN /\ fields => c # Other /\ cu[Extractor(c, j.vs)] = "ready"
          /\ Goto(d, IF TakesRouter(d, c) THEN Finished(taken)
                     ELSE IF d \in Image THEN Finished(j)
                     ELSE Returns([j EXCEPT !.category = c], "vision"))
  /\ UNCHANGED <<cu, maker, version, ensured, past>>

RouterAnswersNothing(d) ==
  /\ At(d, {"router"}, "poll")
  /\ Goto(d, Raised(d, job[d]))
  /\ UNCHANGED <<cu, maker, version, ensured, past>>

-----------------------------------------------------------------------------
(* foundry_vision_classifier.py never raises: a failure is "other", and a  *)
(* category it was not offered too.                                        *)
AskVision(d) ==
  /\ job[d].step = "vision"
  /\ \E c \in Class \cup {Other} :
       Goto(d, Finished(IF c \in Registered THEN [job[d] EXCEPT !.category = c]
                        ELSE job[d]))
  /\ UNCHANGED <<cu, maker, version, ensured, past>>

(* The last resort: a keyword of the file name, or an image's MIME type.   *)
FilenameFallback(d) ==
  /\ job[d].step = "name"
  /\ \E c \in Class \cup {Other} :
       /\ d \in Image => c # Other
       /\ Goto(d, [job[d] EXCEPT !.step = "classified",
                     !.category = IF c \in Registered THEN c ELSE @])
  /\ UNCHANGED <<cu, maker, version, ensured, past>>

(* The schema of the manifest item: the category's, or the default one.    *)
DefaultClass == CHOOSE c \in Registered : TRUE
SchemaOf(j)  == IF j.category \in Registered THEN j.category ELSE DefaultClass

-----------------------------------------------------------------------------
(* The result of the map step, written for the next one; an answer without *)
(* a content to walk raises.                                               *)
MapEnds(j, fields) ==
  Done(j, IF fields THEN "extracted" ELSE "failed")

(* ExtractHandler: an image is skipped.  A document whose envelope is there*)
(* and has a text gets the envelope as it is, whatever else its shape is;  *)
(* any other, and one whose envelope cannot be fetched, goes to the layout *)
(* analyzer.                                                               *)
LayOut(j) == [j EXCEPT !.stage = "layout", !.step = "post"]

ExtractDocument(d) ==
  /\ job[d].step = "classified"
  /\ LET j == job[d]
         laid == [j EXCEPT !.step = "laid"]
     IN \/ d \in Image /\ Goto(d, laid) /\ UNCHANGED past
        \/ /\ d \notin Image
           /\ \E text \in BOOLEAN :
                Goto(d, IF text /\ j.envelope # NoEnvelope THEN laid ELSE LayOut(j))
           /\ UNCHANGED past
        \/ /\ d \notin Image /\ j.envelope # NoEnvelope /\ CanFail
           /\ Goto(d, LayOut(j)) /\ past' = Fault
  /\ UNCHANGED <<cu, maker, version, ensured>>

(* The layout analysis failed, is of a shape AnalyzedResult refuses, or is *)
(* taken.                                                                  *)
LayoutAnswers(d) ==
  /\ At(d, {"layout"}, "poll")
  /\ \/ Goto(d, Done(job[d], "failed"))
     \/ Goto(d, Returns(job[d], "laid"))
  /\ UNCHANGED <<cu, maker, version, ensured, past>>

(* The POST and the GET of the layout analysis have no timeout: one that is *)
(* never answered never comes to the look at the clock.  Every other call  *)
(* of a document to Content Understanding or to the vision model has one.  *)
LayoutHangs(d) ==
  /\ At(d, {"layout"}, "post") \/ At(d, {"layout"}, "poll")
  /\ Goto(d, Done(job[d], "hung"))
  /\ UNCHANGED <<cu, maker, version, ensured, past>>

(* MapHandler: fields of the envelope's sidecar when there is one, else its*)
(* own analyzer, built from the schema as it is now.  The sidecar is stored*)
(* and fetched with best effort.                                           *)
MapDocument(d) ==
  /\ job[d].step = "laid"
  /\ LET j == job[d]
         own == Enter([j EXCEPT !.category = Other, !.envelope = NoEnvelope],
                      "extract", Extractor(SchemaOf(j), version))
     IN \/ /\ j.envelope # NoEnvelope
           /\ Goto(d, MapEnds(j, j.envelope.fields))
           /\ UNCHANGED past
        \/ /\ j.envelope = NoEnvelope
           /\ Goto(d, own) /\ UNCHANGED past
        \/ /\ j.envelope # NoEnvelope /\ CanFail
           /\ Goto(d, own) /\ past' = Fault
  /\ UNCHANGED <<cu, maker, version, ensured>>

ExtractorAnswers(d) ==
  /\ At(d, {"extract"}, "poll")
  /\ \E fields \in BOOLEAN : Goto(d, MapEnds(job[d], fields))
  /\ UNCHANGED <<cu, maker, version, ensured, past>>

(* EvaluateHandler: an image has the confidence of its fields alone; any   *)
(* other document needs what the extract step left to be an AnalyzedResult *)
(* with a first content, which that step asked neither of an envelope nor, *)
(* but for the type, of a layout.                                          *)
EvaluateDocument(d) ==
  /\ job[d].step = "extracted"
  /\ \/ Goto(d, Done(job[d], "scored")) /\ UNCHANGED past
     \/ d \notin Image /\ Goto(d, Done(job[d], "failed")) /\ UNCHANGED past
     \/ CanFail /\ Goto(d, Done(job[d], "failed")) /\ past' = Fault
  /\ UNCHANGED <<cu, maker, version, ensured>>

(* The Schema Vault: a schema is edited, back to an older text too.        *)
EditSchema(c) ==
  /\ CanFail
  /\ \E vs \in Versions \ {version} :
       /\ \A b \in Class \ {c} : vs[b] = version[b]
       /\ version' = vs
  /\ past' = [past EXCEPT !.edits = @ + 1]
  /\ UNCHANGED <<cu, maker, ensured, job>>

-----------------------------------------------------------------------------
(* Steps of a job that need no answer of an analysis, and so are taken.    *)
Proceed(d) ==
  \/ PatchDefaults(d) \/ GetAnalyzer(d) \/ DropWrongShape(d) \/ PutAnalyzer(d)
  \/ WaitSucceeds(d) \/ WaitRaises(d) \/ PollLate(d)
  \/ ListAnalyzers(d) \/ SweepOne(d) \/ SweepEnds(d)
  \/ PostAnalyze(d) \/ AskVision(d) \/ FilenameFallback(d)
  \/ MapDocument(d) \/ EvaluateDocument(d)

Answers(d) ==
  \/ GetRaises(d) \/ RequestFails(d) \/ PollForbidden(d) \/ PollRunning(d)
  \/ ImageAnswers(d) \/ RouterAnswers(d) \/ RouterAnswersNothing(d)
  \/ LayoutAnswers(d) \/ LayoutHangs(d) \/ ExtractorAnswers(d)

RoutingNext ==
  \/ \E d \in Doc : BuildRouter(d) \/ ExtractDocument(d) \/ Proceed(d) \/ Answers(d)
  \/ \E a \in Analyzer : CreationEnds(a)
  \/ \E c \in Registered : EditSchema(c)

(* Threads run, deadlines pass, the pipeline's queues deliver; Content     *)
(* Understanding need not answer: the calls that would wait for it for ever*)
(* end as LayoutHangs.                                                     *)
Fairness == \A d \in Doc : WF_routing(Proceed(d))

RoutingSpec == RoutingInit /\ [][RoutingNext]_routing /\ Fairness

-----------------------------------------------------------------------------
Job == [worker : Worker, stage : Stage, step : Step, forbidden : 0..MaxForbidden,
        vs : Versions, todo : SUBSET Analyzer, target : Analyzer,
        category : Class \cup {Other}, envelope : Envelope \cup {NoEnvelope}]

RoutingTypeOK ==
  /\ cu \in [Analyzer \cup {Defaults} -> {"absent", "wrong", "creating", "ready"}]
  /\ maker \in [Analyzer -> {"api", "pipeline"}]
  /\ version \in Versions
  /\ ensured \in [Worker -> SUBSET Analyzer]
  /\ job \in [Doc -> Job]
  /\ past \in [edits : 0..MaxTroubles, faults : 0..MaxTroubles,
             broken : BOOLEAN, foreign : SUBSET Analyzer]

(* The envelope stored beside a document was produced for the very category*)
(* whose schema the manifest gives it: MapHandler walks it without asking  *)
(* Content Understanding again, so another category's fields would be saved*)
(* under this schema.                                                      *)
EnvelopeMatchesSchema ==
  \A d \in Doc : job[d].envelope # NoEnvelope =>
    job[d].envelope.category = job[d].category /\ job[d].category \in Registered

(* While no schema is edited and no creation fails, a router some worker   *)
(* counts as ensured stays on the resource together with its extractors,   *)
(* and when no call failed with the defaults its models need: what one     *)
(* worker sweeps never takes away what another one, or a later document,   *)
(* relies on.                                                              *)
RouterUsable ==
  past.edits = 0 /\ ~past.broken =>
    \A w \in Worker, r \in Routers : r \in ensured[w] /\ r = Router(version) =>
      /\ Exists(r) /\ \A a \in Nested(version) : Exists(a)
      /\ past.faults = 0 => Exists(Defaults)

(* Each document that entered classification, or the pipeline, leaves it,  *)
(* whatever the service answers and even when it never does, but for the   *)
(* layout analysis of the extract step, which may hang for good.           *)
EveryDocumentSettles ==
  \A d \in Doc : job[d].step \notin {"idle", "classified"}
                   ~> job[d].step \in {"classified", "scored", "failed", "hung"}

(* The same without the exception: "timeout_seconds: The maximum number of *)
(* seconds to wait for the operation to complete" (content_understanding.py*)
(* of the pipeline, poll_result), which a call that hangs refutes.         *)
EveryDocumentEnds ==
  \A d \in Doc : job[d].step \notin {"idle", "classified"}
                   ~> job[d].step \in {"classified", "scored", "failed"}

(* A sweep deletes no analyzer another component created (analyzer_gc.py:  *)
(* "we never touch analyzers we did not create").                          *)
OnlyOwnSwept == past.foreign = {}

-----------------------------------------------------------------------------
(* What the proofs carry along: the facts that make the first two hold step*)
(* by step.                                                                *)

(* The analyzer a job asks for is the one its stage is about, only a router*)
(* that was created is swept for, and the sweep leaves it and its own.     *)
FitsStage(j) ==
  /\ j.stage = "image" => j.target = ImageAnalyzer
  /\ j.stage = "router" => j.target = Router(j.vs)
  /\ j.stage = "nested" => j.target \in Nested(j.vs) /\ j.todo \subseteq Nested(j.vs)
  /\ j.stage = "extract" => \E c \in Class, vs \in Versions : j.target = Extractor(c, vs)
  /\ j.stage = "layout" => j.step \in {"post", "poll"}
  /\ j.step \in {"list", "sweep"} => j.stage = "router"
  /\ j.step = "sweep" => j.todo \cap Keep(j) = {}
  /\ j.step = "drop" => j.target = ImageAnalyzer

(* An envelope is there only once the document is classified, and until    *)
(* its fields are read.                                                    *)
FitsEnvelope(j) ==
  j.envelope # NoEnvelope =>
    /\ j.envelope.category = j.category /\ j.category \in Registered
    /\ j.step \in {"classified", "laid"} \/ j.stage = "layout"

(* The API makes sure of an analyzer after it has set the defaults.        *)
PastDefaults(j) ==
  j.stage \in {"image", "router", "nested"} /\ j.step \in {"get", "drop", "put", "wait"}

WrongShapeIsImage == \A a \in Analyzer : cu[a] = "wrong" => a = ImageAnalyzer

OneVersion ==
  past.edits = 0 => version = FirstVersion /\ \A d \in Doc : job[d].vs = FirstVersion

DefaultsSet ==
  (/\ past.faults = 0
   /\ \/ \E w \in Worker : ensured[w] # {}
      \/ \E d \in Doc : PastDefaults(job[d])) => cu[Defaults] = "ready"

(* The router of the schemas is never there without its extractors.        *)
RouterWhole ==
  past.edits = 0 /\ ~past.broken =>
    /\ Exists(Router(version)) => \A a \in Nested(version) : Exists(a)
    /\ \A w \in Worker : Router(version) \in ensured[w] => Exists(Router(version))

RoutingInvariant ==
  /\ RoutingTypeOK /\ WrongShapeIsImage /\ OneVersion /\ DefaultsSet /\ RouterWhole
  /\ \A d \in Doc : FitsStage(job[d]) /\ FitsEnvelope(job[d])
=============================================================================
