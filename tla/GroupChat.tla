----------------------------- MODULE GroupChat -----------------------------
(***************************************************************************)
(* A group chat, run_stream of GroupChatOrchestrator                       *)
(* (groupchat_orchestrator.py), with the streamed model calls of its       *)
(* agents.  The workflow of agent_framework lets the Coordinator and the   *)
(* participant it selected speak in turn and passes every update of their  *)
(* answers to the orchestrator, which puts the answers together, reads the *)
(* Coordinator's as JSON, and decides when to stop listening.              *)
(*                                                                         *)
(* An answer is streamed in Parts updates; a participant may also answer   *)
(* with a tool call alone, whose arguments come in the updates.  The       *)
(* orchestrator is used for one run.                                       *)
(***************************************************************************)
EXTENDS ModelCall, SequencesExt

CONSTANTS
  Reviewer,       (* the participants                                       *)
  Request,        (* bound: conversations an agent is called with           *)
  Size,           (* bound: lengths of messages the ResultGenerator reads   *)
  Excerpts,       (* max_messages of its first and second excerpt           *)
  Decisions,      (* bound: what the Coordinator may say                    *)
  Opinions,       (* bound: what the participants may say                   *)
  Failures,       (* bound: how attempts may fail                           *)
  MaxRounds,      (* max_rounds                                             *)
  MaxTurns,       (* bound: turns the framework gives                       *)
  MaxFailures     (* bound: attempts that fail, all of one call             *)

ASSUME ChatAssumption ==
  /\ {MaxRounds, MaxTurns, MaxFailures} \subseteq Nat \ {0}
  /\ Excerpts \in [1..2 -> Nat \ {0}] /\ Size \subseteq Nat
  /\ Request \subseteq Seq(Message)
  /\ "Coordinator" \notin Reviewer /\ None \notin Reviewer
  /\ None \notin {"loop", "rounds", "overtime", "blocked", "generated", "Coordinator"}

VARIABLES
  flow,       (* the framework and run_stream: whose turn, what was said    *)
  heard,      (* the answer being put together: whose, its updates          *)
  responses,  (* agent_responses: who, and what if it could be read         *)
  usage,      (* agent_tool_usage: the turn and attempt of each tool call   *)
  stop,       (* termination flags, last instruction, accepted decision     *)
  loop,       (* loop detection                                             *)
  result      (* what run_stream returns, None when it raises               *)

vars == <<call, flow, heard, responses, usage, stop, loop, result>>

-----------------------------------------------------------------------------
(* What a Coordinator's answer says (ManagerSelectionResponse): a selection*)
(* asks for a review, a finish selects nobody.  What a participant's says  *)
(* of SIGN-OFF, "none" where nothing; "tool" is a tool call with no text.  *)
Selection == [selected : Reviewer, instruction : {"review", None}, finish : {FALSE}]
Finish == [selected : {None}, instruction : {"complete", "blocked", "", None},
           finish : BOOLEAN]
Opinion == [signOff : {"PASS", "FAIL", "none", "tool"}]
Tool == [signOff |-> "tool"]

ASSUME SayingsAssumption ==
  Decisions \subseteq Selection \cup Finish /\ Opinions \subseteq Opinion
    /\ Failures \subseteq Failure /\ None \notin Selection

Says(agent) == IF agent = "Coordinator" THEN Decisions ELSE Opinions

Update == [says : Selection \cup Finish \cup Opinion, part : 1..Parts]
Spoken == [who : Reviewer \cup {"Coordinator"}, says : Selection \cup Finish \cup Opinion,
           id : Nat \X Nat]

(* run_stream forgets what an earlier run heard.                           *)
NothingHeard == [last |-> None, chunks |-> <<>>, conversation |-> <<>>]

Init ==
  /\ call = NoCall
  /\ flow = [at |-> "turn", speaker |-> "Coordinator", saying |-> None, turns |-> 0,
             spoken |-> <<>>, failures |-> 0]
  /\ heard = NothingHeard
  /\ responses = <<>> /\ usage = <<>>
  /\ stop = [requested |-> FALSE, instruction |-> None, forced |-> None, decision |-> None]
  /\ loop = [last |-> None, streak |-> 0, progress |-> 0, seenAt |-> 0]
  /\ result = None

-----------------------------------------------------------------------------
(* _extract_first_json_payload and model_validate: the first value of the  *)
(* text, if the text begins with a whole one.                              *)
Read(chunks) ==
  IF /\ Len(chunks) >= Parts
     /\ \A i \in 1..Parts : chunks[i] = [says |-> chunks[1].says, part |-> i]
    THEN chunks[1].says ELSE None

(* _validate_sign_offs: of a participant's sign-offs the oldest counts, for*)
(* the walk goes from the newest and later finds overwrite earlier ones.   *)
SignedOff(conversation) ==
  \A i \in DOMAIN conversation : conversation[i].who \in Reviewer =>
    \E j \in DOMAIN conversation :
      /\ conversation[j].who = conversation[i].who /\ conversation[j].says.signOff = "PASS"
      /\ \A k \in 1..(j - 1) : conversation[k].who = conversation[j].who =>
           conversation[k].says.signOff \in {"none", "tool"}

StopSignal(s) == s.finish \/ (s.selected = None /\ s.instruction \in {"complete", "blocked"})

(* Mutant: the streak goes on whatever the others did in between.          *)
RepeatsAnyhow(progress) == [loop EXCEPT !.streak = @ + 1]

(* The same selection again: a response in between begins a new streak.    *)
Repeats(progress) ==
  IF progress # loop.seenAt THEN [loop EXCEPT !.streak = 1, !.seenAt = progress]
  ELSE [loop EXCEPT !.streak = @ + 1]

Selects(s, progress) ==
  IF s.selected = None THEN loop
  ELSE IF loop.last = s THEN Repeats(progress)
  ELSE [loop EXCEPT !.last = s, !.streak = 1, !.seenAt = progress]

(* _request_forced_termination, which yields to a termination before it.   *)
Forced(f, why) ==
  IF f.requested \/ f.forced # None THEN f ELSE [f EXCEPT !.forced = why]

(* Mutant: an instruction that is absent overwrites the one before.        *)
InstructedAnew(f, s) == [f EXCEPT !.instruction = IF s.finish THEN "complete" ELSE s.instruction]

Instructed(f, s) == [f EXCEPT !.instruction = IF s.instruction = None THEN @ ELSE s.instruction]

(* A stop is accepted; a completion only when the reviewers signed off.    *)
Terminates(f, s) ==
  IF s.instruction = "complete" /\ ~SignedOff(heard.conversation) THEN f
  ELSE [f EXCEPT !.requested = TRUE, !.decision = s]

CoordinatorSaid(f, s, streak) ==
  LET looped == IF s.selected # None /\ streak >= 3 THEN Forced(Instructed(f, s), "loop")
                ELSE Instructed(f, s)
  IN  IF StopSignal(s) THEN Terminates(looped, s) ELSE looped

(* _complete_agent_response of whoever spoke last: the flags, the loop     *)
(* detection and the responses after it.                                   *)
Completed(f) ==
  LET who == heard.last
      said == Read(heard.chunks)
      progress == loop.progress + IF who = "Coordinator" THEN 0 ELSE 1
      selected == IF who = "Coordinator" /\ said # None THEN Selects(said, progress) ELSE loop
  IN  [responses |-> Append(responses, [who |-> who, says |-> said]),
       loop |-> [selected EXCEPT !.progress = progress],
       stop |-> IF who = "Coordinator" /\ said # None
                  THEN CoordinatorSaid(f, said, selected.streak) ELSE f]

Uncompleted(f) == [responses |-> responses, loop |-> loop, stop |-> f]

-----------------------------------------------------------------------------
(* The framework gives a turn: the agent is called with the conversation.  *)
TurnBegins ==
  /\ flow.at = "turn" /\ flow.turns < MaxTurns
  /\ \E request \in Request : CallBegins("stream", request)
  /\ flow' = [flow EXCEPT !.at = "speaking", !.turns = @ + 1, !.saying = None]
  /\ UNCHANGED <<heard, responses, usage, stop, loop, result>>

(* Mutant: the rounds are counted one short.                               *)
CrowdedLater(f, n) == IF n > MaxRounds THEN Forced(f, "rounds") ELSE f

Crowded(f, n) == IF n >= MaxRounds THEN Forced(f, "rounds") ELSE f

(* max_seconds, looked at when an event comes.                             *)
Clocked(f, overtime) == IF overtime THEN Forced(f, "overtime") ELSE f

Stops(f) == f.requested \/ f.forced # None

(* An update reaches run_stream: the clock, a new speaker completing the   *)
(* answer of the one before, the text or tool call, the rounds, the break. *)
Hears(says) ==
  LET update == [says |-> says, part |-> call.got + 1]
      switches == heard.last # flow.speaker
      text == IF says = Tool THEN <<>> ELSE <<update>>
      id == <<flow.turns, call.sent>>
  IN  \E overtime \in BOOLEAN :
        LET f == Clocked(stop, overtime)
            done == IF switches /\ heard.chunks # <<>> THEN Completed(f) ELSE Uncompleted(f)
            after == Crowded(done.stop, Len(done.responses))
        IN  /\ heard' = [heard EXCEPT !.last = flow.speaker,
                           !.chunks = (IF switches THEN <<>> ELSE @) \o text]
            /\ responses' = done.responses /\ loop' = done.loop /\ stop' = after
            /\ usage' = IF says = Tool /\ update.part = Parts THEN Append(usage, id) ELSE usage
            /\ flow' = [flow EXCEPT !.saying = says,
                                    !.at = IF Stops(after) THEN "ended" ELSE @]

(* What an attempt says is settled by its first update.                    *)
Speaks ==
  /\ flow.at = "speaking" /\ StreamYields
  /\ \E says \in Says(flow.speaker) :
       /\ call.got > 0 => says = flow.saying
       /\ Hears(says)
  /\ UNCHANGED result

(* The answer is in the conversation; a selection gives its participant    *)
(* the turn, and everyone else hands back to the Coordinator.              *)
TurnEnds ==
  /\ flow.at = "speaking" /\ call.got = Parts /\ StreamEnds
  /\ flow' = [flow EXCEPT !.at = "turn",
       !.speaker = IF flow.saying \in Selection THEN flow.saying.selected ELSE "Coordinator",
       !.spoken = Append(@, [who |-> flow.speaker, says |-> flow.saying,
                             id |-> <<flow.turns, call.sent>>])]
  /\ UNCHANGED <<heard, responses, usage, stop, loop, result>>

(* An attempt of the call under way fails; a call that gives up ends the   *)
(* workflow with an exception.                                             *)
CallFails ==
  /\ flow.at \in {"speaking", "generating", "again"} /\ flow.failures < MaxFailures
  /\ flow.failures > 0 => call.sent > 0
  /\ \E e \in Failures : AttemptFails(e)
  /\ flow' = [flow EXCEPT !.failures = @ + 1,
                          !.at = IF call'.at = "raised" THEN "failed" ELSE @]
  /\ UNCHANGED <<heard, responses, usage, stop, loop, result>>

(* An answer without updates; the framework cannot do without a selection. *)
SaysNothing ==
  /\ flow.at = "speaking" /\ call.got = 0 /\ StreamEnds
  /\ flow' = IF flow.speaker = "Coordinator" THEN [flow EXCEPT !.at = "failed"]
             ELSE [flow EXCEPT !.at = "turn", !.speaker = "Coordinator"]
  /\ UNCHANGED <<heard, responses, usage, stop, loop, result>>

CallPauses ==
  /\ Pause
  /\ UNCHANGED <<flow, heard, responses, usage, stop, loop, result>>

(* _backfill_tool_usage_from_conversation.                                 *)
Backfilled(ids) == usage \o SetToSeq(ids \ Range(usage))

(* WorkflowOutputEvent: the clock, and the last answer is completed, whose *)
(* flags are too late to stop anything; an event of the workflow after it  *)
(* is only looked at by the clock.                                         *)
Outputs ==
  /\ flow.at = "turn" /\ flow.spoken # <<>>
  /\ \E overtime, later \in BOOLEAN :
       LET f == Clocked(stop, overtime)
           done == IF heard.chunks # <<>> THEN Completed(f) ELSE Uncompleted(f)
       IN  /\ responses' = done.responses /\ loop' = done.loop
           /\ stop' = Clocked(done.stop, later)
  /\ heard' = [heard EXCEPT !.conversation = flow.spoken]
  /\ usage' = Backfilled({flow.spoken[i].id :
                 i \in {i \in DOMAIN flow.spoken : flow.spoken[i].says = Tool}})
  /\ flow' = [flow EXCEPT !.at = "ended"]
  /\ UNCHANGED <<call, result>>

-----------------------------------------------------------------------------
(* The stream has ended, by a break or by itself: which result there is.   *)
Blocked == stop.requested /\ stop.instruction \notin {None, "", "complete"}

(* _build_result_generator_conversation: the newest messages of the        *)
(* participants, none of them twice; how long they are after its own cuts, *)
(* all alike here, is left open.  The agent puts instructions in front.    *)
Excerpt(conversation, max) ==
  LET reviews == {i \in DOMAIN conversation : conversation[i].who \in Reviewer}
      newest == {i \in reviews : \A j \in reviews : j > i =>
                   <<conversation[j].who, conversation[j].says>>
                     # <<conversation[i].who, conversation[i].says>>}
  IN  Sub(conversation, {i \in newest : Cardinality({j \in newest : j >= i}) <= max})

GeneratorBegins(n) ==
  LET read == Excerpt(heard.conversation, Excerpts[n])
  IN  \E size \in Size :
        CallBegins("get", [i \in 1..(Len(read) + 1) |->
                             [system |-> i = 1, text |-> i, size |-> size]])

Ending(kind) == flow' = [flow EXCEPT !.at = "telling"] /\ result' = [success |-> TRUE, kind |-> kind]

(* A caller may give a result_output_format, an agent ResultGenerator,     *)
(* both or neither, which is looked at only here.                          *)
Concludes ==
  /\ flow.at = "ended"
  /\ \E format, generator \in BOOLEAN :
       \/ stop.forced # None /\ Ending(IF format THEN stop.forced ELSE None)
          /\ CallDropped
       \/ stop.forced = None /\ Blocked /\ Ending(IF format THEN "blocked" ELSE None)
          /\ CallDropped
       \/ /\ stop.forced = None /\ ~Blocked /\ ~(format /\ generator)
          /\ Ending(None) /\ CallDropped
       \/ /\ stop.forced = None /\ ~Blocked /\ format /\ generator
          /\ GeneratorBegins(1)
          /\ flow' = [flow EXCEPT !.at = "generating"] /\ UNCHANGED result
  /\ UNCHANGED <<heard, responses, usage, stop, loop>>

(* _generate_final_result: an answer that does not validate is asked for   *)
(* once more with less of the conversation.                                *)
Generates ==
  /\ flow.at \in {"generating", "again"} /\ GetReturns
  /\ \/ Ending("generated")
     \/ flow' = [flow EXCEPT !.at = IF @ = "generating" THEN "invalid" ELSE "failed"]
        /\ UNCHANGED result
  /\ UNCHANGED <<heard, responses, usage, stop, loop>>

GeneratesAgain ==
  /\ flow.at = "invalid"
  /\ GeneratorBegins(2)
  /\ flow' = [flow EXCEPT !.at = "again"]
  /\ UNCHANGED <<heard, responses, usage, stop, loop, result>>

(* on_workflow_complete is called inside the try block: when it raises, it *)
(* is called a second time, with an error result, and may raise again.     *)
Tells ==
  /\ \/ /\ flow.at = "telling"
        /\ flow' = [flow EXCEPT !.at = "over"] \/ flow' = [flow EXCEPT !.at = "failed"]
        /\ UNCHANGED result
     \/ /\ flow.at = "failed"
        /\ flow' = [flow EXCEPT !.at = "over"]
        /\ result' \in {[success |-> FALSE, kind |-> None], None}
  /\ UNCHANGED <<call, heard, responses, usage, stop, loop>>

Next ==
  \/ TurnBegins \/ Speaks \/ TurnEnds \/ CallFails \/ SaysNothing \/ CallPauses
  \/ Outputs \/ Concludes \/ Generates \/ GeneratesAgain \/ Tells

Spec == Init /\ [][Next]_vars

-----------------------------------------------------------------------------
IsSeqOf(S, s) == Len(s) \in Nat /\ \A i \in DOMAIN s : s[i] \in S

TypeOK ==
  /\ call.mode \in {"get", "stream"}
  /\ call.at \in {"idle", "ready", "flowing", "pause", "returned", "raised"}
  /\ call.attempt \in 0..(MaxRetries + 1) /\ call.round \in 1..2 /\ call.got \in 0..Parts
  /\ IsSeqOf(Message, call.full) /\ IsSeqOf(Message, call.request)
  /\ IsSeqOf(1..Parts, call.seen) /\ call.error \in Failure \cup {None}
  /\ call.delay \in RetryAfter \cup 0..MaxDelay /\ call.sent \in Nat
  /\ flow \in [at : {"turn", "speaking", "ended", "generating", "invalid", "again",
                     "telling", "failed", "over"},
               speaker : Reviewer \cup {"Coordinator"},
               saying : Selection \cup Finish \cup Opinion \cup {None},
               turns : 0..MaxTurns, spoken : Seq(Spoken), failures : 0..MaxFailures]
  /\ heard.last \in Reviewer \cup {"Coordinator", None}
  /\ IsSeqOf(Update, heard.chunks) /\ heard.conversation \in {<<>>, flow.spoken}
  /\ IsSeqOf([who : Reviewer \cup {"Coordinator"},
              says : Selection \cup Finish \cup Opinion \cup {None}], responses)
  /\ IsSeqOf(Nat \X Nat, usage)
  /\ stop \in [requested : BOOLEAN,
               instruction : {"review", "complete", "blocked", "", None},
               forced : {"loop", "rounds", "overtime", None},
               decision : Selection \cup Finish \cup {None}]
  /\ loop \in [last : Selection \cup {None}, streak : 0..3, progress : 0..MaxTurns,
               seenAt : 0..MaxTurns]
  /\ result \in [success : BOOLEAN,
                 kind : {"generated", "blocked", "loop", "rounds", "overtime", None}]
       \cup {None}

(* The last three selections and responses of participants are one and the *)
(* same selection.                                                         *)
Asked(r) == r.who # "Coordinator" \/ r.says \in Selection
Looped ==
  \E i, j, k \in DOMAIN responses :
    /\ i < j /\ j < k /\ responses[i] = responses[j] /\ responses[j] = responses[k]
    /\ responses[k].who = "Coordinator" /\ responses[k].says \in Selection
    /\ \A l \in DOMAIN responses : l > i /\ Asked(responses[l]) => l \in {j, k}

(* The chat is stopped for a loop only when the Coordinator's last three   *)
(* selections were the same and no participant's response came in between. *)
(* (groupchat_orchestrator.py:36: "repeats the same selection 3x with no   *)
(* progress from other agents".)                                           *)
LoopIsReal == stop.forced = "loop" => Looped

(* max_rounds bounds the responses of a run, the one that the workflow's   *)
(* output completes after the last look at the guard included.             *)
RoundsBounded == Len(responses) <= MaxRounds

(* When the Coordinator's accepted decision is that the work is blocked,   *)
(* or the run was forced to stop, no agent writes up a result as if it had *)
(* been completed.                                                         *)
NoResultOfBlocked ==
  (flow.at \in {"generating", "again"} \/ (result # None /\ result.kind = "generated")) =>
    stop.forced = None /\ (stop.requested => stop.decision.instruction # "blocked")

(* A tool call is counted once, whether the stream told of it, the final   *)
(* conversation, or both.                                                  *)
ToolsOnce == \A i, j \in DOMAIN usage : usage[i] = usage[j] => i = j

(* A completion is accepted only when every participant that spoke has     *)
(* signed off.  (groupchat_orchestrator.py:38: "only accepted after        *)
(* SIGN-OFF validation".)                                                  *)
SignOffsChecked ==
  stop.requested /\ stop.decision.instruction = "complete" => SignedOff(flow.spoken)

-----------------------------------------------------------------------------
(* What the proofs carry along.                                            *)
Sayings == Selection \cup Finish \cup Opinion
Agent == Reviewer \cup {"Coordinator"}

(* As much of the types as the invariants need.                            *)
FlowShape ==
  /\ flow = [at |-> flow.at, speaker |-> flow.speaker, saying |-> flow.saying,
             turns |-> flow.turns, spoken |-> flow.spoken, failures |-> flow.failures]
  /\ flow.speaker \in Agent

HeardShape ==
  /\ heard = [last |-> heard.last, chunks |-> heard.chunks, conversation |-> heard.conversation]
  /\ heard.chunks \in Seq([says : Sayings, part : Nat])
  /\ heard.chunks # <<>> => heard.last \in Agent
  /\ heard.last = "Coordinator" =>
       \A i \in DOMAIN heard.chunks : heard.chunks[i].says \in Selection \cup Finish

StopShape(f) ==
  /\ f = [requested |-> f.requested, instruction |-> f.instruction,
          forced |-> f.forced, decision |-> f.decision]
  /\ f.requested \in BOOLEAN /\ f.forced \in {"loop", "rounds", "overtime", None}

LoopShape ==
  /\ loop = [last |-> loop.last, streak |-> loop.streak, progress |-> loop.progress,
             seenAt |-> loop.seenAt]
  /\ loop.streak \in Nat /\ loop.progress \in Nat /\ loop.seenAt \in Nat
  /\ loop.seenAt <= loop.progress

Shapes ==
  /\ FlowShape /\ HeardShape /\ StopShape(stop) /\ LoopShape
  /\ responses \in Seq([who : Agent, says : Sayings \cup {None}])

(* The conversation is a list of what was said.                            *)
Talk == Seq([who : Agent, says : Sayings \cup {None}, id : Nat \X Nat])

TalkShape ==
  /\ flow.saying \in Sayings \cup {None} /\ flow.turns \in Nat
  /\ flow.spoken \in Talk /\ heard.conversation \in Talk

(* While run_stream listens nothing has stopped it, and a round is left.   *)
Listens ==
  /\ flow.at \in {"turn", "speaking"} =>
       ~stop.requested /\ stop.forced = None /\ Len(responses) < MaxRounds
  /\ flow.at \in {"turn", "speaking", "ended"} => result = None

(* A block the run has accepted is still its last instruction.             *)
KeepsBlock(f) ==
  f.requested /\ f.decision.instruction = "blocked" => f.instruction = "blocked"
BlockKept == KeepsBlock(stop)

(* A result is asked for, and made, of runs that were not stopped.         *)
ResultAllowed ==
  \/ flow.at \in {"generating", "invalid", "again"}
  \/ result # None /\ result.kind = "generated"
  => stop.forced = None /\ ~Blocked

(* The positions S hold the last selection the Coordinator made, and since *)
(* the first of them nothing else was selected and nobody else responded.  *)
Streak(S) ==
  /\ S \subseteq DOMAIN responses
  /\ \A i \in S : responses[i] = [who |-> "Coordinator", says |-> loop.last]
  /\ \A l \in DOMAIN responses : Asked(responses[l]) =>
       l \in S \/ \A i \in S : l < i

(* The streak counts those positions, as long as nobody responded since.   *)
StreakIsReal ==
  /\ loop.streak > 0 => loop.last \in Selection
  /\ loop.streak > 0 /\ loop.progress = loop.seenAt =>
       \E i \in DOMAIN responses : Streak({i})
  /\ loop.streak > 1 /\ loop.progress = loop.seenAt =>
       \E i, j \in DOMAIN responses : i < j /\ Streak({i, j})

ChatInvariant ==
  /\ Shapes /\ TalkShape /\ CallCounted /\ CallTrimmed
  /\ Listens /\ BlockKept /\ ResultAllowed /\ StreakIsReal
  /\ RoundsBounded /\ LoopIsReal /\ RequestIsSound /\ LastSurvives
=============================================================================
