-------------------------- MODULE AIServiceProofs --------------------------
(***************************************************************************)
(* The safety theorems of the two components that ask Azure's AI services: *)
(* the group chat with its model calls (GroupChat, ModelCall), and document*)
(* routing with Content Understanding (DocumentRouting).  The two share no *)
(* state and their specifications are separate; so are the two halves here.*)
(*                                                                         *)
(* Of the chat: calls give up late, a request is sound and keeps the last  *)
(* message, rounds are bounded, a loop is a loop, and no result is made of *)
(* a run that was stopped.  Of routing: the types, envelopes that match    *)
(* their schemas, and routers that stay usable.                            *)
(***************************************************************************)
EXTENDS GroupChat, DocumentRouting, FiniteSetTheorems, SequenceTheorems, TLAPS

(***************************************************************************)
(* Part one: the group chat.                                               *)
(***************************************************************************)

(* The model call.                                                         *)

(* The call of the next state, given whole.                                *)
Becomes(mode, at, attempt, round, full, request, got, seen, error, delay, sent) ==
  call' = [mode |-> mode, at |-> at, attempt |-> attempt, round |-> round, full |-> full,
           request |-> request, got |-> got, seen |-> seen, error |-> error,
           delay |-> delay, sent |-> sent]

Counted(mode, at, attempt, round, got, error, sent) ==
  /\ mode \in {"get", "stream"} /\ round \in {1, 2}
  /\ attempt \in Nat /\ sent \in Nat /\ got \in Nat
  /\ mode = "stream" => round = 1
  /\ at = "flowing" => mode = "stream"
  /\ at \in {"ready", "flowing", "pause"} =>
       /\ 1 <= attempt /\ attempt <= MaxRetries + 1 /\ attempt <= sent + 1
       /\ sent < attempt + (IF round = 2 THEN MaxRetries + 1 ELSE 0)
  /\ sent <= (IF mode = "get" THEN 2 ELSE 1) * (MaxRetries + 1)
  /\ at = "raised" =>
       /\ IsTransient(error) => sent > MaxRetries
       /\ LooksLikeContextLength(error) =>
            IF mode = "get" THEN round = 2 ELSE sent > MaxRetries

LEMMA CallBecomes ==
  ASSUME NEW mode, NEW at, NEW attempt, NEW round, NEW full, NEW request, NEW got, NEW seen,
         NEW error, NEW delay, NEW sent,
         Becomes(mode, at, attempt, round, full, request, got, seen, error, delay, sent),
         Counted(mode, at, attempt, round, got, error, sent)
  PROVE  CallCounted'
<1>1. /\ call'.mode = mode /\ call'.at = at /\ call'.attempt = attempt
      /\ call'.round = round /\ call'.full = full /\ call'.request = request
      /\ call'.got = got /\ call'.seen = seen /\ call'.error = error
      /\ call'.delay = delay /\ call'.sent = sent
  BY DEF Becomes
<1>2. GivesUpLate'
  BY <1>1 DEF Counted, GivesUpLate, IsTransient, LooksLikeRateLimit, LooksLikeChallenge,
     LooksLikeContextLength
<1> QED BY <1>1, <1>2 DEF Counted, CallCounted, Becomes

(* A call that is not under way made no attempt, or ended.                 *)
LEMMA CallDroppedCounted == CallDropped => CallCounted'
BY CallAssumption DEF CallDropped, NoCall, CallCounted, GivesUpLate

LEMMA CallBeginsCounted ==
  ASSUME NEW mode \in {"get", "stream"}, NEW messages, CallBegins(mode, messages)
  PROVE  CallCounted'
<1>1. PICK request : call' = [NoCall EXCEPT !.mode = mode, !.at = "ready", !.attempt = 1,
                                            !.full = messages, !.request = request]
  BY DEF CallBegins
<1>2. Becomes(mode, "ready", 1, 1, messages, request, 0, <<>>, None, 0, 0)
  BY <1>1 DEF NoCall, Becomes
<1>3. Counted(mode, "ready", 1, 1, 0, None, 0)
  BY CallAssumption DEF Counted
<1> QED BY <1>2, <1>3, CallBecomes

(* Another attempt of the call, or its end.                                *)
LEMMA AttemptFailsCounted ==
  ASSUME CallCounted, NEW e, AttemptFails(e)
  PROVE  CallCounted'
<1> DEFINE mode == call.mode
           attempt == call.attempt
           round == call.round
           sent == call.sent
<1>0. /\ call.at \in {"ready", "flowing"} /\ mode \in {"get", "stream"}
      /\ attempt \in Nat /\ sent \in Nat /\ round \in {1, 2} /\ call.got \in Nat
      /\ mode = "stream" => round = 1
      /\ 1 <= attempt /\ attempt <= MaxRetries + 1 /\ attempt <= sent + 1
      /\ sent < attempt + (IF round = 2 THEN MaxRetries + 1 ELSE 0)
  BY DEF AttemptFails, CallCounted
<1>1. call = [mode |-> mode, at |-> call.at, attempt |-> attempt, round |-> round,
              full |-> call.full, request |-> call.request, got |-> call.got,
              seen |-> call.seen, error |-> call.error, delay |-> call.delay,
              sent |-> sent]
  BY DEF CallCounted
<1>2. MaxRetries \in Nat
  BY CallAssumption
<1>3. LastAttempt <=> attempt = MaxRetries + 1
  BY DEF LastAttempt
<1>4. ASSUME NEW request, ~LastAttempt, mode = "get" \/ round = 1,
             \/ call' = [Again EXCEPT !.at = "pause", !.error = e]
             \/ call' = [Again EXCEPT !.at = "ready", !.error = e, !.request = request]
      PROVE  CallCounted'
  <2>1. \/ Becomes(mode, "pause", attempt + 1, round, call.full, call.request, 0,
                   call.seen, e, call.delay, sent + 1)
        \/ Becomes(mode, "ready", attempt + 1, round, call.full, request, 0,
                   call.seen, e, call.delay, sent + 1)
    BY <1>1, <1>4 DEF Again, Becomes
  <2> HIDE DEF mode, attempt, round, sent
  <2>2. ASSUME NEW at \in {"pause", "ready"}
        PROVE  Counted(mode, at, attempt + 1, round, 0, e, sent + 1)
    BY <1>0, <1>2, <1>3, <1>4 DEF Counted
  <2> QED BY <2>1, <2>2, CallBecomes
<1>5. ASSUME NEW request, mode = "get", round = 1,
             call' = [Again EXCEPT !.at = "ready", !.error = e, !.round = 2,
                                   !.attempt = 1, !.request = request]
      PROVE  CallCounted'
  <2>1. Becomes(mode, "ready", 1, 2, call.full, request, 0, call.seen, e, call.delay,
                sent + 1)
    BY <1>1, <1>5 DEF Again, Becomes
  <2> HIDE DEF mode, attempt, round, sent
  <2>2. Counted(mode, "ready", 1, 2, 0, e, sent + 1)
    BY <1>0, <1>2, <1>5 DEF Counted
  <2> QED BY <2>1, <2>2, CallBecomes
<1>6. ASSUME call' = [call EXCEPT !.at = "raised", !.error = e, !.sent = @ + 1],
             IsTransient(e) => LastAttempt,
             LooksLikeContextLength(e) => IF mode = "get" THEN round = 2 ELSE LastAttempt
      PROVE  CallCounted'
  <2>1. Becomes(mode, "raised", attempt, round, call.full, call.request, call.got,
                call.seen, e, call.delay, sent + 1)
    BY <1>1, <1>6 DEF Becomes
  <2> HIDE DEF mode, attempt, round, sent
  <2>2. Counted(mode, "raised", attempt, round, call.got, e, sent + 1)
    BY <1>0, <1>2, <1>3, <1>6 DEF Counted
  <2> QED BY <2>1, <2>2, CallBecomes
<1>7. CASE mode = "get"
  <2>1. CASE IsTransient(e) /\ ~LastAttempt
    BY <1>4, <1>7, <2>1 DEF AttemptFails, GetFails
  <2>2. CASE ~(IsTransient(e) /\ ~LastAttempt) /\ round = 1 /\ LooksLikeContextLength(e)
    BY <1>5, <1>7, <2>2 DEF AttemptFails, GetFails
  <2>3. CASE /\ ~(IsTransient(e) /\ ~LastAttempt)
             /\ ~(round = 1 /\ LooksLikeContextLength(e))
    BY <1>0, <1>6, <1>7, <2>3 DEF AttemptFails, GetFails
  <2> QED BY <2>1, <2>2, <2>3
<1>8. CASE mode = "stream"
  <2>1. CASE LastAttempt \/ ~(LooksLikeContextLength(e) \/ IsTransient(e))
    BY <1>6, <1>8, <2>1 DEF AttemptFails, StreamFails
  <2>2. CASE ~LastAttempt /\ (LooksLikeContextLength(e) \/ IsTransient(e))
    BY <1>0, <1>4, <1>8, <2>2 DEF AttemptFails, StreamFails
  <2> QED BY <2>1, <2>2
<1> QED BY <1>0, <1>7, <1>8

LEMMA CallGoesOnCounted ==
  ASSUME CallCounted, Pause \/ GetReturns \/ StreamYields \/ StreamEnds
  PROVE  CallCounted'
<1> DEFINE mode == call.mode
           attempt == call.attempt
           round == call.round
           sent == call.sent
<1>0. /\ call.at \in {"ready", "flowing", "pause"} /\ mode \in {"get", "stream"}
      /\ attempt \in Nat /\ sent \in Nat /\ round \in {1, 2} /\ call.got \in Nat
      /\ mode = "stream" => round = 1
      /\ 1 <= attempt /\ attempt <= MaxRetries + 1 /\ attempt <= sent + 1
      /\ sent < attempt + (IF round = 2 THEN MaxRetries + 1 ELSE 0)
      /\ MaxRetries \in Nat
  BY CallAssumption DEF Pause, GetReturns, StreamYields, StreamEnds, CallCounted
<1>1. call = [mode |-> mode, at |-> call.at, attempt |-> attempt, round |-> round,
              full |-> call.full, request |-> call.request, got |-> call.got,
              seen |-> call.seen, error |-> call.error, delay |-> call.delay,
              sent |-> sent]
  BY DEF CallCounted
<1>2. CASE Pause
  <2>1. PICK d : Becomes(mode, "ready", attempt, round, call.full, call.request, call.got,
                         call.seen, call.error, d, sent)
    BY <1>1, <1>2 DEF Pause, Becomes
  <2> HIDE DEF mode, attempt, round, sent
  <2>2. Counted(mode, "ready", attempt, round, call.got, call.error, sent)
    BY <1>0 DEF Counted
  <2> QED BY <2>1, <2>2, CallBecomes
<1>3. CASE StreamYields
  <2>1. PICK seen : Becomes(mode, "flowing", attempt, round, call.full, call.request,
                            call.got + 1, seen, call.error, call.delay, sent)
    BY <1>1, <1>3 DEF StreamYields, Becomes
  <2>2. mode = "stream"
    BY <1>3 DEF StreamYields
  <2> HIDE DEF mode, attempt, round, sent
  <2>3. Counted(mode, "flowing", attempt, round, call.got + 1, call.error, sent)
    BY <1>0, <2>2 DEF Counted
  <2> QED BY <2>1, <2>3, CallBecomes
<1>4. CASE GetReturns \/ StreamEnds
  <2>1. Becomes(mode, "returned", attempt, round, call.full, call.request, call.got,
                call.seen, call.error, call.delay, sent + 1)
    BY <1>1, <1>4 DEF GetReturns, StreamEnds, Becomes
  <2> HIDE DEF mode, attempt, round, sent
  <2>2. Counted(mode, "returned", attempt, round, call.got, call.error, sent + 1)
    BY <1>0 DEF Counted
  <2> QED BY <2>1, <2>2, CallBecomes
<1> QED BY <1>2, <1>3, <1>4

LEMMA CallStep == CallCounted /\ [Next]_vars => CallCounted'
<1> SUFFICES ASSUME CallCounted, [Next]_vars PROVE CallCounted'
  OBVIOUS
<1>1. CASE UNCHANGED call
  BY <1>1 DEF CallCounted, GivesUpLate
<1>2. CASE TurnBegins
  BY <1>2, CallBeginsCounted DEF TurnBegins
<1>3. CASE Speaks \/ TurnEnds \/ SaysNothing \/ CallPauses \/ Generates
  BY <1>3, CallGoesOnCounted DEF Speaks, TurnEnds, SaysNothing, CallPauses, Generates
<1>4. CASE CallFails
  BY <1>4, AttemptFailsCounted DEF CallFails
<1>5. ASSUME NEW n, GeneratorBegins(n)
      PROVE  CallCounted'
  BY <1>5, CallBeginsCounted DEF GeneratorBegins
<1>6. CASE Concludes
  BY <1>5, <1>6, CallDroppedCounted DEF Concludes
<1>7. CASE GeneratesAgain
  BY <1>5, <1>7 DEF GeneratesAgain
<1> QED BY <1>1, <1>2, <1>3, <1>4, <1>6, <1>7 DEF Next, Outputs, Tells, vars

-----------------------------------------------------------------------------
(* What is read of an answer, and what it does to the flags.               *)

LEMMA ReadType ==
  ASSUME HeardShape, heard.chunks # <<>>
  PROVE  /\ Read(heard.chunks) \in Sayings \cup {None}
         /\ heard.last = "Coordinator" => Read(heard.chunks) \in Selection \cup Finish \cup {None}
<1> DEFINE T == [says : Sayings, part : Nat]
<1>1. heard.chunks \in Seq(T)
  BY DEF HeardShape
<1> HIDE DEF T
<1>2. 1 \in DOMAIN heard.chunks /\ heard.chunks[1] \in T
  BY <1>1
<1> QED BY <1>2 DEF Read, HeardShape, T

(* Being forced to stop comes first, and once.                             *)
LEMMA ForcedShape ==
  ASSUME NEW f, StopShape(f), NEW why \in {"loop", "rounds", "overtime"}
  PROVE  /\ StopShape(Forced(f, why))
         /\ Forced(f, why).requested = f.requested
         /\ Forced(f, why).instruction = f.instruction
         /\ Forced(f, why).decision = f.decision
         /\ Forced(f, why).forced \in {f.forced, why}
         /\ Stops(f) => Forced(f, why) = f
         /\ Stops(Forced(f, why))
<1>1. CASE Stops(f)
  BY <1>1 DEF Forced, Stops, StopShape
<1>2. CASE ~Stops(f)
  <2>1. Forced(f, why) = [requested |-> f.requested, instruction |-> f.instruction,
                          forced |-> why, decision |-> f.decision]
    BY <1>2 DEF Forced, Stops, StopShape
  <2> QED BY <1>2, <2>1, ChatAssumption DEF Stops, StopShape
<1> QED BY <1>1, <1>2

LEMMA InstructedShape ==
  ASSUME NEW f, StopShape(f), NEW s
  PROVE  /\ StopShape(Instructed(f, s))
         /\ Instructed(f, s).requested = f.requested /\ Instructed(f, s).forced = f.forced
         /\ s.instruction # None => Instructed(f, s).instruction = s.instruction
<1>1. Instructed(f, s) =
        [requested |-> f.requested,
         instruction |-> IF s.instruction = None THEN f.instruction ELSE s.instruction,
         forced |-> f.forced, decision |-> f.decision]
  BY DEF Instructed, StopShape
<1> QED BY <1>1 DEF StopShape

(* A run that listens accepts a block with its instruction, and is forced  *)
(* to stop for a loop by the third selection of a streak.                  *)
LEMMA SaidShape ==
  ASSUME NEW f, StopShape(f), ~f.requested, NEW s, NEW streak
  PROVE  LET g == CoordinatorSaid(f, s, streak)
         IN  /\ StopShape(g) /\ KeepsBlock(g)
             /\ g.forced = "loop" =>
                  f.forced = "loop" \/ (s.selected # None /\ streak >= 3)
<1> DEFINE i == Instructed(f, s)
           looped == IF s.selected # None /\ streak >= 3 THEN Forced(i, "loop") ELSE i
           g == CoordinatorSaid(f, s, streak)
<1>1. /\ StopShape(i) /\ ~i.requested /\ i.forced = f.forced
      /\ s.instruction # None => i.instruction = s.instruction
  BY InstructedShape
<1>2. /\ StopShape(looped) /\ ~looped.requested /\ looped.instruction = i.instruction
      /\ looped.forced = "loop" => f.forced = "loop" \/ (s.selected # None /\ streak >= 3)
  BY <1>1, ForcedShape
<1>3. g = looped \/ g = [looped EXCEPT !.requested = TRUE, !.decision = s]
  BY DEF CoordinatorSaid, Terminates
<1> HIDE DEF i, looped, g
<1>4. CASE g = looped
  BY <1>2, <1>4 DEF KeepsBlock, g
<1>5. CASE g = [looped EXCEPT !.requested = TRUE, !.decision = s]
  <2>1. g = [requested |-> TRUE, instruction |-> looped.instruction,
             forced |-> looped.forced, decision |-> s]
    BY <1>2, <1>5 DEF StopShape
  <2>2. StopShape(g) /\ g.forced = looped.forced
    BY <1>2, <2>1 DEF StopShape
  <2>3. KeepsBlock(g)
    BY <1>1, <1>2, <2>1, ChatAssumption DEF KeepsBlock
  <2> QED BY <1>2, <2>2, <2>3 DEF g
<1> QED BY <1>3, <1>4, <1>5

-----------------------------------------------------------------------------
(* The loop detection.                                                     *)

(* A response completed is one more response.                              *)
LEMMA OneMore ==
  ASSUME Shapes, heard.chunks # <<>>, NEW f, responses' = Completed(f).responses
  PROVE  /\ responses' \in Seq([who : Agent, says : Sayings \cup {None}])
         /\ Len(responses') = Len(responses) + 1
         /\ DOMAIN responses = 1..Len(responses) /\ Len(responses) \in Nat
         /\ DOMAIN responses' = 1..(Len(responses) + 1)
         /\ \A l \in DOMAIN responses : responses'[l] = responses[l]
         /\ responses'[Len(responses) + 1] =
              [who |-> heard.last, says |-> Read(heard.chunks)]
<1>1. responses' = Append(responses, [who |-> heard.last, says |-> Read(heard.chunks)])
  BY DEF Completed
<1>2. [who |-> heard.last, says |-> Read(heard.chunks)] \in [who : Agent, says : Sayings \cup {None}]
  BY ReadType DEF Shapes, HeardShape
<1> QED BY <1>1, <1>2 DEF Shapes

(* How it changes what the loop detection knows.                           *)
LEMMA LoopGoesOn ==
  ASSUME Shapes, heard.chunks # <<>>, NEW f, loop' = Completed(f).loop
  PROVE  /\ LoopShape'
         /\ heard.last # "Coordinator" =>
              /\ loop'.last = loop.last /\ loop'.streak = loop.streak
              /\ loop'.progress # loop'.seenAt
         /\ heard.last = "Coordinator" /\ Read(heard.chunks) \notin Selection => loop' = loop
         /\ heard.last = "Coordinator" /\ Read(heard.chunks) \in Selection =>
              /\ loop'.last = Read(heard.chunks) /\ loop'.progress = loop'.seenAt
              /\ \/ loop'.streak = 1
                 \/ /\ loop.last = Read(heard.chunks) /\ loop.progress = loop.seenAt
                    /\ loop'.streak = loop.streak + 1
<1> DEFINE said == Read(heard.chunks)
           l == [last |-> loop.last, streak |-> loop.streak, progress |-> loop.progress,
                 seenAt |-> loop.seenAt]
<1>0. /\ loop = l /\ loop.streak \in Nat /\ loop.progress \in Nat /\ loop.seenAt \in Nat
      /\ loop.seenAt <= loop.progress
  BY DEF Shapes, LoopShape
<1>1. CASE heard.last # "Coordinator"
  <2>1. loop' = [loop EXCEPT !.progress = loop.progress + 1]
    BY <1>1 DEF Completed
  <2>2. loop' = [last |-> loop.last, streak |-> loop.streak, progress |-> loop.progress + 1,
                 seenAt |-> loop.seenAt]
    BY <1>0, <2>1
  <2> QED BY <1>0, <1>1, <2>2 DEF LoopShape
<1>2. CASE heard.last = "Coordinator" /\ said \notin Selection
  <2>1. said = None \/ said.selected = None
    BY <1>2, ReadType DEF Shapes, Finish
  <2>2. loop' = [loop EXCEPT !.progress = loop.progress + 0]
    BY <1>2, <2>1 DEF Completed, Selects
  <2>3. loop' = loop
    BY <1>0, <2>2
  <2> QED BY <1>2, <2>3 DEF Shapes, LoopShape
<1>3. CASE heard.last = "Coordinator" /\ said \in Selection
  <2>1. said # None /\ said.selected # None
    BY <1>3, SayingsAssumption, ChatAssumption DEF Selection
  <2>2. loop' = [Selects(said, loop.progress + 0) EXCEPT !.progress = loop.progress + 0]
    BY <1>3, <2>1 DEF Completed
  <2>3. loop' = [Selects(said, loop.progress) EXCEPT !.progress = loop.progress]
    BY <1>0, <2>2
  <2> HIDE DEF said
  <2>4. CASE loop.last = said /\ loop.progress = loop.seenAt
    <3>1. loop' = [last |-> said, streak |-> loop.streak + 1, progress |-> loop.progress,
                   seenAt |-> loop.seenAt]
      BY <1>0, <2>1, <2>3, <2>4 DEF Selects, Repeats
    <3> QED BY <1>0, <1>3, <2>4, <3>1 DEF LoopShape, said
  <2>5. CASE ~(loop.last = said /\ loop.progress = loop.seenAt)
    <3>1. loop' = [last |-> said, streak |-> 1, progress |-> loop.progress,
                   seenAt |-> loop.progress]
      BY <1>0, <2>1, <2>3, <2>5 DEF Selects, Repeats
    <3> QED BY <1>0, <1>3, <3>1 DEF LoopShape, said
  <2> QED BY <2>4, <2>5
<1> QED BY <1>1, <1>2, <1>3

(* The streak stays real, and its third selection makes a loop.            *)
LEMMA StreakGoesOn ==
  ASSUME Shapes, StreakIsReal, heard.chunks # <<>>, NEW f,
         responses' = Completed(f).responses, loop' = Completed(f).loop
  PROVE  /\ StreakIsReal'
         /\ /\ heard.last = "Coordinator" /\ Read(heard.chunks) \in Selection
            /\ loop'.streak >= 3
            => Looped'
<1>0. PICK n : n = Len(responses)
  OBVIOUS
<1> DEFINE said == Read(heard.chunks)
           r == [who |-> heard.last, says |-> said]
<1>1. /\ n \in Nat /\ DOMAIN responses = 1..n /\ DOMAIN responses' = 1..(n + 1)
      /\ \A l \in DOMAIN responses : responses'[l] = responses[l]
      /\ responses'[n + 1] = r
  BY <1>0, OneMore
<1>2. /\ heard.last # "Coordinator" =>
           loop'.last = loop.last /\ loop'.streak = loop.streak /\ loop'.progress # loop'.seenAt
      /\ heard.last = "Coordinator" /\ said \notin Selection => loop' = loop
      /\ heard.last = "Coordinator" /\ said \in Selection =>
           /\ loop'.last = said /\ loop'.progress = loop'.seenAt
           /\ \/ loop'.streak = 1
              \/ /\ loop.last = said /\ loop.progress = loop.seenAt
                 /\ loop'.streak = loop.streak + 1
  BY LoopGoesOn
<1>3. loop.streak \in Nat
  BY DEF Shapes, LoopShape
<1> HIDE DEF said
<1>4. CASE heard.last # "Coordinator"
  BY <1>2, <1>4 DEF StreakIsReal
<1>5. CASE heard.last = "Coordinator" /\ said \notin Selection
  <2>1. ASSUME NEW S, Streak(S)
        PROVE  Streak(S)'
    <3>1. ~Asked(r)
      BY <1>5 DEF Asked
    <3> QED BY <1>1, <1>2, <1>5, <2>1, <3>1 DEF Streak
  <2>2. DOMAIN responses \subseteq DOMAIN responses' /\ loop' = loop
    BY <1>1, <1>2, <1>5
  <2>3. ASSUME loop.streak > 0, loop.progress = loop.seenAt
        PROVE  \E x \in DOMAIN responses' : Streak({x})'
    BY <2>1, <2>2, <2>3 DEF StreakIsReal
  <2>4. ASSUME loop.streak > 1, loop.progress = loop.seenAt
        PROVE  \E x, y \in DOMAIN responses' : x < y /\ Streak({x, y})'
    BY <2>1, <2>2, <2>4 DEF StreakIsReal
  <2>5. loop.streak > 0 => loop.last \in Selection
    BY DEF StreakIsReal
  <2>6. StreakIsReal'
    BY <2>2, <2>3, <2>4, <2>5 DEF StreakIsReal
  <2> QED BY <1>5, <2>6 DEF said
<1>6. CASE heard.last = "Coordinator" /\ said \in Selection
  <2>1. n + 1 \in DOMAIN responses' /\ Streak({n + 1})'
    BY <1>1, <1>2, <1>6 DEF Streak
  <2>2. ASSUME loop'.streak > 1
        PROVE  /\ loop.last = said /\ loop.progress = loop.seenAt
               /\ loop'.streak = loop.streak + 1 /\ loop.streak > 0
    BY <1>2, <1>3, <1>6, <2>2
  <2>3. ASSUME loop'.streak > 1
        PROVE  \E i, j \in DOMAIN responses' : i < j /\ Streak({i, j})'
    <3>1. PICK i \in DOMAIN responses : Streak({i})
      BY <2>2, <2>3 DEF StreakIsReal
    <3>2. i \in DOMAIN responses' /\ i < n + 1
      BY <1>1
    <3>3. \A l \in DOMAIN responses' : Asked(responses'[l]) => l \in {i, n + 1} \/ l < i
      BY <1>1, <3>1 DEF Streak
    <3>4. \A k \in {i, n + 1} : responses'[k] = [who |-> "Coordinator", says |-> loop'.last]
      BY <1>1, <1>2, <1>6, <2>2, <2>3, <3>1 DEF Streak
    <3>5. Streak({i, n + 1})'
      BY <2>1, <3>2, <3>3, <3>4 DEF Streak
    <3> QED BY <2>1, <3>2, <3>5
  <2>4. ASSUME loop'.streak >= 3
        PROVE  Looped'
    <3>0. loop.streak > 1 /\ loop.progress = loop.seenAt /\ loop.last = said
      BY <1>2, <1>3, <1>6, <2>4
    <3>1. PICK i, j \in DOMAIN responses : i < j /\ Streak({i, j})
      BY <3>0 DEF StreakIsReal
    <3>2. /\ i \in DOMAIN responses' /\ j \in DOMAIN responses' /\ n + 1 \in DOMAIN responses'
          /\ i < j /\ j < n + 1
      BY <1>1, <3>1
    <3>3. responses'[i] = r /\ responses'[j] = r /\ responses'[n + 1] = r
      BY <1>1, <1>6, <3>0, <3>1 DEF Streak
    <3>4. \A l \in DOMAIN responses' : l > i /\ Asked(responses'[l]) => l \in {j, n + 1}
      BY <1>1, <3>1 DEF Streak
    <3> QED BY <1>6, <3>2, <3>3, <3>4 DEF Looped
  <2> QED BY <1>2, <1>6, <2>1, <2>3, <2>4 DEF StreakIsReal, said
<1> QED BY <1>4, <1>5, <1>6 DEF said

(* The flags after a response is completed while run_stream listens.       *)
LEMMA FlagsGoOn ==
  ASSUME Shapes, StreakIsReal, heard.chunks # <<>>, NEW f, StopShape(f), ~f.requested,
         f.forced # "loop",
         responses' = Completed(f).responses, loop' = Completed(f).loop
  PROVE  LET g == Completed(f).stop
         IN  StopShape(g) /\ KeepsBlock(g) /\ (g.forced = "loop" => Looped')
<1> DEFINE g == Completed(f).stop
           said == Read(heard.chunks)
<1>1. CASE heard.last = "Coordinator" /\ said # None
  <2>1. PICK streak : /\ g = CoordinatorSaid(f, said, streak)
                      /\ said \in Selection => streak = loop'.streak
    <3>1. g = CoordinatorSaid(f, said, Selects(said, loop.progress + 0).streak)
      BY <1>1 DEF Completed
    <3>2. loop' = [Selects(said, loop.progress + 0) EXCEPT !.progress = loop.progress + 0]
      BY <1>1 DEF Completed
    <3>3. said \in Selection => Selects(said, loop.progress + 0).streak = loop'.streak
      <4> HIDE DEF said
      <4>1. loop = [last |-> loop.last, streak |-> loop.streak, progress |-> loop.progress,
                    seenAt |-> loop.seenAt]
        BY DEF Shapes, LoopShape
      <4>2. Selects(said, loop.progress + 0) =
              [last |-> Selects(said, loop.progress + 0).last,
               streak |-> Selects(said, loop.progress + 0).streak,
               progress |-> Selects(said, loop.progress + 0).progress,
               seenAt |-> Selects(said, loop.progress + 0).seenAt]
        BY <4>1 DEF Selects, Repeats
      <4> QED BY <3>2, <4>2
    <3> QED BY <3>1, <3>3
  <2>2. said \in Selection \cup Finish
    BY <1>1, ReadType DEF Shapes
  <2>3. said.selected # None => said \in Selection
    BY <2>2 DEF Finish
  <2> HIDE DEF g, said
  <2>4. /\ StopShape(g) /\ KeepsBlock(g)
        /\ g.forced = "loop" => said.selected # None /\ streak >= 3
    BY <2>1, SaidShape
  <2> QED BY <1>1, <2>1, <2>3, <2>4, StreakGoesOn DEF g, said
<1>2. CASE ~(heard.last = "Coordinator" /\ said # None)
  <2>1. g = f
    BY <1>2 DEF Completed
  <2> QED BY <2>1 DEF KeepsBlock
<1> QED BY <1>1, <1>2

-----------------------------------------------------------------------------
(* The steps of the chat.                                                  *)

ChatKept ==
  Shapes /\ Listens /\ BlockKept /\ ResultAllowed /\ StreakIsReal /\ RoundsBounded
    /\ LoopIsReal

(* A step that changes the turn and the result at most.                    *)
LEMMA OnlyFlow ==
  ASSUME ChatKept, UNCHANGED <<heard, responses, stop, loop>>,
         FlowShape', Listens', ResultAllowed'
  PROVE  ChatKept'
BY DEF ChatKept, Shapes, HeardShape, StopShape, LoopShape, BlockKept, KeepsBlock,
   StreakIsReal, Streak, RoundsBounded, LoopIsReal, Looped

(* An update: the answer before it may be completed.                       *)
LEMMA HearsKeeps ==
  ASSUME ChatKept, CallCounted, flow.at = "speaking", NEW says \in Says(flow.speaker),
         Hears(says), UNCHANGED result
  PROVE  ChatKept'
<1> USE DEF ChatKept
<1> DEFINE update == [says |-> says, part |-> call.got + 1]
           switches == heard.last # flow.speaker
           text == IF says = Tool THEN <<>> ELSE <<update>>
           T == [says : Sayings, part : Nat]
<1>0. /\ ~stop.requested /\ stop.forced = None /\ Len(responses) < MaxRounds
      /\ result = None
  BY DEF Listens
<1>1. PICK overtime \in BOOLEAN :
        LET f == IF overtime THEN Forced(stop, "overtime") ELSE stop
            done == IF switches /\ heard.chunks # <<>> THEN Completed(f) ELSE Uncompleted(f)
            after == Crowded(done.stop, Len(done.responses))
        IN  /\ heard' = [heard EXCEPT !.last = flow.speaker,
                           !.chunks = (IF switches THEN <<>> ELSE @) \o text]
            /\ responses' = done.responses /\ loop' = done.loop /\ stop' = after
            /\ flow' = [flow EXCEPT !.saying = says,
                                    !.at = IF Stops(after) THEN "ended" ELSE @]
  BY DEF Hears, Clocked
<1> DEFINE f == IF overtime THEN Forced(stop, "overtime") ELSE stop
           done == IF switches /\ heard.chunks # <<>> THEN Completed(f) ELSE Uncompleted(f)
           g == done.stop
           after == Crowded(g, Len(responses'))
<1>2. /\ responses' = done.responses /\ loop' = done.loop /\ stop' = after
      /\ flow' = [flow EXCEPT !.saying = says, !.at = IF Stops(after) THEN "ended" ELSE @]
  BY <1>1
<1>3. StopShape(f) /\ ~f.requested /\ f.forced # "loop"
  BY <1>0, ForcedShape, ChatAssumption DEF Shapes
<1>4. /\ StopShape(g) /\ KeepsBlock(g) /\ (g.forced = "loop" => Looped')
      /\ LoopShape' /\ StreakIsReal'
      /\ responses' \in Seq([who : Agent, says : Sayings \cup {None}])
      /\ Len(responses') \in {Len(responses), Len(responses) + 1}
  <2>1. CASE switches /\ heard.chunks # <<>>
    <3>1. /\ g = Completed(f).stop /\ responses' = Completed(f).responses
          /\ loop' = Completed(f).loop
      BY <1>2, <2>1
    <3> HIDE DEF f, g
    <3> QED BY <1>3, <2>1, <3>1, OneMore, LoopGoesOn, StreakGoesOn, FlagsGoOn
  <2>2. CASE ~(switches /\ heard.chunks # <<>>)
    <3>1. g = f /\ responses' = responses /\ loop' = loop
      BY <1>2, <2>2 DEF Uncompleted
    <3> HIDE DEF f, g
    <3> QED BY <1>3, <3>1 DEF KeepsBlock, Shapes, LoopShape, StreakIsReal, Streak
  <2> QED BY <2>1, <2>2
<1>5. Len(responses) \in Nat /\ Len(responses') \in Nat /\ MaxRounds \in Nat
  BY <1>4, ChatAssumption DEF Shapes
<1> HIDE DEF f, g, done
<1>6. /\ StopShape(after) /\ KeepsBlock(after) /\ (after.forced = "loop" => Looped')
      /\ ~Stops(after) => Len(responses') < MaxRounds
  <2>1. CASE after = g /\ Len(responses') < MaxRounds
    BY <1>4, <2>1
  <2>2. CASE after = Forced(g, "rounds")
    <3> HIDE DEF after
    <3> QED BY <1>4, <2>2, ForcedShape DEF KeepsBlock
  <2> QED BY <1>5, <2>1, <2>2 DEF Crowded
<1> HIDE DEF after
<1>7. HeardShape'
  <2>1. /\ heard' = [last |-> flow.speaker, conversation |-> heard.conversation,
                     chunks |-> (IF switches THEN <<>> ELSE heard.chunks) \o text]
        /\ flow.speaker \in Agent
    BY <1>1 DEF Shapes, HeardShape, FlowShape
  <2>2. says \in Sayings /\ (flow.speaker = "Coordinator" => says \in Selection \cup Finish)
    BY SayingsAssumption DEF Says, Sayings
  <2>3. update \in T
    BY <2>2 DEF CallCounted
  <2>4. heard.chunks \in Seq(T)
    BY DEF Shapes, HeardShape
  <2> HIDE DEF T, update
  <2> DEFINE before == IF switches THEN <<>> ELSE heard.chunks
  <2>b. heard'.chunks = before \o text
    BY <2>1
  <2>c. text \in Seq(T)
    BY <2>3
  <2>d. before \in Seq(T)
    BY <2>4
  <2>5. before \in Seq(T) /\ text \in Seq(T) /\ heard'.chunks = before \o text
    BY <2>b, <2>c, <2>d
  <2>a. heard'.chunks \in Seq(T)
    <3> HIDE DEF before, text
    <3> QED BY <2>5
  <2>6. ASSUME flow.speaker = "Coordinator", NEW i \in DOMAIN heard'.chunks
        PROVE  heard'.chunks[i].says \in Selection \cup Finish
    <3>1. update.says = says
      BY DEF update
    <3>2. heard'.chunks[i] = update \/ (~switches /\ i \in DOMAIN heard.chunks
                                          /\ heard'.chunks[i] = heard.chunks[i])
      <4>1. text = <<>> \/ (Len(text) = 1 /\ text[1] = update)
        OBVIOUS
      <4> HIDE DEF before, text
      <4>2. \/ i \in DOMAIN before /\ heard'.chunks[i] = before[i]
            \/ text # <<>> /\ i = Len(before) + 1 /\ heard'.chunks[i] = text[1]
        BY <2>5, <2>6, <4>1
      <4> QED BY <4>1, <4>2 DEF before
    <3> QED BY <2>2, <2>6, <3>1, <3>2 DEF Shapes, HeardShape
  <2> QED BY <2>1, <2>a, <2>6 DEF HeardShape, T
<1>8. FlowShape' /\ flow'.at = IF Stops(after) THEN "ended" ELSE "speaking"
  <2>1. flow' = [at |-> IF Stops(after) THEN "ended" ELSE "speaking",
                 speaker |-> flow.speaker, saying |-> says, turns |-> flow.turns,
                 spoken |-> flow.spoken, failures |-> flow.failures]
    BY <1>2 DEF Shapes, FlowShape
  <2> QED BY <2>1 DEF Shapes, FlowShape
<1>9. Listens' /\ ResultAllowed'
  BY <1>0, <1>2, <1>6, <1>8 DEF Listens, ResultAllowed, Stops
<1>10. RoundsBounded' /\ LoopIsReal' /\ BlockKept'
  BY <1>0, <1>2, <1>4, <1>5, <1>6 DEF RoundsBounded, LoopIsReal, BlockKept
<1> QED BY <1>2, <1>4, <1>6, <1>7, <1>8, <1>9, <1>10 DEF Shapes

(* The workflow's output completes the last answer.                        *)
LEMMA OutputsKeeps ==
  ASSUME ChatKept, Outputs
  PROVE  ChatKept'
<1> USE DEF ChatKept
<1>0. /\ flow.at = "turn" /\ ~stop.requested /\ stop.forced = None /\ result = None
      /\ StopShape(stop) /\ stop.forced # "loop" /\ Len(responses) < MaxRounds
  BY ChatAssumption DEF Outputs, Listens, Shapes
<1>1. /\ heard' = [heard EXCEPT !.conversation = flow.spoken]
      /\ flow' = [flow EXCEPT !.at = "ended"] /\ result' = result
  BY DEF Outputs
<1>p. PICK overtime \in BOOLEAN, later \in BOOLEAN :
        LET f == Clocked(stop, overtime)
            done == IF heard.chunks # <<>> THEN Completed(f) ELSE Uncompleted(f)
        IN  /\ responses' = done.responses /\ loop' = done.loop
            /\ stop' = Clocked(done.stop, later)
  BY DEF Outputs
<1> DEFINE f == Clocked(stop, overtime)
           done == IF heard.chunks # <<>> THEN Completed(f) ELSE Uncompleted(f)
<1>q. responses' = done.responses /\ loop' = done.loop /\ stop' = Clocked(done.stop, later)
  BY <1>p
<1>f. /\ StopShape(f) /\ ~f.requested /\ f.forced # "loop" /\ KeepsBlock(f)
  BY <1>0, ForcedShape DEF Clocked, KeepsBlock
<1> HIDE DEF f
<1>2. /\ StopShape(done.stop) /\ KeepsBlock(done.stop) /\ (done.stop.forced = "loop" => Looped')
      /\ LoopShape' /\ StreakIsReal'
      /\ responses' \in Seq([who : Agent, says : Sayings \cup {None}])
      /\ Len(responses') \in {Len(responses), Len(responses) + 1}
  <2>1. CASE heard.chunks # <<>>
    <3>1. /\ done.stop = Completed(f).stop /\ responses' = Completed(f).responses
          /\ loop' = Completed(f).loop
      BY <1>q, <2>1
    <3> QED BY <1>0, <1>f, <2>1, <3>1, OneMore, LoopGoesOn, StreakGoesOn, FlagsGoOn
  <2>2. CASE heard.chunks = <<>>
    <3>1. done.stop = f /\ responses' = responses /\ loop' = loop
      BY <1>q, <2>2 DEF Uncompleted
    <3> HIDE DEF done
    <3> QED BY <1>0, <1>f, <3>1 DEF Shapes, LoopShape, StreakIsReal, Streak
  <2> QED BY <2>1, <2>2
<1> HIDE DEF done
<1>c. /\ StopShape(stop') /\ KeepsBlock(stop') /\ (stop'.forced = "loop" => Looped')
  <2>1. CASE stop' = done.stop
    BY <1>2, <2>1
  <2>2. CASE stop' = Forced(done.stop, "overtime")
    <3>1. /\ StopShape(Forced(done.stop, "overtime")) /\ KeepsBlock(Forced(done.stop, "overtime"))
          /\ Forced(done.stop, "overtime").forced = "loop" => done.stop.forced = "loop"
      BY <1>2, ForcedShape DEF KeepsBlock
    <3> QED BY <1>2, <2>2, <3>1
  <2> QED BY <1>q, <2>1, <2>2 DEF Clocked
<1>3. Len(responses) \in Nat /\ Len(responses') \in Nat /\ MaxRounds \in Nat
  BY <1>2, ChatAssumption DEF Shapes
<1>4. HeardShape'
  <2>1. heard' = [last |-> heard.last, chunks |-> heard.chunks, conversation |-> flow.spoken]
    BY <1>1 DEF Shapes, HeardShape
  <2> QED BY <2>1 DEF Shapes, HeardShape
<1>5. FlowShape' /\ flow'.at = "ended"
  <2>1. flow' = [at |-> "ended", speaker |-> flow.speaker, saying |-> flow.saying,
                 turns |-> flow.turns, spoken |-> flow.spoken, failures |-> flow.failures]
    BY <1>1 DEF Shapes, FlowShape
  <2> QED BY <2>1 DEF Shapes, FlowShape
<1>6. Listens' /\ ResultAllowed'
  BY <1>0, <1>1, <1>5 DEF Listens, ResultAllowed
<1>7. RoundsBounded' /\ LoopIsReal' /\ BlockKept'
  BY <1>0, <1>2, <1>3, <1>c DEF RoundsBounded, LoopIsReal, BlockKept
<1> QED BY <1>2, <1>4, <1>5, <1>6, <1>7, <1>c DEF Shapes, StopShape

(* The turns of the framework, and the way to the result.                  *)
LEMMA TurnsKeep ==
  ASSUME ChatKept, TurnBegins \/ TurnEnds \/ CallFails \/ SaysNothing \/ CallPauses
  PROVE  ChatKept'
<1>1. UNCHANGED <<heard, responses, stop, loop, result>>
  BY DEF TurnBegins, TurnEnds, CallFails, SaysNothing, CallPauses
<1>2. FlowShape /\ Listens /\ ResultAllowed
  BY DEF ChatKept, Shapes
<1>3. FlowShape'
  <2>1. CASE flow' = flow
    BY <1>2, <2>1 DEF FlowShape
  <2>2. CASE TurnEnds
    <3>1. flow.saying \in Selection => flow.saying.selected \in Agent
      BY DEF Selection, Agent
    <3>2. (IF flow.saying \in Selection THEN flow.saying.selected ELSE "Coordinator") \in Agent
      BY <3>1 DEF Agent
    <3> QED BY <1>2, <2>2, <3>2 DEF TurnEnds, FlowShape
  <2>3. CASE TurnBegins \/ CallFails
    BY <1>2, <2>3 DEF TurnBegins, CallFails, FlowShape
  <2>4. CASE SaysNothing
    BY <1>2, <2>4 DEF SaysNothing, FlowShape, Agent
  <2> QED BY <2>1, <2>2, <2>3, <2>4 DEF CallPauses
<1>4. \/ flow'.at = flow.at
      \/ flow'.at \in {"speaking", "turn"} /\ flow.at \in {"turn", "speaking"}
      \/ flow'.at = "failed"
  BY <1>2 DEF TurnBegins, TurnEnds, CallFails, SaysNothing, CallPauses, FlowShape
<1>5. Listens' /\ ResultAllowed'
  BY <1>1, <1>2, <1>4 DEF Listens, ResultAllowed, Blocked
<1> QED BY <1>1, <1>3, <1>5, OnlyFlow

LEMMA EndingKeeps ==
  ASSUME ChatKept, Concludes \/ Generates \/ GeneratesAgain \/ Tells
  PROVE  ChatKept'
<1>1. UNCHANGED <<heard, responses, stop, loop>>
  BY DEF Concludes, Generates, GeneratesAgain, Tells
<1>2. FlowShape /\ Listens /\ ResultAllowed /\ stop.forced \in {"loop", "rounds", "overtime", None}
  BY DEF ChatKept, Shapes, StopShape
<1>3. \E at \in {"telling", "generating", "invalid", "failed", "again", "over"} :
        flow' = [flow EXCEPT !.at = at]
  BY DEF Concludes, Ending, Generates, GeneratesAgain, Tells
<1>4. FlowShape' /\ flow'.at \notin {"turn", "speaking", "ended"}
  BY <1>2, <1>3 DEF FlowShape
<1>5. ResultAllowed'
  <2>1. CASE Concludes
    <3>0. flow.at = "ended" /\ result = None
      BY <1>2, <2>1 DEF Concludes, Listens
    <3>1. ASSUME NEW kind \in {"loop", "rounds", "overtime", None, "blocked"}, Ending(kind)
          PROVE  ResultAllowed'
      <4>1. result'.kind # "generated" /\ flow'.at = "telling"
        BY <1>2, <3>1, ChatAssumption DEF Ending, FlowShape
      <4> QED BY <4>1 DEF ResultAllowed
    <3>2. CASE stop.forced = None /\ ~Blocked /\ UNCHANGED result
      BY <1>1, <3>0, <3>2 DEF ResultAllowed, Blocked
    <3>3. \/ stop.forced = None /\ ~Blocked /\ UNCHANGED result
          \/ \E kind \in {"loop", "rounds", "overtime", None, "blocked"} : Ending(kind)
      BY <1>2, <2>1 DEF Concludes
    <3> QED BY <3>1, <3>2, <3>3
  <2>2. CASE Generates
    BY <1>1, <1>2, <2>2 DEF Generates, Ending, ResultAllowed, Blocked, FlowShape
  <2>3. CASE GeneratesAgain
    BY <1>1, <1>2, <2>3 DEF GeneratesAgain, ResultAllowed, Blocked, FlowShape
  <2>4. CASE Tells
    <3>1. flow'.at \in {"over", "failed"}
      BY <1>2, <2>4 DEF Tells, FlowShape
    <3>2. result' = result \/ result' = None \/ result'.kind = None
      BY <2>4 DEF Tells
    <3> QED BY <1>1, <1>2, <3>1, <3>2, ChatAssumption DEF ResultAllowed, Blocked
  <2> QED BY <2>1, <2>2, <2>3, <2>4
<1> QED BY <1>1, <1>4, <1>5, OnlyFlow DEF Listens

LEMMA ChatStep == ChatKept /\ CallCounted /\ [Next]_vars => ChatKept'
<1> SUFFICES ASSUME ChatKept, CallCounted, [Next]_vars PROVE ChatKept'
  OBVIOUS
<1>1. CASE UNCHANGED vars
  BY <1>1, OnlyFlow DEF vars, ChatKept, Shapes, FlowShape, Listens, ResultAllowed, Blocked
<1>2. CASE Speaks
  BY <1>2, HearsKeeps DEF Speaks
<1> QED BY <1>1, <1>2, OutputsKeeps, TurnsKeep, EndingKeeps DEF Next

LEMMA ChatInit == Init => ChatKept /\ CallCounted /\ TalkShape /\ CallTrimmed
<1> SUFFICES ASSUME Init PROVE ChatKept /\ CallCounted /\ TalkShape /\ CallTrimmed
  OBVIOUS
<1> USE ChatAssumption DEF Init, NothingHeard
<1>1. CallCounted
  BY CallAssumption DEF NoCall, CallCounted, GivesUpLate
<1>2. Shapes
  BY DEF Shapes, FlowShape, HeardShape, StopShape, LoopShape, Agent
<1>3. Listens /\ BlockKept /\ ResultAllowed /\ RoundsBounded
  BY DEF Listens, BlockKept, KeepsBlock, ResultAllowed, RoundsBounded
<1>4. StreakIsReal /\ LoopIsReal
  BY DEF StreakIsReal, LoopIsReal
<1>5. TalkShape /\ CallTrimmed
  BY DEF TalkShape, Talk, NoCall, CallTrimmed
<1> QED BY <1>1, <1>2, <1>3, <1>4, <1>5 DEF ChatKept

-----------------------------------------------------------------------------
(* Trimming a request.                                                     *)

(* Min of a set of naturals is one of them and the least.                  *)
LEMMA MinOfNaturals ==
  ASSUME NEW S \in SUBSET Nat, S # {}
  PROVE  Min(S) \in S /\ \A y \in S : Min(S) <= y
<1>1. PICK x \in S : \A y \in S : ~(<<y, x>> \in OpToRel(<, Nat))
  BY NatLessThanWellFounded, WFMin, Zenon
<1>2. \A y \in S : <<y, x>> \in Nat \X Nat
  OBVIOUS
<1>3. \A y \in S : ~(y < x)
  BY <1>1, <1>2 DEF OpToRel
<1>4. \A y \in S : x <= y
  BY <1>3
<1> QED BY <1>4 DEF Min

(* The length of a list of one message, by the definition of the fold.     *)
LEMMA CharsOfOne ==
  ASSUME NEW m, m.size \in Nat
  PROVE  Chars(<<m>>) = m.size
<1> DEFINE D == DOMAIN <<m>>
<1>1. D = {1}
  OBVIOUS
<1> HIDE DEF D
<1> DEFINE iter == CHOOSE g : g = [s \in SUBSET D |-> IF s = {} THEN 0
      ELSE <<m>>[CHOOSE x \in s : TRUE].size + g[s \ {CHOOSE x \in s : TRUE}]]
<1>2. Chars(<<m>>) = iter[D]
  BY DEF Chars, MapThenSumSet, MapThenFoldSet, D
<1> DEFINE h == [s \in SUBSET D |-> IF s = {} THEN 0 ELSE m.size]
<1>3. \A s \in SUBSET D : s # {} => s = {1} /\ (CHOOSE x \in s : TRUE) = 1
  BY <1>1
<1>4. h = [s \in SUBSET D |-> IF s = {} THEN 0
      ELSE <<m>>[CHOOSE x \in s : TRUE].size + h[s \ {CHOOSE x \in s : TRUE}]]
  BY <1>3
<1>5. iter = [s \in SUBSET D |-> IF s = {} THEN 0
      ELSE <<m>>[CHOOSE x \in s : TRUE].size + iter[s \ {CHOOSE x \in s : TRUE}]]
  <2> HIDE DEF h
  <2> QED BY <1>4, Zenon
<1> HIDE DEF iter
<1>6. iter[{}] = 0
  BY <1>5
<1>7. iter[{1}] = m.size + iter[{1} \ {1}]
  BY <1>1, <1>3, <1>5
<1> QED BY <1>1, <1>2, <1>6, <1>7

(* How many elements of a set of numbers are no greater than one of them.  *)
Rank(S, i) == Cardinality({j \in S : j <= i})

LEMMA Ranks ==
  ASSUME NEW S \in SUBSET Nat, IsFiniteSet(S)
  PROVE  /\ Cardinality(S) \in Nat
         /\ \A i \in S : Rank(S, i) \in 1..Cardinality(S)
         /\ \A i, j \in S : i < j => Rank(S, i) # Rank(S, j)
         /\ \A i, j \in S : i <= j => Rank(S, i) <= Rank(S, j)
<1> DEFINE below(i) == {j \in S : j <= i}
           n == Cardinality(S)
<1>1. n \in Nat
  BY FS_CardinalityType
<1>2. \A i \in S : IsFiniteSet(below(i)) /\ Cardinality(below(i)) <= n
  BY FS_Subset
<1>3. \A i \in S : Cardinality(below(i)) \in 1..n
  <2> SUFFICES ASSUME NEW i \in S PROVE Cardinality(below(i)) \in 1..n
    OBVIOUS
  <2>1. i \in below(i)
    OBVIOUS
  <2>2. Cardinality(below(i)) \in Nat /\ Cardinality(below(i)) # 0
    BY <1>2, <2>1, FS_CardinalityType, FS_EmptySet
  <2> QED BY <1>1, <1>2, <2>2
<1>4. \A i, j \in S : i <= j => below(i) \in SUBSET below(j)
  <2> SUFFICES ASSUME NEW i \in S, NEW j \in S, i <= j, NEW x \in below(i)
               PROVE  x \in below(j)
    OBVIOUS
  <2>1. x \in S /\ x \in Nat /\ x <= i /\ i \in Nat /\ j \in Nat
    OBVIOUS
  <2> QED BY <2>1
<1>5. \A i, j \in S : i < j => Cardinality(below(i)) # Cardinality(below(j))
  <2> SUFFICES ASSUME NEW i \in S, NEW j \in S, i < j,
                      Cardinality(below(i)) = Cardinality(below(j))
               PROVE  FALSE
    OBVIOUS
  <2>0. i \in Nat /\ j \in Nat
    OBVIOUS
  <2>1. j \in below(j) /\ j \notin below(i) /\ i <= j
    BY <2>0
  <2>2. below(i) \in SUBSET below(j)
    BY <1>4, <2>1
  <2>3. below(j) = below(i)
    <3> HIDE DEF below
    <3> QED BY <1>2, <2>2, FS_Subset
  <2> QED BY <2>1, <2>3
<1>6. \A i, j \in S : i <= j => Cardinality(below(i)) <= Cardinality(below(j))
  <2> HIDE DEF below
  <2> QED BY <1>2, <1>4, FS_Subset
<1> QED BY <1>1, <1>3, <1>5, <1>6 DEF Rank

(* A finite set of numbers has a k-th element.                             *)
LEMMA RankOnto ==
  ASSUME NEW S \in SUBSET Nat, IsFiniteSet(S), NEW k \in 1..Cardinality(S)
  PROVE  \E i \in S : Rank(S, i) = k
<1> DEFINE n == Cardinality(S)
           r == [i \in S |-> Rank(S, i)]
<1>1. n \in Nat /\ \A i \in S : r[i] \in 1..n
  BY Ranks
<1>2. \A i, j \in S : r[i] = r[j] => i = j
  <2> SUFFICES ASSUME NEW i \in S, NEW j \in S, r[i] = r[j], i # j PROVE FALSE
    OBVIOUS
  <2>1. i < j \/ j < i
    OBVIOUS
  <2> QED BY <2>1, Ranks
<1>3. r \in Injection(S, 1..n)
  BY <1>1, <1>2 DEF Injection, IsInjective
<1>4. IsFiniteSet(1..n) /\ Cardinality(1..n) = n
  BY <1>1, FS_Interval
<1>5. r \in Surjection(S, 1..n)
  <2> HIDE DEF r, n
  <2> QED BY <1>3, <1>4, FS_Injection DEF n
<1>6. PICK i \in S : r[i] = k
  BY <1>5 DEF Surjection
<1> QED BY <1>6

(* A subsequence has the elements at its positions, in their order.        *)
Places(s, S, at) ==
  /\ at \in [1..Cardinality(S) -> S]
  /\ \A k \in 1..Cardinality(S) : Sub(s, S)[k] = s[at[k]]
  /\ \A j, k \in 1..Cardinality(S) : j < k => at[j] < at[k]
  /\ \A i \in S : \E k \in 1..Cardinality(S) : at[k] = i

LEMMA SubOrder ==
  ASSUME NEW T, NEW s \in Seq(T), NEW S \in SUBSET (DOMAIN s)
  PROVE  /\ Sub(s, S) \in Seq(T) /\ Len(Sub(s, S)) = Cardinality(S)
         /\ Cardinality(S) \in Nat /\ \E at : Places(s, S, at)
<1> DEFINE n == Cardinality(S)
           at == [k \in 1..n |-> CHOOSE i \in S : Rank(S, i) = k]
<1>1. DOMAIN s = 1..Len(s) /\ Len(s) \in Nat
  OBVIOUS
<1>2. IsFiniteSet(S) /\ S \in SUBSET Nat
  <2>1. IsFiniteSet(1..Len(s))
    BY <1>1, FS_Interval
  <2> QED BY <1>1, <2>1, FS_Subset
<1>3. /\ n \in Nat
      /\ \A i \in S : Rank(S, i) \in 1..n
      /\ \A i, j \in S : i < j => Rank(S, i) # Rank(S, j)
      /\ \A i, j \in S : i <= j => Rank(S, i) <= Rank(S, j)
  BY <1>2, Ranks
<1>4. \A k \in 1..n : at[k] \in S /\ Rank(S, at[k]) = k
  BY <1>2, RankOnto
<1>5. Sub(s, S) = [k \in 1..n |-> s[at[k]]]
  BY DEF Sub, Rank
<1>6. at \in [1..n -> S]
  BY <1>4
<1> HIDE DEF at, n
<1>7. \A k \in 1..n : s[at[k]] \in T
  BY <1>4, <1>1
<1>8. Sub(s, S) \in Seq(T) /\ Len(Sub(s, S)) = n
  BY <1>3, <1>5, <1>7
<1>9. ASSUME NEW j \in 1..n, NEW k \in 1..n, j < k PROVE at[j] < at[k]
  <2>1. at[j] \in Nat /\ at[k] \in Nat /\ (at[k] <= at[j] => k <= j)
    BY <1>2, <1>3, <1>4
  <2> QED BY <1>3, <1>9, <2>1
<1>10. ASSUME NEW i \in S PROVE \E k \in 1..n : at[k] = i
  <2> DEFINE k == Rank(S, i)
  <2>1. k \in 1..n
    BY <1>3
  <2>2. at[k] \in S /\ Rank(S, at[k]) = k
    BY <1>4, <2>1
  <2>3. at[k] \in Nat /\ i \in Nat /\ ~(at[k] < i) /\ ~(i < at[k])
    BY <1>2, <1>3, <2>2
  <2> QED BY <2>1, <2>3
<1>11. \A k \in 1..n : Sub(s, S)[k] = s[at[k]]
  BY <1>5
<1>12. Places(s, S, at)
  BY <1>6, <1>9, <1>10, <1>11 DEF Places, n
<1> QED BY <1>3, <1>8, <1>12 DEF n

(* A message that is cut is no longer than it may be; its text stays.      *)
LEMMA CutShape ==
  ASSUME NEW m \in Message, NEW max \in Nat
  PROVE  /\ Cut(m, max) \in Message /\ Cut(m, max).text = m.text
         /\ Cut(m, max).size <= max
<1>1. CASE m.size <= max
  BY <1>1 DEF Cut
<1>2. CASE ~(m.size <= max)
  <2> DEFINE less == Min({max, Ends + Marker})
  <2>1. less \in Nat /\ less <= max
    <3>1. {max, Ends + Marker} \in SUBSET Nat
      BY CallAssumption
    <3> QED BY <3>1, MinOfNaturals
  <2>2. Cut(m, max) = [m EXCEPT !.size = less]
    BY <1>2 DEF Cut
  <2> HIDE DEF less
  <2> QED BY <2>1, <2>2 DEF Message
<1> QED BY <1>1, <1>2

LEMMA CutText ==
  ASSUME NEW m \in Message, NEW max
  PROVE  Cut(m, max).text = m.text
BY DEF Cut, Message

(* The rest of a sequence, and another with that behind it.                *)
LEMMA RestShape ==
  ASSUME NEW T, NEW s \in Seq(T), NEW n \in 0..Len(s)
  PROVE  /\ SubSeq(s, n + 1, Len(s)) \in Seq(T)
         /\ Len(SubSeq(s, n + 1, Len(s))) = Len(s) - n
         /\ \A i \in 1..(Len(s) - n) : SubSeq(s, n + 1, Len(s))[i] = s[n + i]
<1> DEFINE rest == SubSeq(s, n + 1, Len(s))
<1>1. /\ Len(s) \in Nat /\ n \in Nat /\ n <= Len(s)
      /\ \A i \in (n + 1)..Len(s) : s[i] \in T
  OBVIOUS
<1>2. /\ rest \in Seq(T)
      /\ Len(rest) = IF n + 1 <= Len(s) THEN Len(s) - (n + 1) + 1 ELSE 0
      /\ \A i \in 1..(Len(s) - (n + 1) + 1) : rest[i] = s[n + 1 + i - 1]
  BY <1>1, SubSeqProperties
<1> HIDE DEF rest
<1>3. Len(s) - (n + 1) + 1 = Len(s) - n /\ (~(n + 1 <= Len(s)) => Len(s) - n = 0)
  BY <1>1
<1>4. \A i \in 1..(Len(s) - n) : n + 1 + i - 1 = n + i
  BY <1>1
<1>5. \A i \in 1..(Len(s) - n) : rest[i] = s[n + i]
  BY <1>2, <1>3, <1>4
<1> QED BY <1>2, <1>3, <1>5 DEF rest

LEMMA RestBehind ==
  ASSUME NEW T, NEW s \in Seq(T), NEW t \in Seq(T), NEW n \in 0..Len(t)
  PROVE  LET all == s \o SubSeq(t, n + 1, Len(t))
         IN  /\ all \in Seq(T) /\ Len(all) = Len(s) + (Len(t) - n)
             /\ \A i \in 1..(Len(s) + (Len(t) - n)) :
                  all[i] = IF i <= Len(s) THEN s[i] ELSE t[n + (i - Len(s))]
<1> DEFINE rest == SubSeq(t, n + 1, Len(t))
<1>1. /\ Len(s) \in Nat /\ Len(t) \in Nat /\ n \in Nat /\ n <= Len(t)
  OBVIOUS
<1>2. /\ rest \in Seq(T) /\ Len(rest) = Len(t) - n
      /\ \A i \in 1..(Len(t) - n) : rest[i] = t[n + i]
  BY RestShape
<1> HIDE DEF rest
<1>3. /\ s \o rest \in Seq(T) /\ Len(s \o rest) = Len(s) + (Len(t) - n)
      /\ \A i \in 1..(Len(s) + (Len(t) - n)) :
           (s \o rest)[i] = IF i <= Len(s) THEN s[i] ELSE rest[i - Len(s)]
  <2>1. /\ s \o rest \in Seq(T) /\ Len(s \o rest) = Len(s) + Len(rest)
        /\ \A i \in 1..(Len(s) + Len(rest)) :
             (s \o rest)[i] = IF i <= Len(s) THEN s[i] ELSE rest[i - Len(s)]
    BY <1>2, ConcatProperties
  <2> QED BY <1>2, <2>1
<1>4. ASSUME NEW i \in 1..(Len(s) + (Len(t) - n)), ~(i <= Len(s))
      PROVE  rest[i - Len(s)] = t[n + (i - Len(s))]
  <2>1. i - Len(s) \in 1..(Len(t) - n)
    BY <1>1, <1>4
  <2> QED BY <1>2, <2>1
<1> QED BY <1>3, <1>4 DEF rest

(* A stretch of a sequence.                                                *)
LEMMA SliceShape ==
  ASSUME NEW T, NEW s \in Seq(T), NEW a \in 1..(Len(s) + 1), NEW b \in 0..Len(s)
  PROVE  /\ SubSeq(s, a, b) \in Seq(T)
         /\ a <= b => SubSeq(s, a, b) # <<>>
         /\ b = a => SubSeq(s, a, b) = <<s[a]>>
<1>1. a \in Int /\ b \in Int /\ Len(s) \in Nat /\ a >= 1 /\ b <= Len(s)
  OBVIOUS
<1>2. \A i \in a..b : s[i] \in T
  BY <1>1
<1>3. /\ SubSeq(s, a, b) \in Seq(T)
      /\ Len(SubSeq(s, a, b)) = IF a <= b THEN b - a + 1 ELSE 0
      /\ \A i \in 1..(b - a + 1) : SubSeq(s, a, b)[i] = s[a + i - 1]
  BY <1>1, <1>2, SubSeqProperties
<1>4. ASSUME a <= b PROVE SubSeq(s, a, b) # <<>>
  <2>1. Len(SubSeq(s, a, b)) = b - a + 1
    BY <1>3, <1>4
  <2>2. b - a + 1 # 0
    BY <1>1, <1>4
  <2> QED BY <2>1, <2>2
<1>5. ASSUME b = a PROVE SubSeq(s, a, b) = <<s[a]>>
  <2> DEFINE one == SubSeq(s, a, b)
  <2>1. one \in Seq(T) /\ Len(one) = 1 /\ one[1] = s[a]
    <3>1. b - a + 1 = 1 /\ a + 1 - 1 = a /\ a <= b
      BY <1>1, <1>5
    <3> QED BY <1>3, <3>1
  <2> HIDE DEF one
  <2>2. s[a] \in T
    BY <1>1, <1>5
  <2>3. one = <<s[a]>>
    BY <2>1, <2>2
  <2> QED BY <2>3 DEF one
<1> QED BY <1>3, <1>4, <1>5

(* The leading system messages are the first of a list.                    *)
LEMMA HeadsLead ==
  ASSUME NEW s \in Seq(Message)
  PROVE  /\ Leading(s) \in Seq(Message) /\ Len(Leading(s)) \in 0..Len(s)
         /\ Heads(s) = 1..Len(Leading(s))
         /\ Leading(s) = SubSeq(s, 1, Cardinality(Heads(s)))
         /\ \A i \in 1..Len(Leading(s)) : Leading(s)[i] = s[i]
<1> DEFINE C == {i \in 1..(Len(s) + 1) : i \notin Heads(s)}
           c == Min(C)
<1>1. DOMAIN s = 1..Len(s) /\ Len(s) \in Nat
  OBVIOUS
<1>2. C \in SUBSET Nat /\ Len(s) + 1 \in C
  BY <1>1 DEF Heads
<1>3. c \in C /\ \A y \in C : c <= y
  <2> HIDE DEF C
  <2> QED BY <1>2, MinOfNaturals
<1> HIDE DEF c
<1>4. c \in 1..(Len(s) + 1) /\ c \notin Heads(s)
  BY <1>3
<1>5. Heads(s) = 1..(c - 1)
  <2>1. ASSUME NEW i \in Heads(s) PROVE i \in 1..(c - 1)
    <3>1. i \in 1..Len(s) /\ \A j \in 1..i : s[j].system
      BY <1>1 DEF Heads
    <3>2. ASSUME c <= i PROVE FALSE
      <4>1. c \in 1..Len(s) /\ \A j \in 1..c : j \in 1..i
        BY <1>1, <1>4, <3>1, <3>2
      <4> QED BY <1>1, <1>4, <3>1, <4>1 DEF Heads
    <3> QED BY <1>1, <1>4, <3>1, <3>2
  <2>2. ASSUME NEW i \in 1..(c - 1) PROVE i \in Heads(s)
    <3>1. i \in 1..(Len(s) + 1) /\ ~(c <= i)
      BY <1>1, <1>4
    <3> QED BY <1>3, <3>1
  <2> QED BY <2>1, <2>2
<1>6. Cardinality(Heads(s)) = c - 1 /\ c - 1 \in 0..Len(s)
  BY <1>1, <1>4, <1>5, FS_Interval
<1>7. Leading(s) = SubSeq(s, 1, Cardinality(Heads(s)))
  BY DEF Leading, Heads
<1> HIDE DEF C
<1> DEFINE n == c - 1
<1>8. n \in 0..Len(s) /\ Leading(s) = SubSeq(s, 1, n) /\ Heads(s) = 1..n
  BY <1>5, <1>6, <1>7
<1> HIDE DEF n
<1>9. \A i \in 1..n : s[i] \in Message
  BY <1>1, <1>8
<1>10. /\ SubSeq(s, 1, n) \in Seq(Message)
       /\ Len(SubSeq(s, 1, n)) = IF 1 <= n THEN n - 1 + 1 ELSE 0
       /\ \A i \in 1..(n - 1 + 1) : SubSeq(s, 1, n)[i] = s[1 + i - 1]
  BY <1>8, <1>9, SubSeqProperties
<1>11. Len(Leading(s)) = n
  BY <1>1, <1>8, <1>10
<1>12. ASSUME NEW i \in 1..n PROVE Leading(s)[i] = s[i]
  <2>1. n - 1 + 1 = n /\ 1 + i - 1 = i
    BY <1>1, <1>8
  <2> QED BY <1>8, <1>10, <2>1
<1> QED BY <1>7, <1>8, <1>10, <1>11, <1>12

(* The tail is the end of a list, behind the leading system messages; only *)
(* a list of system messages leaves it empty.                              *)
LEMMA TailOffset ==
  ASSUME NEW s \in Seq(Message)
  PROVE  \E off \in Len(Leading(s))..Len(s) :
           /\ Len(Leading(s)) < Len(s) => off < Len(s)
           /\ Tail_(s) \in Seq(Message) /\ Len(Tail_(s)) = Len(s) - off
           /\ \A i \in 1..(Len(s) - off) : Tail_(s)[i] = s[off + i]
<1> DEFINE l == Len(Leading(s))
           rest == SubSeq(s, l + 1, Len(s))
           m == IF Len(rest) > KeepLast THEN Len(rest) - KeepLast ELSE 0
           tail == SubSeq(rest, m + 1, Len(rest))
<1>1. l \in 0..Len(s) /\ Len(s) \in Nat
  BY HeadsLead
<1> HIDE DEF l
<1>2. /\ rest \in Seq(Message) /\ Len(rest) = Len(s) - l
      /\ \A i \in 1..(Len(s) - l) : rest[i] = s[l + i]
  BY <1>1, RestShape
<1>3. Tail_(s) = SubSeq(rest, IF Len(rest) > KeepLast THEN Len(rest) - KeepLast + 1 ELSE 1,
                        Len(rest))
  BY DEF Tail_, l
<1> HIDE DEF rest
<1>4. KeepLast \in Nat \ {0} /\ Len(rest) \in Nat
  BY <1>2, CallAssumption
<1>5. /\ m \in 0..Len(rest) /\ (0 < Len(rest) => m < Len(rest))
      /\ m + 1 = IF Len(rest) > KeepLast THEN Len(rest) - KeepLast + 1 ELSE 1
  BY <1>4
<1>6. Tail_(s) = tail
  BY <1>3, <1>5
<1> HIDE DEF m
<1>7. /\ tail \in Seq(Message) /\ Len(tail) = Len(rest) - m
      /\ \A i \in 1..(Len(rest) - m) : tail[i] = rest[m + i]
  BY <1>2, <1>5, RestShape
<1> HIDE DEF tail
<1>8. /\ l + m \in l..Len(s) /\ (l < Len(s) => l + m < Len(s))
      /\ Len(tail) = Len(s) - (l + m)
  BY <1>1, <1>2, <1>5, <1>7
<1>9. ASSUME NEW i \in 1..(Len(s) - (l + m)) PROVE tail[i] = s[l + m + i]
  <2>1. i \in 1..(Len(rest) - m) /\ m + i \in 1..(Len(s) - l) /\ l + (m + i) = l + m + i
    BY <1>1, <1>2, <1>5
  <2> QED BY <1>2, <1>7, <2>1
<1> QED BY <1>6, <1>7, <1>8, <1>9 DEF l

(* What is cleaned are messages of the tail, in their order and cut; each  *)
(* of the tail is there, or repeats an earlier text.                       *)
LEMMA CleanedOrder ==
  ASSUME NEW s \in Seq(Message)
  PROVE  /\ Cleaned(s) \in Seq(Message)
         /\ Len(Leading(s)) < Len(s) => Len(Cleaned(s)) > 0
         /\ \E off \in Len(Leading(s))..Len(s) :
            \E at \in [1..Len(Cleaned(s)) -> (off + 1)..Len(s)] :
              /\ Len(Leading(s)) < Len(s) => off < Len(s)
              /\ \A k \in 1..Len(Cleaned(s)) : Cleaned(s)[k] = Cut(s[at[k]], MaxMessage)
              /\ \A j, k \in 1..Len(Cleaned(s)) : j < k => at[j] < at[k]
              /\ \A q \in (off + 1)..Len(s) :
                   \/ \E k \in 1..Len(Cleaned(s)) : at[k] = q
                   \/ \E j \in 1..(q - 1) : s[j].text = s[q].text
<1> DEFINE tail == Tail_(s)
           S == {i \in DOMAIN tail : \A j \in 1..(i - 1) : tail[j].text # tail[i].text}
           once == Sub(tail, S)
           n == Cardinality(S)
<1>1. PICK off \in Len(Leading(s))..Len(s) :
        /\ Len(Leading(s)) < Len(s) => off < Len(s)
        /\ tail \in Seq(Message) /\ Len(tail) = Len(s) - off
        /\ \A i \in 1..(Len(s) - off) : tail[i] = s[off + i]
  BY TailOffset
<1>2. off \in Nat /\ Len(s) \in Nat /\ off <= Len(s)
  BY <1>1, HeadsLead
<1>3. Cleaned(s) = [i \in DOMAIN once |-> Cut(once[i], MaxMessage)]
  BY DEF Cleaned
<1> HIDE DEF tail
<1>4. DOMAIN tail = 1..(Len(s) - off)
  BY <1>1
<1>5. \A i \in DOMAIN tail : i \in S \/ \E j \in 1..(i - 1) : tail[j].text = tail[i].text
  OBVIOUS
<1>6. S \in SUBSET (DOMAIN tail)
  OBVIOUS
<1>7. off < Len(s) => 1 \in S
  <2>1. 1..(1 - 1) = {}
    OBVIOUS
  <2> QED BY <1>2, <1>4, <2>1
<1> HIDE DEF S
<1>8. /\ once \in Seq(Message) /\ Len(once) = n /\ n \in Nat
      /\ \E p : Places(tail, S, p)
  BY <1>1, <1>6, SubOrder
<1>9. PICK p : /\ p \in [1..n -> S]
               /\ \A k \in 1..n : once[k] = tail[p[k]]
               /\ \A j, k \in 1..n : j < k => p[j] < p[k]
               /\ \A i \in S : \E k \in 1..n : p[k] = i
  BY <1>8 DEF Places
<1> HIDE DEF once
<1> HIDE DEF n
<1>10. /\ DOMAIN once = 1..n
       /\ \A i \in 1..n : once[i] \in Message /\ Cut(once[i], MaxMessage) \in Message
  <2>1. DOMAIN once = 1..n /\ \A i \in 1..n : once[i] \in Message
    BY <1>8
  <2> QED BY <2>1, CutShape, CallAssumption
<1>11. Cleaned(s) \in Seq(Message) /\ Len(Cleaned(s)) = n
  BY <1>3, <1>8, <1>10
<1>12. \A k \in 1..n : p[k] \in 1..(Len(s) - off) /\ p[k] \in Nat
  BY <1>4, <1>6, <1>9
<1> DEFINE at == [k \in 1..n |-> off + p[k]]
<1>13. at \in [1..n -> (off + 1)..Len(s)]
  <2>1. \A k \in 1..n : off + p[k] \in (off + 1)..Len(s)
    BY <1>2, <1>12
  <2> QED BY <2>1
<1>14. ASSUME NEW k \in 1..n PROVE Cleaned(s)[k] = Cut(s[at[k]], MaxMessage)
  <2>1. Cleaned(s)[k] = Cut(once[k], MaxMessage)
    BY <1>3, <1>10
  <2>2. once[k] = tail[p[k]] /\ tail[p[k]] = s[off + p[k]] /\ at[k] = off + p[k]
    BY <1>1, <1>9, <1>12
  <2> QED BY <2>1, <2>2
<1>15. \A j, k \in 1..n : j < k => at[j] < at[k]
  BY <1>2, <1>9, <1>12
<1>16. ASSUME NEW q \in (off + 1)..Len(s)
       PROVE  \/ \E k \in 1..n : at[k] = q
              \/ \E j \in 1..(q - 1) : s[j].text = s[q].text
  <2> DEFINE i == q - off
  <2>1. i \in 1..(Len(s) - off) /\ off + i = q /\ i \in DOMAIN tail
    BY <1>2, <1>4
  <2>2. CASE i \in S
    BY <1>9, <2>1, <2>2
  <2>3. CASE i \notin S
    <3>1. PICK j \in 1..(i - 1) : tail[j].text = tail[i].text
      BY <1>5, <2>1, <2>3
    <3>2. j \in 1..(Len(s) - off) /\ off + j \in 1..(q - 1)
      BY <1>2, <2>1
    <3>3. tail[j] = s[off + j] /\ tail[i] = s[q]
      BY <1>1, <2>1, <3>2
    <3> QED BY <3>1, <3>2, <3>3
  <2> QED BY <2>2, <2>3
<1>17. Len(Leading(s)) < Len(s) => n > 0
  <2>1. off < Len(s) => n # 0
    BY <1>7, <1>9
  <2> QED BY <1>1, <1>8, <2>1
<1> HIDE DEF at
<1> QED BY <1>1, <1>11, <1>13, <1>14, <1>15, <1>16, <1>17

(* Of the cleaned messages the newest stay: as many as fit, or, when they  *)
(* never fit, none behind system messages and one without them.  None stay *)
(* only if even the newest one did not fit.                                *)
LEMMA DropShape ==
  ASSUME NEW lead \in Seq(Message), NEW cleaned \in Seq(Message),
         lead = <<>> => cleaned # <<>>
  PROVE  \E n \in 0..Len(cleaned) :
           /\ Drop(lead, cleaned) = lead \o SubSeq(cleaned, n + 1, Len(cleaned))
           /\ lead = <<>> => n < Len(cleaned)
           /\ \/ Chars(Drop(lead, cleaned)) <= MaxTotal
              \/ lead # <<>> /\ n = Len(cleaned)
              \/ lead = <<>> /\ n + 1 = Len(cleaned)
           /\ n = Len(cleaned) /\ n > 0 =>
                ~(Chars(lead \o SubSeq(cleaned, n, Len(cleaned))) <= MaxTotal)
<1> DEFINE most == Len(cleaned)
           keep == IF lead = <<>> THEN Min({1, most}) ELSE 0
           rest(n) == lead \o SubSeq(cleaned, n + 1, most)
           S == {n \in 0..(most - keep) : n = most - keep \/ Chars(rest(n)) <= MaxTotal}
           least == Min(S)
<1>1. Drop(lead, cleaned) = rest(least)
  BY DEF Drop
<1>2. most \in Nat /\ (lead = <<>> => most # 0)
  OBVIOUS
<1> HIDE DEF most
<1>3. keep \in Nat /\ keep <= most /\ (lead = <<>> => keep = 1)
  <2>1. CASE lead = <<>>
    <3>1. {1, most} \in SUBSET Nat /\ most >= 1
      BY <1>2, <2>1
    <3>2. Min({1, most}) \in {1, most} /\ Min({1, most}) <= 1 /\ Min({1, most}) <= most
      BY <3>1, MinOfNaturals
    <3>3. Min({1, most}) = 1
      BY <3>1, <3>2
    <3> QED BY <2>1, <3>1, <3>3
  <2>2. CASE lead # <<>>
    BY <1>2, <2>2
  <2> QED BY <2>1, <2>2
<1>4. lead # <<>> => keep = 0
  OBVIOUS
<1> HIDE DEF keep, rest
<1>5. S \in SUBSET Nat /\ most - keep \in S
  BY <1>2, <1>3
<1>6. least \in S /\ \A y \in S : least <= y
  <2> HIDE DEF S
  <2> QED BY <1>5, MinOfNaturals
<1> HIDE DEF least
<1>7. /\ least \in Nat /\ least <= most - keep
      /\ least = most - keep \/ Chars(rest(least)) <= MaxTotal
  BY <1>2, <1>3, <1>6
<1>8. least \in 0..most /\ (lead = <<>> => least < most)
  BY <1>2, <1>3, <1>7
<1>9. \/ Chars(rest(least)) <= MaxTotal
      \/ lead # <<>> /\ least = most
      \/ lead = <<>> /\ least + 1 = most
  BY <1>2, <1>3, <1>4, <1>7
<1>10. ASSUME least = most, least > 0
       PROVE  ~(Chars(lead \o SubSeq(cleaned, least, most)) <= MaxTotal)
  <2>1. keep = 0 /\ most - 1 \in 0..(most - keep) /\ ~(least <= most - 1)
    BY <1>2, <1>3, <1>7, <1>10
  <2>2. ~(Chars(rest(most - 1)) <= MaxTotal)
    BY <1>6, <2>1
  <2>3. most - 1 + 1 = least
    BY <1>2, <1>10
  <2> QED BY <2>2, <2>3 DEF rest
<1> QED BY <1>1, <1>8, <1>9, <1>10 DEF rest, most

(* One message that does not fit is cut to what fits.                      *)
LEMMA OneIsCut ==
  ASSUME NEW m \in Message
  PROVE  LET kept == <<m>>
             longest == Min({i \in DOMAIN kept :
                               \A j \in DOMAIN kept : kept[j].size <= kept[i].size})
             others == Chars(kept) - kept[longest].size
             room == IF others + Ends < MaxTotal THEN MaxTotal - others ELSE Ends
         IN  Chars([kept EXCEPT ![longest] = Cut(@, room)]) <= MaxTotal
<1> DEFINE kept == <<m>>
           S == {i \in DOMAIN kept : \A j \in DOMAIN kept : kept[j].size <= kept[i].size}
           longest == Min(S)
           others == Chars(kept) - kept[longest].size
           room == IF others + Ends < MaxTotal THEN MaxTotal - others ELSE Ends
<1>1. m.size \in Nat
  BY DEF Message
<1>2. Chars(<<m>>) = m.size
  BY <1>1, CharsOfOne
<1>3. S = {1}
  BY <1>1
<1>4. longest = 1
  <2> HIDE DEF S
  <2>1. Min({1}) \in {1}
    BY MinOfNaturals
  <2> QED BY <1>3, <2>1
<1> HIDE DEF longest
<1>5. others = 0
  BY <1>1, <1>2, <1>4
<1> HIDE DEF others
<1>6. room \in Nat /\ room <= MaxTotal
  BY <1>5, CallAssumption
<1> HIDE DEF room
<1>7. Cut(m, room) \in Message /\ Cut(m, room).size <= MaxTotal
  BY <1>6, CutShape, CallAssumption DEF Message
<1>8. [kept EXCEPT ![longest] = Cut(@, room)] = <<Cut(m, room)>>
  BY <1>4
<1>9. Chars(<<Cut(m, room)>>) = Cut(m, room).size
  BY <1>7, CharsOfOne DEF Message
<1> QED BY <1>7, <1>8, <1>9 DEF longest, others, room

(* A trimmed request: the leading system messages and the newest of the    *)
(* cleaned ones, as long as it fits; none of these only if not even the    *)
(* last one fits behind the system messages.                               *)
LEMMA TrimShape ==
  ASSUME NEW full \in Seq(Message), full # <<>>
  PROVE  LET lead == Leading(full)
             cleaned == Cleaned(full)
             size(n) == Len(lead) + (Len(cleaned) - n)
         IN  \E n \in 0..Len(cleaned) :
               /\ DOMAIN Trim(full) = 1..size(n) /\ size(n) > 0
               /\ \A i \in 1..size(n) :
                    Trim(full)[i].text = (IF i <= Len(lead) THEN lead[i]
                                          ELSE cleaned[n + (i - Len(lead))]).text
               /\ Chars(Trim(full)) <= MaxTotal \/ n = Len(cleaned)
               /\ n = Len(cleaned) /\ n > 0 =>
                    lead # <<>> /\ ~(Chars(lead \o <<cleaned[n]>>) <= MaxTotal)
<1> DEFINE lead == Leading(full)
           cleaned == Cleaned(full)
           kept == Drop(lead, cleaned)
           longest == Min({i \in DOMAIN kept :
                             \A j \in DOMAIN kept : kept[j].size <= kept[i].size})
           others == Chars(kept) - kept[longest].size
           room == IF others + Ends < MaxTotal THEN MaxTotal - others ELSE Ends
           cut == [kept EXCEPT ![longest] = Cut(@, room)]
<1>1. lead \in Seq(Message) /\ cleaned \in Seq(Message) /\ (lead = <<>> => cleaned # <<>>)
  <2>1. lead = <<>> => Len(lead) < Len(full)
    <3>1. Len(full) \in Nat /\ Len(full) # 0
      OBVIOUS
    <3> HIDE DEF lead
    <3> QED BY <3>1
  <2>2. Len(lead) < Len(full) => Len(cleaned) > 0
    BY CleanedOrder
  <2> QED BY <2>1, <2>2, HeadsLead, CleanedOrder
<1>2. Trim(full) = IF Chars(kept) <= MaxTotal THEN kept ELSE cut
  BY DEF Trim
<1>3. \A c \in Seq(Message) :
        lead = <<>> /\ Len(c) = 1 /\ c = kept => Chars(cut) <= MaxTotal
  <2> SUFFICES ASSUME NEW c \in Seq(Message), lead = <<>>, Len(c) = 1, c = kept
               PROVE  Chars(cut) <= MaxTotal
    OBVIOUS
  <2>1. c[1] \in Message /\ c = <<c[1]>>
    OBVIOUS
  <2> QED BY <2>1, OneIsCut
<1> HIDE DEF lead, cleaned, longest, room
<1>4. PICK n \in 0..Len(cleaned) :
        /\ kept = lead \o SubSeq(cleaned, n + 1, Len(cleaned))
        /\ lead = <<>> => n < Len(cleaned)
        /\ \/ Chars(kept) <= MaxTotal
           \/ lead # <<>> /\ n = Len(cleaned)
           \/ lead = <<>> /\ n + 1 = Len(cleaned)
        /\ n = Len(cleaned) /\ n > 0 =>
             ~(Chars(lead \o SubSeq(cleaned, n, Len(cleaned))) <= MaxTotal)
  BY <1>1, DropShape
<1> HIDE DEF kept
<1>5. /\ Len(lead) \in Nat /\ Len(cleaned) \in Nat /\ n \in Nat /\ n <= Len(cleaned)
      /\ lead = <<>> <=> Len(lead) = 0
  BY <1>1
<1> DEFINE size == Len(lead) + (Len(cleaned) - n)
<1>6. /\ kept \in Seq(Message) /\ Len(kept) = size
      /\ \A i \in 1..size : kept[i] = IF i <= Len(lead) THEN lead[i]
                                      ELSE cleaned[n + (i - Len(lead))]
  <2>1. kept = lead \o SubSeq(cleaned, n + 1, Len(cleaned))
    BY <1>4
  <2> QED BY <1>1, <2>1, RestBehind
<1>7. size > 0
  BY <1>4, <1>5
<1> HIDE DEF size
<1>8. DOMAIN Trim(full) = DOMAIN kept /\ \A i \in DOMAIN kept : Trim(full)[i].text = kept[i].text
  <2>1. \A i \in DOMAIN kept : kept[i] \in Message
    BY <1>6
  <2>2. \A i \in DOMAIN kept : cut[i].text = kept[i].text
    <3> SUFFICES ASSUME NEW i \in DOMAIN kept PROVE cut[i].text = kept[i].text
      OBVIOUS
    <3>1. CASE i = longest
      BY <2>1, <3>1, CutText
    <3>2. CASE i # longest
      BY <3>2
    <3> QED BY <3>1, <3>2
  <2>3. DOMAIN cut = DOMAIN kept
    OBVIOUS
  <2> HIDE DEF cut
  <2> QED BY <1>2, <2>2, <2>3
<1>9. DOMAIN kept = 1..size
  BY <1>6
<1>10. Chars(Trim(full)) <= MaxTotal \/ n = Len(cleaned)
  <2>1. CASE Chars(kept) <= MaxTotal
    BY <1>2, <2>1
  <2>2. CASE lead = <<>> /\ n + 1 = Len(cleaned)
    <3>1. Len(kept) = 1
      BY <1>5, <1>6, <2>2 DEF size
    <3>2. Chars(cut) <= MaxTotal
      BY <1>3, <1>6, <2>2, <3>1
    <3> QED BY <1>2, <2>1, <3>2
  <2> QED BY <1>4, <2>1, <2>2
<1>11. ASSUME n = Len(cleaned), n > 0
       PROVE  lead # <<>> /\ ~(Chars(lead \o <<cleaned[n]>>) <= MaxTotal)
  <2>1. n \in 1..(Len(cleaned) + 1) /\ n \in 0..Len(cleaned)
    BY <1>5, <1>11
  <2>2. SubSeq(cleaned, n, n) = <<cleaned[n]>>
    BY <1>1, <2>1, SliceShape
  <2> QED BY <1>4, <1>5, <1>11, <2>2
<1> HIDE DEF cut
<1>12. \A i \in 1..size : Trim(full)[i].text = (IF i <= Len(lead) THEN lead[i]
                                               ELSE cleaned[n + (i - Len(lead))]).text
  BY <1>6, <1>8, <1>9
<1> QED BY <1>7, <1>8, <1>9, <1>10, <1>11, <1>12 DEF lead, cleaned, size

(* What RequestIsSound and LastSurvives say of a request.                  *)
Sound(sent, full) ==
  /\ sent # <<>>
  /\ \E from \in Sources(sent, full) :
       LET kept == {from[i] : i \in DOMAIN sent}
       IN  /\ Heads(full) \subseteq kept
           /\ \A p \in kept \ Heads(full), q \in DOMAIN full \ kept :
                p < q => \E j \in 1..(q - 1) : full[j].text = full[q].text
           /\ Chars(sent) <= MaxTotal \/ kept \subseteq Heads(full)

LastIn(sent, full) ==
  LET last == full[Len(full)]
      heads == SubSeq(full, 1, Cardinality(Heads(full)))
  IN  /\ \A j \in 1..(Len(full) - 1) : full[j].text # last.text
      /\ heads # <<>> => Chars(Append(heads, Cut(last, MaxMessage))) <= MaxTotal
      => \E i \in DOMAIN sent : sent[i].text = last.text

LEMMA TrimIsSound ==
  ASSUME NEW full \in Seq(Message), full # <<>>
  PROVE  Sound(Trim(full), full) /\ LastIn(Trim(full), full)
<1> DEFINE lead == Leading(full)
           cleaned == Cleaned(full)
           l == Len(lead)
           m == Len(cleaned)
           sent == Trim(full)
<1>1. /\ lead \in Seq(Message) /\ l \in 0..Len(full) /\ Heads(full) = 1..l
      /\ lead = SubSeq(full, 1, Cardinality(Heads(full)))
      /\ \A i \in 1..l : lead[i] = full[i]
  BY HeadsLead
<1>2. /\ DOMAIN full = 1..Len(full) /\ Len(full) \in Nat /\ Len(full) # 0
      /\ \A i \in 1..Len(full) : full[i] \in Message
  OBVIOUS
<1>3. cleaned \in Seq(Message) /\ (l < Len(full) => m > 0) /\ m \in Nat
  BY CleanedOrder
<1>4. PICK off \in l..Len(full) : \E at \in [1..m -> (off + 1)..Len(full)] :
        /\ l < Len(full) => off < Len(full)
        /\ \A k \in 1..m : cleaned[k] = Cut(full[at[k]], MaxMessage)
        /\ \A j, k \in 1..m : j < k => at[j] < at[k]
        /\ \A q \in (off + 1)..Len(full) :
             \/ \E k \in 1..m : at[k] = q
             \/ \E j \in 1..(q - 1) : full[j].text = full[q].text
  BY CleanedOrder
<1>5. PICK at \in [1..m -> (off + 1)..Len(full)] :
        /\ l < Len(full) => off < Len(full)
        /\ \A k \in 1..m : cleaned[k] = Cut(full[at[k]], MaxMessage)
        /\ \A j, k \in 1..m : j < k => at[j] < at[k]
        /\ \A q \in (off + 1)..Len(full) :
             \/ \E k \in 1..m : at[k] = q
             \/ \E j \in 1..(q - 1) : full[j].text = full[q].text
  BY <1>4
<1>6. PICK n \in 0..m :
        /\ DOMAIN sent = 1..(l + (m - n)) /\ l + (m - n) > 0
        /\ \A i \in 1..(l + (m - n)) :
             sent[i].text = (IF i <= l THEN lead[i] ELSE cleaned[n + (i - l)]).text
        /\ Chars(sent) <= MaxTotal \/ n = m
        /\ n = m /\ n > 0 => lead # <<>> /\ ~(Chars(lead \o <<cleaned[n]>>) <= MaxTotal)
  BY TrimShape
<1> HIDE DEF lead, cleaned, l, m, sent
<1>7. l \in Nat /\ off \in Nat /\ l <= off /\ off <= Len(full) /\ n \in Nat /\ n <= m
  BY <1>1, <1>2, <1>3, <1>4
<1>8. \A k \in 1..m : at[k] \in (off + 1)..Len(full) /\ at[k] \in Nat
                        /\ at[k] \in 1..Len(full) /\ at[k] > l
  BY <1>5, <1>7
<1>9. \A k \in 1..m : cleaned[k].text = full[at[k]].text
  BY <1>2, <1>5, <1>8, CutText
<1> DEFINE size == l + (m - n)
           from == [i \in 1..size |-> IF i <= l THEN i ELSE at[n + (i - l)]]
           kept == {from[i] : i \in 1..size}
<1>10. size \in Nat /\ size > 0
  BY <1>3, <1>6, <1>7
<1>11. \A i \in 1..size : ~(i <= l) => n + (i - l) \in 1..m
  BY <1>3, <1>7
<1>12. \A i \in 1..size : from[i] \in 1..Len(full) /\ sent[i].text = full[from[i]].text
  <2> SUFFICES ASSUME NEW i \in 1..size
               PROVE  from[i] \in 1..Len(full) /\ sent[i].text = full[from[i]].text
    OBVIOUS
  <2>1. CASE i <= l
    <3>1. i \in 1..l /\ i \in 1..Len(full)
      BY <1>1, <1>2, <1>7, <1>10, <2>1
    <3> QED BY <1>1, <1>6, <2>1, <3>1
  <2>2. CASE ~(i <= l)
    <3>1. from[i] = at[n + (i - l)] /\ sent[i].text = cleaned[n + (i - l)].text
      BY <1>6, <2>2
    <3> QED BY <1>8, <1>9, <1>11, <2>2, <3>1
  <2> QED BY <2>1, <2>2
<1>13. \A i, j \in 1..size : i < j => from[i] < from[j]
  <2> SUFFICES ASSUME NEW i \in 1..size, NEW j \in 1..size, i < j
               PROVE  from[i] < from[j]
    OBVIOUS
  <2>1. CASE j <= l
    BY <1>7, <1>10, <2>1
  <2>2. CASE i <= l /\ ~(j <= l)
    <3>1. from[i] = i /\ from[j] = at[n + (j - l)] /\ n + (j - l) \in 1..m
      BY <1>11, <2>2
    <3>2. at[n + (j - l)] > l /\ at[n + (j - l)] \in Nat
      BY <1>8, <3>1
    <3> QED BY <1>7, <1>10, <2>2, <3>1, <3>2
  <2>3. CASE ~(i <= l)
    <3>1. ~(j <= l)
      BY <1>7, <1>10, <2>3
    <3>2. /\ n + (i - l) \in 1..m /\ n + (j - l) \in 1..m /\ n + (i - l) < n + (j - l)
      BY <1>7, <1>10, <1>11, <2>3, <3>1
    <3>3. from[i] = at[n + (i - l)] /\ from[j] = at[n + (j - l)]
      BY <2>3, <3>1
    <3> QED BY <1>5, <3>2, <3>3
  <2> QED BY <2>1, <2>2, <2>3
<1>14. Sound(sent, full)
  <2>1. sent # <<>>
    <3>1. 1 \in DOMAIN sent
      BY <1>6, <1>10
    <3> QED BY <3>1
  <2>2. from \in Sources(sent, full)
    <3>1. from \in [DOMAIN sent -> DOMAIN full]
      BY <1>2, <1>6, <1>12
    <3> HIDE DEF from
    <3> QED BY <1>6, <1>12, <1>13, <3>1 DEF Sources, size
  <2>3. Heads(full) \subseteq kept
    <3> SUFFICES ASSUME NEW i \in 1..l PROVE i \in kept
      BY <1>1
    <3>1. i \in 1..size /\ i <= l
      BY <1>3, <1>7
    <3>2. from[i] = i
      BY <3>1
    <3> HIDE DEF from
    <3> QED BY <3>1, <3>2
  <2>4. \A p \in kept \ Heads(full), q \in DOMAIN full \ kept :
          p < q => \E j \in 1..(q - 1) : full[j].text = full[q].text
    <3> SUFFICES ASSUME NEW p \in kept \ Heads(full), NEW q \in DOMAIN full \ kept, p < q
                 PROVE  \E j \in 1..(q - 1) : full[j].text = full[q].text
      OBVIOUS
    <3>1. PICK i \in 1..size : p = from[i]
      OBVIOUS
    <3>2. ~(i <= l)
      <4>1. ASSUME i <= l PROVE i \in 1..l /\ from[i] = i
        BY <1>7, <1>10, <4>1
      <4> QED BY <1>1, <3>1, <4>1
    <3>3. p = at[n + (i - l)] /\ n + (i - l) \in 1..m
      BY <1>11, <3>1, <3>2
    <3>4. q \in (off + 1)..Len(full)
      BY <1>2, <1>7, <1>8, <3>3
    <3>5. ASSUME NEW k \in 1..m, at[k] = q PROVE FALSE
      <4>1. n + (i - l) < k
        <5>1. ~(k < n + (i - l)) /\ k # n + (i - l)
          BY <1>5, <1>8, <3>3, <3>5
        <5> QED BY <1>3, <3>3, <5>1
      <4> DEFINE x == l + (k - n)
      <4>2. x \in 1..size /\ ~(x <= l) /\ n + (x - l) = k
        BY <1>3, <1>7, <1>10, <3>2, <4>1
      <4>3. from[x] = at[k]
        BY <4>2
      <4>4. q \in kept
        BY <3>5, <4>2, <4>3
      <4> QED BY <4>4
    <3> QED BY <1>5, <3>4, <3>5
  <2>5. Chars(sent) <= MaxTotal \/ kept \subseteq Heads(full)
    <3>1. ASSUME n = m PROVE kept \subseteq 1..l
      <4>1. size = l
        BY <1>3, <1>7, <3>1
      <4>2. \A i \in 1..size : from[i] = i /\ i \in 1..l
        BY <1>7, <4>1
      <4> QED BY <4>2
    <3> QED BY <1>1, <1>6, <3>1
  <2>6. DOMAIN sent = 1..size
    BY <1>6
  <2> HIDE DEF from, size
  <2> QED BY <2>1, <2>2, <2>3, <2>4, <2>5, <2>6 DEF Sound
<1>15. LastIn(sent, full)
  <2> DEFINE last == full[Len(full)]
  <2> SUFFICES ASSUME \A j \in 1..(Len(full) - 1) : full[j].text # last.text,
                      lead # <<>> => Chars(Append(lead, Cut(last, MaxMessage))) <= MaxTotal
               PROVE  \E i \in DOMAIN sent : sent[i].text = last.text
    BY <1>1 DEF LastIn
  <2>1. CASE l = Len(full)
    <3>1. l \in 1..size /\ from[l] = l
      BY <1>2, <1>3, <1>7, <2>1
    <3>2. sent[l].text = last.text
      BY <1>12, <2>1, <3>1
    <3> QED BY <1>6, <3>1, <3>2
  <2>2. CASE l # Len(full)
    <3>1. l < Len(full)
      <4>1. l \in Nat /\ Len(full) \in Nat /\ l <= Len(full)
        BY <1>2, <1>7
      <4>2. \A x, y \in Nat : x <= y /\ x # y => x < y
        OBVIOUS
      <4> QED BY <2>2, <4>1, <4>2
    <3>2. Len(full) \in (off + 1)..Len(full) /\ m > 0
      BY <1>2, <1>3, <1>5, <1>7, <3>1
    <3>3. PICK k \in 1..m : at[k] = Len(full)
      BY <1>5, <3>2
    <3>4. k = m
      <4>1. m \in 1..m /\ ~(k < m)
        BY <1>3, <1>5, <1>8, <3>2, <3>3
      <4> QED BY <1>3, <4>1
    <3>5. cleaned[m] = Cut(last, MaxMessage) /\ cleaned[m].text = last.text
      BY <1>5, <1>9, <3>3, <3>4
    <3>6. n # m
      <4> SUFFICES ASSUME n = m PROVE FALSE
        OBVIOUS
      <4>1. lead # <<>> /\ ~(Chars(lead \o <<cleaned[m]>>) <= MaxTotal)
        BY <1>6, <3>2
      <4>2. lead \o <<cleaned[m]>> = Append(lead, cleaned[m])
        <5>1. cleaned[m] \in Message
          BY <1>3, <3>2 DEF m
        <5> QED BY <1>1, <5>1, AppendIsConcat
      <4> QED BY <3>5, <4>1, <4>2
    <3>7. size \in 1..size /\ ~(size <= l) /\ n + (size - l) = m
      BY <1>3, <1>7, <1>10, <3>6
    <3>8. sent[size].text = cleaned[m].text
      BY <1>6, <3>7
    <3> QED BY <1>6, <3>5, <3>7, <3>8
  <2> QED BY <2>1, <2>2
<1> QED BY <1>14, <1>15 DEF sent

(* A request that fits goes as it is.                                      *)
LEMMA FullIsSound ==
  ASSUME NEW full \in Seq(Message), full # <<>>, Chars(full) <= MaxTotal
  PROVE  Sound(full, full) /\ LastIn(full, full)
<1> DEFINE from == [i \in DOMAIN full |-> i]
           kept == {from[i] : i \in DOMAIN full}
<1>1. DOMAIN full = 1..Len(full) /\ Len(full) \in Nat /\ Len(full) # 0
  OBVIOUS
<1>2. from \in Sources(full, full)
  BY DEF Sources
<1>3. kept = DOMAIN full
  OBVIOUS
<1> HIDE DEF from
<1>4. Sound(full, full)
  BY <1>2, <1>3 DEF Sound, Heads
<1>5. Len(full) \in DOMAIN full
  BY <1>1
<1> QED BY <1>4, <1>5 DEF LastIn

LEMMA RequestFollows == CallTrimmed => RequestIsSound /\ LastSurvives
<1> SUFFICES ASSUME CallTrimmed, call.at # "idle", call.full # <<>>
             PROVE  Sound(call.request, call.full) /\ LastIn(call.request, call.full)
  BY DEF RequestIsSound, LastSurvives, Sound, LastIn
<1>1. call.full \in Seq(Message)
  BY DEF CallTrimmed
<1> QED BY <1>1, TrimIsSound, FullIsSound DEF CallTrimmed

LEMMA CallBeginsTrimmed ==
  ASSUME NEW mode, NEW messages \in Seq(Message), CallBegins(mode, messages)
  PROVE  CallTrimmed'
<1> DEFINE fits == Chars(messages) <= MaxTotal
           trimmed == Trim(messages)
<1>1. call' = [NoCall EXCEPT !.mode = mode, !.at = "ready", !.attempt = 1,
                 !.full = messages, !.request = IF fits THEN messages ELSE trimmed]
  BY DEF CallBegins
<1> HIDE DEF fits, trimmed
<1>2. call'.full = messages /\ call'.request = IF fits THEN messages ELSE trimmed
  BY <1>1 DEF NoCall
<1> QED BY <1>2 DEF CallTrimmed, fits, trimmed

(* The request stays, or is trimmed anew from what the caller gave.        *)
LEMMA CallGoesOnTrimmed ==
  ASSUME CallCounted, CallTrimmed,
         \/ \E e : AttemptFails(e)
         \/ Pause \/ GetReturns \/ StreamYields \/ StreamEnds
  PROVE  CallTrimmed'
<1> DEFINE trimmed == Trim(call.full)
<1>1. call = [mode |-> call.mode, at |-> call.at, attempt |-> call.attempt,
              round |-> call.round, full |-> call.full, request |-> call.request,
              got |-> call.got, seen |-> call.seen, error |-> call.error,
              delay |-> call.delay, sent |-> call.sent]
  BY DEF CallCounted
<1>2. call.at \in {"ready", "flowing", "pause"}
  BY DEF AttemptFails, Pause, GetReturns, StreamYields, StreamEnds, CallCounted
<1>3. call'.full = call.full /\ call'.request \in {call.request, trimmed}
  <2>1. CASE \E e : AttemptFails(e)
    <3>1. PICK e : GetFails(e) \/ StreamFails(e)
      BY <2>1 DEF AttemptFails
    <3>2. CASE GetFails(e)
      <4>1. \/ call' = [Again EXCEPT !.at = "pause", !.error = e]
            \/ call' = [Again EXCEPT !.at = "ready", !.error = e, !.round = 2,
                                     !.attempt = 1, !.request = trimmed]
            \/ call' = [call EXCEPT !.at = "raised", !.error = e, !.sent = @ + 1]
        BY <3>2 DEF GetFails
      <4> HIDE DEF trimmed
      <4> QED BY <1>1, <4>1 DEF Again
    <3>3. CASE StreamFails(e)
      <4>1. \/ call' = [Again EXCEPT !.at = "pause", !.error = e]
            \/ call' = [Again EXCEPT !.at = "ready", !.error = e, !.request = trimmed]
            \/ call' = [call EXCEPT !.at = "raised", !.error = e, !.sent = @ + 1]
        BY <3>3 DEF StreamFails
      <4> HIDE DEF trimmed
      <4> QED BY <1>1, <4>1 DEF Again
    <3> QED BY <3>1, <3>2, <3>3
  <2>2. CASE Pause
    BY <1>1, <2>2 DEF Pause
  <2>3. CASE GetReturns \/ StreamYields \/ StreamEnds
    BY <1>1, <2>3 DEF GetReturns, StreamYields, StreamEnds
  <2> QED BY <2>1, <2>2, <2>3
<1>4. /\ call.full \in Seq(Message)
      /\ \/ call.request = call.full /\ Chars(call.full) <= MaxTotal
         \/ call.request = trimmed
  BY <1>2 DEF CallTrimmed
<1> QED BY <1>3, <1>4 DEF CallTrimmed

(* The ResultGenerator is given messages.                                  *)
LEMMA GeneratorIsTrimmed ==
  ASSUME TalkShape, NEW n, GeneratorBegins(n)
  PROVE  CallTrimmed'
<1> DEFINE T == [who : Agent, says : Sayings \cup {None}, id : Nat \X Nat]
           read == Excerpt(heard.conversation, Excerpts[n])
<1>1. heard.conversation \in Seq(T)
  BY DEF TalkShape, Talk
<1> HIDE DEF T
<1>2. PICK S \in SUBSET (DOMAIN heard.conversation) : read = Sub(heard.conversation, S)
  BY DEF Excerpt
<1>3. Len(read) \in Nat
  BY <1>1, <1>2, SubOrder
<1>4. PICK size \in Size :
        CallBegins("get", [i \in 1..(Len(read) + 1) |->
                             [system |-> i = 1, text |-> i, size |-> size]])
  BY DEF GeneratorBegins
<1> HIDE DEF read
<1> DEFINE messages == [i \in 1..(Len(read) + 1) |->
                          [system |-> i = 1, text |-> i, size |-> size]]
<1>5. messages \in Seq(Message)
  <2>1. size \in Nat
    BY <1>4, ChatAssumption
  <2>2. \A i \in 1..(Len(read) + 1) :
          [system |-> i = 1, text |-> i, size |-> size] \in Message
    BY <1>3, <2>1 DEF Message
  <2>3. Len(read) + 1 \in Nat
    BY <1>3
  <2> QED BY <2>2, <2>3
<1> HIDE DEF messages
<1>6. CallBegins("get", messages)
  BY <1>4 DEF messages
<1> QED BY <1>5, <1>6, CallBeginsTrimmed

LEMMA TrimmedStep == CallCounted /\ TalkShape /\ CallTrimmed /\ [Next]_vars => CallTrimmed'
<1> SUFFICES ASSUME CallCounted, TalkShape, CallTrimmed, [Next]_vars PROVE CallTrimmed'
  OBVIOUS
<1>1. CASE UNCHANGED call
  BY <1>1 DEF CallTrimmed
<1>2. CASE TurnBegins
  BY <1>2, CallBeginsTrimmed, ChatAssumption DEF TurnBegins
<1>3. CASE Speaks \/ TurnEnds \/ SaysNothing \/ CallPauses \/ Generates \/ CallFails
  BY <1>3, CallGoesOnTrimmed
     DEF Speaks, TurnEnds, SaysNothing, CallPauses, Generates, CallFails
<1>4. CASE CallDropped
  BY <1>4 DEF CallDropped, NoCall, CallTrimmed
<1>5. CASE Concludes
  BY <1>4, <1>5, GeneratorIsTrimmed DEF Concludes
<1>6. CASE GeneratesAgain
  BY <1>6, GeneratorIsTrimmed DEF GeneratesAgain
<1> QED BY <1>1, <1>2, <1>3, <1>5, <1>6 DEF Next, Outputs, Tells, vars

(* The conversation stays one.                                             *)
LEMMA TalkStep == Shapes /\ CallCounted /\ TalkShape /\ [Next]_vars => TalkShape'
<1> SUFFICES ASSUME Shapes, CallCounted, TalkShape, [Next]_vars PROVE TalkShape'
  OBVIOUS
<1> DEFINE T == [who : Agent, says : Sayings \cup {None}, id : Nat \X Nat]
<1>1. /\ flow = [at |-> flow.at, speaker |-> flow.speaker, saying |-> flow.saying,
                 turns |-> flow.turns, spoken |-> flow.spoken, failures |-> flow.failures]
      /\ flow.speaker \in Agent
      /\ heard = [last |-> heard.last, chunks |-> heard.chunks,
                  conversation |-> heard.conversation]
      /\ call.sent \in Nat
  BY DEF Shapes, FlowShape, HeardShape, CallCounted
<1>2. /\ flow.saying \in Sayings \cup {None} /\ flow.turns \in Nat
      /\ flow.spoken \in Talk /\ heard.conversation \in Talk
  BY DEF TalkShape
<1>3. CASE UNCHANGED <<flow, heard>>
  BY <1>2, <1>3 DEF TalkShape
<1>4. CASE TurnBegins
  BY <1>1, <1>2, <1>4 DEF TurnBegins, TalkShape
<1>5. CASE Speaks
  <2>1. PICK says \in Says(flow.speaker) : Hears(says)
    BY <1>5 DEF Speaks
  <2>2. says \in Sayings
    BY <2>1, SayingsAssumption DEF Says, Sayings
  <2>3. /\ \E at : flow' = [flow EXCEPT !.saying = says, !.at = at]
        /\ \E chunks : heard' = [heard EXCEPT !.last = flow.speaker, !.chunks = chunks]
    BY <2>1 DEF Hears
  <2> QED BY <1>1, <1>2, <2>2, <2>3 DEF TalkShape
<1>6. CASE TurnEnds
  <2> DEFINE one == [who |-> flow.speaker, says |-> flow.saying,
                     id |-> <<flow.turns, call.sent>>]
  <2>1. one \in T
    BY <1>1, <1>2
  <2>2. Talk = Seq(T)
    BY DEF Talk
  <2>3. \E speaker : flow' = [flow EXCEPT !.at = "turn", !.speaker = speaker,
                                          !.spoken = Append(@, one)]
    BY <1>6 DEF TurnEnds
  <2>4. flow'.saying = flow.saying /\ flow'.turns = flow.turns
    BY <1>1, <2>3
  <2>5. flow'.spoken = Append(flow.spoken, one)
    BY <1>1, <2>3
  <2> HIDE DEF one, T
  <2>6. flow'.spoken \in Talk
    BY <1>2, <2>1, <2>2, <2>5
  <2> QED BY <1>2, <1>6, <2>4, <2>6 DEF TurnEnds, TalkShape
<1>7. CASE Outputs
  <2>1. flow' = [flow EXCEPT !.at = "ended"] /\ heard' = [heard EXCEPT !.conversation = flow.spoken]
    BY <1>7 DEF Outputs
  <2> QED BY <1>1, <1>2, <2>1 DEF TalkShape
<1>8. CASE CallFails \/ SaysNothing \/ CallPauses \/ Concludes \/ Generates \/ GeneratesAgain \/ Tells
  <2>1. /\ \/ \E at, failures : flow' = [flow EXCEPT !.failures = failures, !.at = at]
           \/ \E at : flow' = [flow EXCEPT !.at = at]
           \/ flow' = [flow EXCEPT !.at = "turn", !.speaker = "Coordinator"]
           \/ flow' = flow
        /\ heard' = heard
    BY <1>8 DEF CallFails, SaysNothing, CallPauses, Concludes, Ending, Generates,
       GeneratesAgain, Tells
  <2> QED BY <1>1, <1>2, <2>1 DEF TalkShape
<1> QED BY <1>3, <1>4, <1>5, <1>6, <1>7, <1>8 DEF Next, vars

-----------------------------------------------------------------------------
(* The theorems.                                                           *)

(* The inductive invariant.                                                *)
THEOREM ChatInvariantHolds == Spec => []ChatInvariant
<1> DEFINE IInv == ChatKept /\ CallCounted /\ TalkShape /\ CallTrimmed
<1>1. Init => IInv
  BY ChatInit
<1>2. IInv /\ [Next]_vars => IInv'
  BY ChatStep, CallStep, TalkStep, TrimmedStep DEF ChatKept
<1>3. IInv => ChatInvariant
  BY RequestFollows DEF ChatKept, ChatInvariant
<1> QED BY <1>1, <1>2, <1>3, PTL DEF Spec

(* However attempts fail, a call makes no more of them than it may, and    *)
(* gives up only when they are used up or none could have helped.          *)
THEOREM CallsGiveUpLate == Spec => []GivesUpLate
<1>1. ChatInvariant => GivesUpLate
  BY DEF ChatInvariant, CallCounted
<1> QED BY <1>1, ChatInvariantHolds, PTL

(* Whatever conversation an agent is called with, and however often the    *)
(* call is repeated, what is sent is some of its messages in their order:  *)
(* the leading system messages, and of the others the newest ones that     *)
(* repeat no text; it is never empty, and it fits, unless nothing but the  *)
(* leading system messages is left of it.                                  *)
THEOREM RequestsAreSound == Spec => []RequestIsSound
<1>1. ChatInvariant => RequestIsSound
  BY DEF ChatInvariant
<1> QED BY <1>1, ChatInvariantHolds, PTL

(* Whatever is trimmed away, the last message of the conversation is sent, *)
(* unless it repeats an earlier text or does not fit behind the system     *)
(* messages even when it is cut.                                           *)
THEOREM LastMessageSurvives == Spec => []LastSurvives
<1>1. ChatInvariant => LastSurvives
  BY DEF ChatInvariant
<1> QED BY <1>1, ChatInvariantHolds, PTL

(* However long the framework goes on giving turns, a run completes no     *)
(* more than max_rounds responses.                                         *)
THEOREM RoundsAreBounded == Spec => []RoundsBounded
<1>1. ChatInvariant => RoundsBounded
  BY DEF ChatInvariant
<1> QED BY <1>1, ChatInvariantHolds, PTL

(* A run stopped for a loop repeated the same selection three times with   *)
(* no response of a participant in between.                                *)
THEOREM LoopsAreReal == Spec => []LoopIsReal
<1>1. ChatInvariant => LoopIsReal
  BY DEF ChatInvariant
<1> QED BY <1>1, ChatInvariantHolds, PTL

(* No result is written up of a run that was blocked or forced to stop.    *)
THEOREM BlockedHasNoResult == Spec => []NoResultOfBlocked
<1>1. ChatInvariant => NoResultOfBlocked
  BY ChatAssumption DEF ChatInvariant, ResultAllowed, BlockKept, KeepsBlock, Blocked,
     NoResultOfBlocked
<1> QED BY <1>1, ChatInvariantHolds, PTL

(***************************************************************************)
(* Part two: document routing.                                             *)
(***************************************************************************)

(* The analyzers, told apart by the first element of their ids.            *)
LEMMA AnalyzerFacts ==
  /\ FirstVersion \in Versions
  /\ ImageAnalyzer \in Analyzer
  /\ \A vs \in Versions : /\ Router(vs) \in Analyzer /\ Router(vs) # ImageAnalyzer
                          /\ Nested(vs) \subseteq Analyzer
                          /\ Router(vs) \notin Nested(vs)
                          /\ ImageAnalyzer \notin Nested(vs)
  /\ \A c \in Class, vs \in Versions :
       /\ Extractor(c, vs) \in Analyzer /\ Extractor(c, vs) # ImageAnalyzer
       /\ \A ws \in Versions : Extractor(c, vs) # Router(ws)
  /\ Defaults \notin Analyzer
<1> USE RoutingAssumption
<1>1. FirstVersion \in Versions
  BY DEF FirstVersion
<1>2. ASSUME NEW c, NEW vs, NEW ws
      PROVE  /\ Extractor(c, vs) # ImageAnalyzer /\ Extractor(c, vs) # Router(ws)
             /\ Extractor(c, vs) # Defaults
             /\ Router(vs) # ImageAnalyzer /\ Router(vs) # Defaults
  BY DEF Extractor, ImageAnalyzer, Router, Defaults
<1>3. ImageAnalyzer # Defaults
  BY DEF ImageAnalyzer, Defaults
<1>4. RouterClass \subseteq Class
  BY DEF RouterClass
<1>5. /\ ImageAnalyzer \in Analyzer
      /\ \A vs \in Versions : Router(vs) \in Analyzer
      /\ \A c \in Class, vs \in Versions : Extractor(c, vs) \in Analyzer
  BY DEF Analyzer, Routers
<1>6. Defaults \notin Analyzer
  BY <1>2, <1>3 DEF Analyzer, Routers
<1> QED BY <1>1, <1>2, <1>4, <1>5, <1>6 DEF Nested

(* What stays true of the job that another becomes: it is of the right kind*)
(* and fits, of the same version or the first, and past the defaults only  *)
(* when the other was.                                                     *)
Fits(k) == k \in Job /\ FitsStage(k) /\ FitsEnvelope(k)
SameVersion(j, k) == k.vs \in {j.vs, FirstVersion}
Moves(j, k) == Fits(k) /\ SameVersion(j, k) /\ (PastDefaults(k) => PastDefaults(j))

(* What a stage asks of the analyzer it is entered with.                   *)
FitsTarget(j, stage, a) ==
  /\ stage = "image" => a = ImageAnalyzer
  /\ stage = "router" => a = Router(j.vs)
  /\ stage = "nested" => a \in Nested(j.vs) /\ j.todo \subseteq Nested(j.vs)
  /\ stage = "extract" => \E c \in Class, vs \in Versions : a = Extractor(c, vs)

LEMMA EnterFits ==
  ASSUME RoutingTypeOK, NEW j \in Job, j.envelope = NoEnvelope,
         NEW stage \in {"image", "router", "nested", "extract"},
         NEW a \in Analyzer, FitsTarget(j, stage, a)
  PROVE  /\ Fits(Enter(j, stage, a)) /\ SameVersion(j, Enter(j, stage, a))
         /\ PastDefaults(Enter(j, stage, a)) => stage = "nested"
<1> DEFINE k == Enter(j, stage, a)
<1> DEFINE first == IF a \in ensured[j.worker] THEN "post"
                    ELSE IF stage \in {"image", "router"} THEN "patch" ELSE "get"
<1>0. /\ k = [j EXCEPT !.stage = stage, !.target = a, !.forbidden = 0, !.step = first]
      /\ first \in {"post", "patch", "get"}
      /\ first = "get" => stage \notin {"image", "router"}
  BY DEF Enter
<1> HIDE DEF k, first
<1>1. k = [worker |-> j.worker, stage |-> stage, step |-> first, forbidden |-> 0,
           vs |-> j.vs, todo |-> j.todo, target |-> a, category |-> j.category,
           envelope |-> j.envelope]
  BY <1>0 DEF Job
<1>2. k.step = first
  BY <1>1
<1>3. k \in Job
  BY <1>0, <1>1, RoutingAssumption DEF Job, Step, Stage
<1>4. FitsStage(k) /\ FitsEnvelope(k) /\ k.vs = j.vs
  BY <1>0, <1>1 DEF FitsStage, FitsEnvelope, FitsTarget
<1>5. PastDefaults(k) => stage = "nested"
  BY <1>0, <1>1 DEF PastDefaults
<1> QED BY <1>3, <1>4, <1>5 DEF k, Fits, SameVersion

(* The result of a call, with its category and its envelope if it has one. *)
LEMMA ReturnsFits ==
  ASSUME NEW j \in Job, NEW step \in {"vision", "name", "classified", "laid"},
         j.envelope # NoEnvelope => /\ j.envelope.category = j.category
                                    /\ j.category \in Registered
                                    /\ step \in {"classified", "laid"}
  PROVE  Moves(j, Returns(j, step))
<1> DEFINE k == Returns(j, step)
<1>1. k = [worker |-> j.worker, stage |-> "image", step |-> step, forbidden |-> 0,
           vs |-> FirstVersion, todo |-> {}, target |-> ImageAnalyzer,
           category |-> j.category, envelope |-> j.envelope]
  <2> DEFINE u == Upload(j.worker)
  <2>1. u = [worker |-> j.worker, stage |-> "image", step |-> "idle", forbidden |-> 0,
             vs |-> FirstVersion, todo |-> {}, target |-> ImageAnalyzer,
             category |-> Other, envelope |-> NoEnvelope]
    BY DEF Upload
  <2>2. k = [u EXCEPT !.step = step, !.category = j.category, !.envelope = j.envelope]
    BY DEF Returns
  <2> HIDE DEF u, k
  <2> QED BY <2>1, <2>2
<1>2. k \in Job
  BY <1>1, RoutingAssumption, AnalyzerFacts DEF Job, Step, Stage
<1> HIDE DEF k
<1>3. FitsStage(k) /\ FitsEnvelope(k)
  BY <1>1 DEF FitsStage, FitsEnvelope
<1>4. ~PastDefaults(k) /\ k.vs = FirstVersion
  BY <1>1 DEF PastDefaults
<1> QED BY <1>2, <1>3, <1>4 DEF k, Moves, Fits, SameVersion

LEMMA DoneFits ==
  ASSUME NEW j \in Job, NEW step \in {"extracted", "scored", "failed", "hung"}
  PROVE  Moves(j, Done(j, step))
<1> DEFINE k == Done(j, step)
<1>1. k = [worker |-> j.worker, stage |-> "image", step |-> step, forbidden |-> 0,
           vs |-> FirstVersion, todo |-> {}, target |-> ImageAnalyzer,
           category |-> Other, envelope |-> NoEnvelope]
  BY DEF Done, Upload
<1>2. k \in Job
  BY <1>1, RoutingAssumption, AnalyzerFacts DEF Job, Step, Stage
<1> HIDE DEF k
<1>3. FitsStage(k) /\ FitsEnvelope(k)
  BY <1>1 DEF FitsStage, FitsEnvelope
<1>4. ~PastDefaults(k) /\ k.vs = FirstVersion
  BY <1>1 DEF PastDefaults
<1> QED BY <1>2, <1>3, <1>4 DEF k, Moves, Fits, SameVersion

LEMMA FinishedFits ==
  ASSUME NEW j \in Job,
         j.envelope # NoEnvelope => /\ j.envelope.category = j.category
                                    /\ j.category \in Registered
  PROVE  Moves(j, Finished(j))
BY ReturnsFits DEF Finished

(* The nested extractors are asked for in turn, then their router.         *)
LEMMA NextNestedFits ==
  ASSUME RoutingTypeOK, NEW j \in Job, j.envelope = NoEnvelope,
         j.todo \subseteq Nested(j.vs)
  PROVE  Fits(NextNested(j)) /\ SameVersion(j, NextNested(j))
<1>0. j.vs \in Versions
  BY DEF Job
<1>1. CASE j.todo = {}
  <2> DEFINE r == Router(j.vs)
             k == [j EXCEPT !.stage = "router", !.target = r, !.step = "put"]
  <2> HIDE DEF r
  <2>1. r \in Analyzer /\ "router" \in Stage /\ "put" \in Step
    BY <1>0, AnalyzerFacts DEF Stage, Step, r
  <2>4. k = [j EXCEPT !.stage = "router", !.target = r, !.step = "put"]
    OBVIOUS
  <2> HIDE DEF k
  <2>2. /\ k \in Job /\ k.stage = "router" /\ k.step = "put" /\ k.vs = j.vs
        /\ k.target = r /\ k.envelope = NoEnvelope
    BY <2>1, <2>4 DEF Job
  <2>3. FitsStage(k) /\ FitsEnvelope(k) /\ k.vs = j.vs
    BY <2>2 DEF FitsStage, FitsEnvelope, r
  <2> QED BY <1>1, <2>2, <2>3 DEF k, r, NextNested, Fits, SameVersion
<1>2. CASE j.todo # {}
  <2> DEFINE a == CHOOSE b \in j.todo : TRUE
             i == [j EXCEPT !.todo = @ \ {a}]
  <2>1. a \in j.todo
    BY <1>2
  <2> HIDE DEF a
  <2> DEFINE rest == j.todo \ {a}
  <2>6. i = [j EXCEPT !.todo = rest]
    OBVIOUS
  <2>0. rest \in SUBSET Analyzer /\ rest \subseteq Nested(j.vs)
    BY DEF Job
  <2> HIDE DEF i, rest
  <2>2. i \in Job /\ i.vs = j.vs /\ i.envelope = NoEnvelope /\ i.todo \subseteq Nested(i.vs)
    BY <2>0, <2>6 DEF Job
  <2>3. a \in Analyzer /\ FitsTarget(i, "nested", a)
    BY <2>1, <2>2 DEF FitsTarget, Job
  <2>4. Fits(Enter(i, "nested", a)) /\ SameVersion(i, Enter(i, "nested", a))
    BY <2>2, <2>3, EnterFits
  <2>5. NextNested(j) = Enter(i, "nested", a)
    BY <1>2 DEF NextNested, a, i
  <2> QED BY <2>2, <2>4, <2>5 DEF SameVersion
<1> QED BY <1>1, <1>2

(* A job past the defaults whose target is taken to be there.              *)
LEMMA ReadyFits ==
  ASSUME RoutingTypeOK, NEW j, Fits(j), j.envelope = NoEnvelope,
         j.stage # "layout", j.step \in {"get", "put", "wait"}
  PROVE  Moves(j, Ready(j))
<1>0. j \in Job /\ FitsStage(j)
  BY DEF Fits
<1>1. CASE j.stage = "nested"
  <2>1. Fits(NextNested(j)) /\ SameVersion(j, NextNested(j))
    BY <1>0, <1>1, NextNestedFits DEF FitsStage
  <2> QED BY <1>1, <2>1 DEF Ready, Moves, PastDefaults
<1>2. CASE j.stage # "nested"
  <2> DEFINE k == [j EXCEPT !.step = "post"]
  <2>1. k = [worker |-> j.worker, stage |-> j.stage, step |-> "post",
             forbidden |-> j.forbidden, vs |-> j.vs, todo |-> j.todo,
             target |-> j.target, category |-> j.category, envelope |-> j.envelope]
    BY <1>0 DEF Job
  <2>2. k \in Job
    BY <1>0, <2>1 DEF Job, Step
  <2> HIDE DEF k
  <2>3. FitsStage(k) /\ FitsEnvelope(k) /\ k.vs = j.vs /\ ~PastDefaults(k)
    BY <1>0, <2>1 DEF FitsStage, FitsEnvelope, PastDefaults
  <2> QED BY <1>2, <2>2, <2>3 DEF k, Ready, Moves, Fits, SameVersion
<1> QED BY <1>1, <1>2

(* An exception: the next stage, the vision model, or the end of the step. *)
LEMMA RaisedFits ==
  ASSUME RoutingTypeOK, NEW d \in Doc, NEW j, Fits(j), j.step \in {"put", "wait", "post", "poll"}
  PROVE  Moves(j, Raised(d, j))
<1>0. j \in Job /\ FitsStage(j) /\ FitsEnvelope(j)
  BY DEF Fits
<1>1. CASE j.stage \in {"layout", "extract"}
  BY <1>0, <1>1, DoneFits DEF Raised
<1>2. CASE j.stage = "image"
  <2> DEFINE i == [j EXCEPT !.category = Other]
  <2>1. j.envelope = NoEnvelope
    BY <1>0, <1>2 DEF FitsEnvelope
  <2>2. i \in Job /\ i.vs = j.vs /\ i.envelope = NoEnvelope
    BY <1>0, <2>1 DEF Job
  <2>3. Router(j.vs) \in Analyzer /\ FitsTarget(i, "router", Router(j.vs))
    BY <1>0, <2>2, AnalyzerFacts DEF FitsTarget, Job
  <2> HIDE DEF i
  <2>4. /\ Fits(Enter(i, "router", Router(j.vs)))
        /\ SameVersion(i, Enter(i, "router", Router(j.vs)))
        /\ ~PastDefaults(Enter(i, "router", Router(j.vs)))
    BY <2>2, <2>3, EnterFits
  <2>5. Raised(d, j) = Enter(i, "router", Router(j.vs))
    BY <1>2 DEF Raised, i
  <2> QED BY <2>2, <2>4, <2>5 DEF Moves, SameVersion
<1>3. CASE j.stage \in {"router", "nested"}
  <2>1. j.envelope = NoEnvelope
    BY <1>0, <1>3 DEF FitsEnvelope
  <2>2. CASE d \in Image
    BY <1>0, <1>3, <2>1, <2>2, FinishedFits DEF Raised
  <2>3. CASE d \notin Image
    <3> DEFINE i == [j EXCEPT !.category = Other]
    <3>1. i \in Job /\ i.vs = j.vs /\ i.envelope = NoEnvelope
      BY <1>0, <2>1 DEF Job
    <3>2. PastDefaults(i) = PastDefaults(j)
      BY <1>0 DEF PastDefaults, Job
    <3> HIDE DEF i
    <3>3. Moves(i, Returns(i, "vision"))
      BY <3>1, ReturnsFits
    <3>4. Raised(d, j) = Returns(i, "vision")
      BY <1>3, <2>3 DEF Raised, i
    <3> QED BY <3>1, <3>2, <3>3, <3>4 DEF Moves, SameVersion
  <2> QED BY <2>2, <2>3
<1> QED BY <1>0, <1>1, <1>2, <1>3 DEF Job, Stage

-----------------------------------------------------------------------------
(* A job that only makes a step, in the stage it is in.                    *)
LEMMA StepFits ==
  ASSUME NEW j, Fits(j), NEW step \in Step, NEW k, k = [j EXCEPT !.step = step],
         step \in {"list"} => j.stage = "router",
         step # "sweep", step = "drop" => j.target = ImageAnalyzer,
         j.stage = "layout" => step \in {"post", "poll"},
         j.envelope # NoEnvelope => step \in {"classified", "laid"} \/ j.stage = "layout",
         PastDefaults(k) => PastDefaults(j)
  PROVE  Moves(j, k)
<1>1. j \in Job /\ FitsStage(j) /\ FitsEnvelope(j)
  BY DEF Fits
<1>2. /\ k \in Job /\ k.stage = j.stage /\ k.step = step /\ k.vs = j.vs /\ k.todo = j.todo
      /\ k.target = j.target /\ k.category = j.category /\ k.envelope = j.envelope
  BY <1>1 DEF Job
<1>3. FitsStage(k)
  BY <1>1, <1>2 DEF FitsStage
<1>4. FitsEnvelope(k)
  BY <1>1, <1>2 DEF FitsEnvelope
<1> QED BY <1>2, <1>3, <1>4 DEF Moves, Fits, SameVersion

(* A router that is missing, or could not be asked for, first needs its    *)
(* extractors; anything else is created at once.                           *)
LEMMA MissFits ==
  ASSUME RoutingTypeOK, NEW j, Fits(j), j.step = "get"
  PROVE  Moves(j, IF j.stage = "router"
                  THEN NextNested([j EXCEPT !.todo = Nested(j.vs)])
                  ELSE [j EXCEPT !.step = "put"])
<1>0. j \in Job /\ FitsStage(j) /\ FitsEnvelope(j)
  BY DEF Fits
<1>1. j.envelope = NoEnvelope /\ j.stage # "layout"
  BY <1>0 DEF FitsEnvelope, FitsStage
<1>2. CASE j.stage = "router"
  <2> DEFINE n == Nested(j.vs)
  <2>0. n \in SUBSET Analyzer
    BY <1>0, AnalyzerFacts DEF Job
  <2> HIDE DEF n
  <2> DEFINE i == [j EXCEPT !.todo = n]
  <2>1. i \in Job /\ i.vs = j.vs /\ i.envelope = NoEnvelope /\ i.todo = n
    BY <1>0, <1>1, <2>0 DEF Job
  <2> HIDE DEF i
  <2>2. Fits(NextNested(i)) /\ SameVersion(i, NextNested(i))
    BY <2>1, NextNestedFits DEF n
  <2>3. PastDefaults(j)
    BY <1>2 DEF PastDefaults
  <2> QED BY <1>2, <2>1, <2>2, <2>3 DEF i, n, Moves, SameVersion
<1>3. CASE j.stage # "router"
  <2> DEFINE k == [j EXCEPT !.step = "put"]
  <2>1. k = [j EXCEPT !.step = "put"] /\ "put" \in Step
    BY DEF Step
  <2>2. PastDefaults(k) => PastDefaults(j)
    BY <1>0 DEF PastDefaults, Job
  <2> HIDE DEF k
  <2>3. Moves(j, k)
    BY <1>1, <2>1, <2>2, StepFits
  <2> QED BY <1>3, <2>3 DEF k
<1> QED BY <1>2, <1>3

-----------------------------------------------------------------------------
(* What every action does to the job it is about.                          *)
JobGoes(d) ==
  \E k : /\ Fits(k) /\ (past.edits = 0 => k.vs = FirstVersion)
         /\ PastDefaults(k) => PastDefaults(job[d]) \/ job[d].step = "patch"
         /\ Goto(d, k)

LEMMA MovesGo ==
  ASSUME RoutingInvariant, NEW d \in Doc, NEW k, Moves(job[d], k), Goto(d, k)
  PROVE  JobGoes(d)
BY DEF RoutingInvariant, OneVersion, Moves, SameVersion, JobGoes

LEMMA JobFacts ==
  ASSUME RoutingInvariant, NEW d \in Doc
  PROVE  /\ RoutingTypeOK /\ Fits(job[d]) /\ job[d] \in Job
         /\ FitsStage(job[d]) /\ FitsEnvelope(job[d])
         /\ past.edits = 0 => job[d].vs = FirstVersion /\ version = FirstVersion
         /\ version \in Versions
BY DEF RoutingInvariant, RoutingTypeOK, OneVersion, Fits

LEMMA BuildRouterGoes ==
  ASSUME RoutingInvariant, NEW d \in Doc, BuildRouter(d)
  PROVE  JobGoes(d)
<1> DEFINE j == job[d]
           i == [j EXCEPT !.vs = version]
<1>0. /\ RoutingTypeOK /\ j \in Job /\ FitsStage(j) /\ FitsEnvelope(j) /\ version \in Versions
      /\ past.edits = 0 => version = FirstVersion
  BY JobFacts
<1>1. j.step = "idle"
  BY DEF BuildRouter
<1>2. Goto(d, IF d \in Image THEN Enter(i, "image", ImageAnalyzer)
                   ELSE Enter(i, "router", Router(version)))
  BY DEF BuildRouter
<1>3. j.envelope = NoEnvelope
  BY <1>0, <1>1 DEF FitsEnvelope, FitsStage
<1> HIDE DEF j
<1>4. i \in Job /\ i.vs = version /\ i.envelope = NoEnvelope
  BY <1>0, <1>3 DEF Job
<1> HIDE DEF i
<1>5. CASE d \in Image
  <2> DEFINE k == Enter(i, "image", ImageAnalyzer)
  <2>1. Fits(k) /\ SameVersion(i, k) /\ ~PastDefaults(k)
    BY <1>0, <1>4, EnterFits, AnalyzerFacts DEF FitsTarget
  <2>2. Goto(d, k)
    BY <1>2, <1>5
  <2> QED BY <1>0, <1>4, <2>1, <2>2 DEF JobGoes, SameVersion
<1>6. CASE d \notin Image
  <2> DEFINE k == Enter(i, "router", Router(version))
  <2>1. Fits(k) /\ SameVersion(i, k) /\ ~PastDefaults(k)
    BY <1>0, <1>4, EnterFits, AnalyzerFacts DEF FitsTarget
  <2>2. Goto(d, k)
    BY <1>2, <1>6
  <2> QED BY <1>0, <1>4, <2>1, <2>2 DEF JobGoes, SameVersion
<1> QED BY <1>5, <1>6

LEMMA PatchDefaultsGoes ==
  ASSUME RoutingInvariant, NEW d \in Doc, PatchDefaults(d)
  PROVE  JobGoes(d)
<1> DEFINE j == job[d]
           k == [j EXCEPT !.step = "get"]
<1>0. /\ j \in Job /\ FitsStage(j) /\ FitsEnvelope(j)
      /\ past.edits = 0 => j.vs = FirstVersion
  BY JobFacts
<1>1. j.step = "patch" /\ Goto(d, k)
  BY DEF PatchDefaults
<1> HIDE DEF j
<1>2. /\ k \in Job /\ k.stage = j.stage /\ k.step = "get" /\ k.vs = j.vs
      /\ k.todo = j.todo /\ k.target = j.target /\ k.envelope = j.envelope
  BY <1>0 DEF Job, Step
<1> HIDE DEF k
<1>3. FitsStage(k) /\ FitsEnvelope(k)
  BY <1>0, <1>1, <1>2 DEF FitsStage, FitsEnvelope
<1> QED BY <1>0, <1>1, <1>2, <1>3 DEF JobGoes, Fits, j

(* The answers to the calls that ensure an analyzer.                       *)
LEMMA GetAnalyzerGoes ==
  ASSUME RoutingInvariant, NEW d \in Doc, GetAnalyzer(d)
  PROVE  JobGoes(d)
<1> DEFINE j == job[d]
<1>0. /\ RoutingTypeOK /\ Fits(j) /\ j \in Job /\ FitsStage(j) /\ FitsEnvelope(j)
  BY JobFacts
<1>1. j.step = "get"
  BY DEF GetAnalyzer
<1>2. j.envelope = NoEnvelope /\ j.stage # "layout"
  BY <1>0, <1>1 DEF FitsEnvelope, FitsStage
<1>3. CASE Exists(j.target) /\ cu[j.target] = "wrong"
  <2> DEFINE k == [j EXCEPT !.step = "drop"]
  <2>1. Goto(d, k)
    BY <1>3 DEF GetAnalyzer
  <2>2. j.target = ImageAnalyzer
    BY <1>0, <1>3 DEF RoutingInvariant, WrongShapeIsImage, Job
  <2> HIDE DEF j
  <2>3. k = [j EXCEPT !.step = "drop"] /\ "drop" \in Step /\ (PastDefaults(k) => PastDefaults(j))
    BY <1>0, <1>1 DEF Step, PastDefaults, Job
  <2> HIDE DEF k
  <2>4. Moves(j, k)
    BY <1>0, <1>2, <2>2, <2>3, StepFits
  <2> QED BY <2>1, <2>4, MovesGo DEF j
<1>4. CASE Exists(j.target) /\ cu[j.target] # "wrong"
  <2>1. Goto(d, Ready(j))
    BY <1>4 DEF GetAnalyzer
  <2> QED BY <1>0, <1>1, <1>2, <2>1, ReadyFits, MovesGo
<1>5. CASE ~Exists(j.target)
  <2> DEFINE k == IF j.stage = "router"
                  THEN NextNested([j EXCEPT !.todo = Nested(j.vs)])
                  ELSE [j EXCEPT !.step = "put"]
  <2>1. Goto(d, k)
    BY <1>5 DEF GetAnalyzer
  <2>2. Moves(j, k)
    BY <1>0, <1>1, MissFits
  <2> HIDE DEF k
  <2> QED BY <2>1, <2>2, MovesGo
<1> QED BY <1>3, <1>4, <1>5

LEMMA GetRaisesGoes ==
  ASSUME RoutingInvariant, NEW d \in Doc, GetRaises(d)
  PROVE  JobGoes(d)
<1> DEFINE j == job[d]
           k == IF j.stage = "router"
                THEN NextNested([j EXCEPT !.todo = Nested(j.vs)])
                ELSE [j EXCEPT !.step = "put"]
<1>1. RoutingTypeOK /\ Fits(j) /\ j.step = "get" /\ Goto(d, k)
  BY JobFacts DEF GetRaises
<1>2. Moves(j, k)
  BY <1>1, MissFits
<1> HIDE DEF k
<1> QED BY <1>1, <1>2, MovesGo

LEMMA DropWrongShapeGoes ==
  ASSUME RoutingInvariant, NEW d \in Doc, DropWrongShape(d)
  PROVE  JobGoes(d)
<1> DEFINE j == job[d]
           k == [j EXCEPT !.step = "put"]
<1>0. /\ Fits(j) /\ j \in Job /\ FitsStage(j) /\ FitsEnvelope(j)
  BY JobFacts
<1>1. j.step = "drop" /\ Goto(d, k)
  BY DEF DropWrongShape
<1> HIDE DEF j
<1>2. j.envelope = NoEnvelope /\ j.stage # "layout"
  BY <1>0, <1>1 DEF FitsEnvelope, FitsStage
<1>3. k = [j EXCEPT !.step = "put"] /\ "put" \in Step /\ (PastDefaults(k) => PastDefaults(j))
  BY <1>0, <1>1 DEF Step, PastDefaults, Job
<1> HIDE DEF k
<1>4. Moves(j, k)
  BY <1>0, <1>2, <1>3, StepFits
<1> QED BY <1>1, <1>4, MovesGo DEF j

LEMMA PutAnalyzerGoes ==
  ASSUME RoutingInvariant, NEW d \in Doc, PutAnalyzer(d)
  PROVE  JobGoes(d)
<1> DEFINE j == job[d]
<1>0. /\ RoutingTypeOK /\ Fits(j) /\ j \in Job /\ FitsStage(j) /\ FitsEnvelope(j)
  BY JobFacts
<1>1. j.step = "put"
  BY DEF PutAnalyzer
<1>2. j.envelope = NoEnvelope /\ j.stage # "layout"
  BY <1>0, <1>1 DEF FitsEnvelope, FitsStage
<1>3. CASE Exists(j.target)
  <2>1. Goto(d, Ready(j))
    BY <1>3 DEF PutAnalyzer
  <2> QED BY <1>0, <1>1, <1>2, <2>1, ReadyFits, MovesGo
<1>4. CASE ~Exists(j.target) /\ Refused(j)
  <2>1. Goto(d, Raised(d, j))
    BY <1>4 DEF PutAnalyzer
  <2> QED BY <1>0, <1>1, <2>1, RaisedFits, MovesGo
<1>5. CASE ~Exists(j.target) /\ ~Refused(j)
  <2> DEFINE k == [j EXCEPT !.step = "wait"]
  <2>1. Goto(d, k)
    BY <1>5 DEF PutAnalyzer
  <2> HIDE DEF j
  <2>2. k = [j EXCEPT !.step = "wait"] /\ "wait" \in Step /\ (PastDefaults(k) => PastDefaults(j))
    BY <1>0, <1>1 DEF Step, PastDefaults, Job
  <2> HIDE DEF k
  <2>3. Moves(j, k)
    BY <1>0, <1>2, <2>2, StepFits
  <2> QED BY <2>1, <2>3, MovesGo DEF j
<1> QED BY <1>3, <1>4, <1>5

LEMMA WaitGoes ==
  ASSUME RoutingInvariant, NEW d \in Doc, WaitSucceeds(d) \/ WaitRaises(d)
  PROVE  JobGoes(d)
<1> DEFINE j == job[d]
           k == [j EXCEPT !.step = "list"]
<1>0. /\ RoutingTypeOK /\ Fits(j) /\ j \in Job /\ FitsStage(j) /\ FitsEnvelope(j)
  BY JobFacts
<1>1. j.step = "wait"
  BY DEF WaitSucceeds, WaitRaises
<1>2. j.envelope = NoEnvelope /\ j.stage # "layout"
  BY <1>0, <1>1 DEF FitsEnvelope, FitsStage
<1>3. CASE WaitSucceeds(d) /\ j.stage = "router"
  <2>1. Goto(d, k)
    BY <1>3 DEF WaitSucceeds
  <2> HIDE DEF j
  <2>2. k = [j EXCEPT !.step = "list"] /\ "list" \in Step /\ ~PastDefaults(k)
    BY <1>0, <1>1 DEF Step, PastDefaults, Job
  <2> HIDE DEF k
  <2>3. Moves(j, k)
    BY <1>0, <1>2, <1>3, <2>2, StepFits
  <2> QED BY <2>1, <2>3, MovesGo DEF j
<1>4. CASE WaitSucceeds(d) /\ j.stage # "router"
  <2>1. Goto(d, Ready(j))
    BY <1>4 DEF WaitSucceeds
  <2> QED BY <1>0, <1>1, <1>2, <2>1, ReadyFits, MovesGo
<1>5. CASE WaitRaises(d)
  <2>1. Goto(d, Raised(d, j))
    BY <1>5 DEF WaitRaises
  <2> QED BY <1>0, <1>1, <2>1, RaisedFits, MovesGo
<1> QED BY <1>3, <1>4, <1>5

(* A call that fails, or an analysis that ends badly or not at all.        *)
LEMMA RaisesGoes ==
  ASSUME RoutingInvariant, NEW d \in Doc,
         RequestFails(d) \/ PollLate(d) \/ RouterAnswersNothing(d)
  PROVE  JobGoes(d)
<1>1. /\ RoutingTypeOK /\ Fits(job[d]) /\ Goto(d, Raised(d, job[d]))
      /\ job[d].step \in {"put", "post", "poll"}
  BY JobFacts DEF RequestFails, PollLate, RouterAnswersNothing, At
<1> QED BY <1>1, RaisedFits, MovesGo

(* A sweep is for the analyzers that are not the router's own.             *)
LEMMA ListAnalyzersGoes ==
  ASSUME RoutingInvariant, NEW d \in Doc, ListAnalyzers(d)
  PROVE  JobGoes(d)
<1> DEFINE j == job[d]
<1>0. /\ Fits(j) /\ j \in Job /\ FitsStage(j) /\ FitsEnvelope(j)
  BY JobFacts
<1>1. j.step = "list"
  BY DEF ListAnalyzers
<1>2. j.envelope = NoEnvelope /\ j.stage = "router"
  BY <1>0, <1>1 DEF FitsEnvelope, FitsStage
<1>3. CASE Goto(d, [j EXCEPT !.step = "sweep", !.todo = Stale(j)])
  <2> DEFINE s == Stale(j)
             k == [j EXCEPT !.step = "sweep", !.todo = s]
  <2>1. s \in SUBSET Analyzer /\ s \cap Keep(j) = {}
    BY DEF Stale
  <2>2. Goto(d, k)
    BY <1>3
  <2> HIDE DEF j, s
  <2>3. /\ k \in Job /\ k.stage = j.stage /\ k.step = "sweep" /\ k.vs = j.vs
        /\ k.todo = s /\ k.target = j.target /\ k.envelope = NoEnvelope
    BY <1>0, <1>2, <2>1 DEF Job, Step
  <2> HIDE DEF k
  <2>4. Keep(k) = Keep(j)
    BY <2>3 DEF Keep
  <2>5. FitsStage(k) /\ FitsEnvelope(k) /\ ~PastDefaults(k)
    BY <1>0, <1>2, <2>1, <2>3, <2>4 DEF FitsStage, FitsEnvelope, PastDefaults
  <2>6. Moves(j, k)
    BY <2>3, <2>5 DEF Moves, Fits, SameVersion
  <2> QED BY <2>2, <2>6, MovesGo DEF j
<1>4. CASE Goto(d, [j EXCEPT !.step = "post"])
  <2> DEFINE k == [j EXCEPT !.step = "post"]
  <2>1. Goto(d, k)
    BY <1>4
  <2> HIDE DEF j
  <2>2. k = [j EXCEPT !.step = "post"] /\ "post" \in Step /\ ~PastDefaults(k)
    BY <1>0 DEF Step, PastDefaults, Job
  <2> HIDE DEF k
  <2>3. Moves(j, k)
    BY <1>0, <1>2, <2>2, StepFits
  <2> QED BY <2>1, <2>3, MovesGo DEF j
<1> QED BY <1>3, <1>4 DEF ListAnalyzers

LEMMA SweepOneGoes ==
  ASSUME RoutingInvariant, NEW d \in Doc, SweepOne(d)
  PROVE  JobGoes(d)
<1> DEFINE j == job[d]
<1>0. /\ Fits(j) /\ j \in Job /\ FitsStage(j) /\ FitsEnvelope(j)
  BY JobFacts
<1>1. j.step = "sweep"
  BY DEF SweepOne
<1>2. j.envelope = NoEnvelope /\ j.stage = "router" /\ j.todo \cap Keep(j) = {}
  BY <1>0, <1>1 DEF FitsEnvelope, FitsStage
<1>3. PICK a \in j.todo : Goto(d, [j EXCEPT !.todo = @ \ {a}])
  BY DEF SweepOne
<1> DEFINE s == j.todo \ {a}
           k == [j EXCEPT !.todo = s]
<1>4. Goto(d, k)
  BY <1>3
<1>5. s \in SUBSET Analyzer /\ s \cap Keep(j) = {}
  BY <1>0, <1>2 DEF Job
<1> HIDE DEF j, s
<1>6. /\ k \in Job /\ k.stage = j.stage /\ k.step = "sweep" /\ k.vs = j.vs
      /\ k.todo = s /\ k.target = j.target /\ k.envelope = NoEnvelope
  BY <1>0, <1>1, <1>2, <1>5 DEF Job
<1> HIDE DEF k
<1>7. Keep(k) = Keep(j)
  BY <1>6 DEF Keep
<1>8. FitsStage(k) /\ FitsEnvelope(k) /\ ~PastDefaults(k)
  BY <1>0, <1>2, <1>5, <1>6, <1>7 DEF FitsStage, FitsEnvelope, PastDefaults
<1>9. Moves(j, k)
  BY <1>6, <1>8 DEF Moves, Fits, SameVersion
<1> QED BY <1>4, <1>9, MovesGo DEF j

LEMMA SweepEndsGoes ==
  ASSUME RoutingInvariant, NEW d \in Doc, SweepEnds(d)
  PROVE  JobGoes(d)
<1> DEFINE j == job[d]
           k == [j EXCEPT !.step = "post"]
<1>0. /\ Fits(j) /\ j \in Job /\ FitsStage(j) /\ FitsEnvelope(j)
  BY JobFacts
<1>1. j.step = "sweep" /\ Goto(d, k)
  BY DEF SweepEnds
<1>2. j.envelope = NoEnvelope /\ j.stage = "router"
  BY <1>0, <1>1 DEF FitsEnvelope, FitsStage
<1> HIDE DEF j
<1>3. k = [j EXCEPT !.step = "post"] /\ "post" \in Step /\ ~PastDefaults(k)
  BY <1>0 DEF Step, PastDefaults, Job
<1> HIDE DEF k
<1>4. Moves(j, k)
  BY <1>0, <1>2, <1>3, StepFits
<1> QED BY <1>1, <1>4, MovesGo DEF j

(* The calls of an analysis leave all but the count of 403 answers.        *)
LEMMA PollStays ==
  ASSUME RoutingInvariant, NEW d \in Doc, NEW k \in Job, Goto(d, k),
         job[d].step \in {"post", "poll"}, k.step = "poll",
         k.stage = job[d].stage, k.vs = job[d].vs, k.todo = job[d].todo,
         k.target = job[d].target, k.category = job[d].category,
         k.envelope = job[d].envelope
  PROVE  JobGoes(d)
<1>1. FitsStage(job[d]) /\ FitsEnvelope(job[d])
  BY JobFacts
<1>2. FitsStage(k)
  BY <1>1 DEF FitsStage
<1>3. FitsEnvelope(k)
  BY <1>1 DEF FitsEnvelope
<1>4. ~PastDefaults(k)
  BY DEF PastDefaults
<1> QED BY <1>2, <1>3, <1>4, MovesGo DEF Moves, Fits, SameVersion

LEMMA PostAnalyzeGoes ==
  ASSUME RoutingInvariant, NEW d \in Doc, PostAnalyze(d)
  PROVE  JobGoes(d)
<1> DEFINE j == job[d]
<1>0. RoutingTypeOK /\ Fits(j) /\ j \in Job /\ j.step = "post"
  BY JobFacts DEF PostAnalyze
<1>1. CASE Analyzes(j)
  <2> DEFINE k == [j EXCEPT !.step = "poll", !.forbidden = 0]
  <2>1. Goto(d, k)
    BY <1>1 DEF PostAnalyze
  <2> HIDE DEF j
  <2>3. 0 \in 0..MaxForbidden /\ "poll" \in Step
    BY RoutingAssumption DEF Step
  <2>2. /\ k \in Job /\ k.stage = j.stage /\ k.step = "poll" /\ k.vs = j.vs /\ k.todo = j.todo
        /\ k.target = j.target /\ k.category = j.category /\ k.envelope = j.envelope
    BY <1>0, <2>3 DEF Job
  <2> HIDE DEF k
  <2> QED BY <1>0, <2>1, <2>2, PollStays DEF j
<1>2. CASE ~Analyzes(j)
  <2>1. Goto(d, Raised(d, j))
    BY <1>2 DEF PostAnalyze
  <2> QED BY <1>0, <2>1, RaisedFits, MovesGo
<1> QED BY <1>1, <1>2

LEMMA PollGoes ==
  ASSUME RoutingInvariant, NEW d \in Doc, PollForbidden(d) \/ PollRunning(d)
  PROVE  JobGoes(d)
<1> DEFINE j == job[d]
<1>0. RoutingTypeOK /\ Fits(j) /\ j \in Job /\ j.step = "poll"
  BY JobFacts DEF PollForbidden, PollRunning, At
<1>1. CASE PollForbidden(d) /\ ~Tolerated(j.forbidden)
  <2>1. Goto(d, Raised(d, j))
    BY <1>1 DEF PollForbidden
  <2> QED BY <1>0, <2>1, RaisedFits, MovesGo
<1>2. ASSUME NEW n \in 0..MaxForbidden, Goto(d, [j EXCEPT !.forbidden = n])
      PROVE  JobGoes(d)
  <2> DEFINE k == [j EXCEPT !.forbidden = n]
  <2>1. Goto(d, k)
    BY <1>2
  <2> HIDE DEF j
  <2>2. /\ k \in Job /\ k.stage = j.stage /\ k.step = "poll" /\ k.vs = j.vs /\ k.todo = j.todo
        /\ k.target = j.target /\ k.category = j.category /\ k.envelope = j.envelope
    BY <1>0 DEF Job
  <2> HIDE DEF k
  <2> QED BY <1>0, <2>1, <2>2, PollStays DEF j
<1>3. CASE PollForbidden(d) /\ Tolerated(j.forbidden)
  <2>1. Goto(d, [j EXCEPT !.forbidden = j.forbidden + 1])
    BY <1>3 DEF PollForbidden
  <2>2. j.forbidden \in 0..MaxForbidden
    BY <1>0 DEF Job
  <2>3. j.forbidden + 1 \in 0..MaxForbidden
    BY <1>3, <2>2, RoutingAssumption DEF Tolerated
  <2> QED BY <1>2, <2>1, <2>3
<1>4. CASE PollRunning(d)
  <2>1. Goto(d, [j EXCEPT !.forbidden = 0]) /\ 0 \in 0..MaxForbidden
    BY <1>4, RoutingAssumption DEF PollRunning
  <2> QED BY <1>2, <2>1
<1> QED BY <1>1, <1>3, <1>4

-----------------------------------------------------------------------------
(* The answers that decide what the document is.                           *)
LEMMA ImageAnswersGoes ==
  ASSUME RoutingInvariant, NEW d \in Doc, ImageAnswers(d)
  PROVE  JobGoes(d)
<1> DEFINE j == job[d]
<1>0. /\ RoutingTypeOK /\ j \in Job /\ FitsEnvelope(j)
      /\ past.edits = 0 => j.vs = FirstVersion
  BY JobFacts
<1>1. j.stage = "image" /\ j.step = "poll" /\ j.envelope = NoEnvelope
  BY <1>0 DEF ImageAnswers, At, FitsEnvelope
<1>2. PICK c \in Class \cup {Other} :
        LET i == [j EXCEPT !.category = c]
        IN Goto(d, IF c = DamagePhoto THEN Finished(i) ELSE Enter(i, "router", Router(i.vs)))
  BY DEF ImageAnswers
<1> DEFINE i == [j EXCEPT !.category = c]
<1>3. i \in Job /\ i.vs = j.vs /\ i.envelope = NoEnvelope /\ i.vs \in Versions
  BY <1>0, <1>1 DEF Job
<1>4. CASE c = DamagePhoto
  <2>1. Goto(d, Finished(i))
    BY <1>2, <1>4
  <2> HIDE DEF i
  <2>2. Moves(i, Finished(i))
    BY <1>3, FinishedFits
  <2>3. ~PastDefaults(i)
    BY <1>1 DEF PastDefaults, i, Job
  <2> QED BY <1>0, <1>3, <2>1, <2>2, <2>3 DEF JobGoes, Moves, SameVersion
<1>5. CASE c # DamagePhoto
  <2> DEFINE k == Enter(i, "router", Router(i.vs))
  <2>1. Goto(d, k)
    BY <1>2, <1>5
  <2> HIDE DEF i
  <2>2. Fits(k) /\ SameVersion(i, k) /\ ~PastDefaults(k)
    BY <1>0, <1>3, EnterFits, AnalyzerFacts DEF FitsTarget
  <2> QED BY <1>0, <1>3, <2>1, <2>2 DEF JobGoes, SameVersion
<1> QED BY <1>4, <1>5

(* What the router says is kept only with its own category.                *)
LEMMA RouterAnswersGoes ==
  ASSUME RoutingInvariant, NEW d \in Doc, RouterAnswers(d)
  PROVE  JobGoes(d)
<1> DEFINE j == job[d]
<1>0. /\ Fits(j) /\ j \in Job /\ FitsEnvelope(j)
      /\ past.edits = 0 => j.vs = FirstVersion
  BY JobFacts
<1>1. j.stage = "router" /\ j.step = "poll" /\ j.envelope = NoEnvelope
  BY <1>0 DEF RouterAnswers, At, FitsEnvelope
<1>2. PICK c \in RouterClass \cup {Other}, fields \in BOOLEAN :
        Goto(d, IF TakesRouter(d, c)
                THEN Finished([j EXCEPT !.category = c,
                                        !.envelope = [category |-> c, fields |-> fields]])
                ELSE IF d \in Image THEN Finished(j)
                ELSE Returns([j EXCEPT !.category = c], "vision"))
  BY DEF RouterAnswers
<1>3. c \in Class \cup {Other} /\ (TakesRouter(d, c) => c \in Registered /\ c \in Class)
  BY RoutingAssumption DEF RouterClass, TakesRouter
<1>4. CASE TakesRouter(d, c)
  <2> DEFINE e == [category |-> c, fields |-> fields]
             i == [j EXCEPT !.category = c, !.envelope = e]
  <2>1. Goto(d, Finished(i))
    BY <1>2, <1>4
  <2>2. e \in Envelope /\ e.category = c
    BY <1>3, <1>4 DEF Envelope
  <2> HIDE DEF e, j
  <2>3. /\ i \in Job /\ i.vs = j.vs /\ i.category = c /\ i.envelope = e
        /\ i.stage = j.stage /\ i.step = j.step
    BY <1>0, <1>3, <2>2 DEF Job
  <2> HIDE DEF i
  <2>4. Moves(i, Finished(i)) /\ ~PastDefaults(i)
    BY <1>1, <1>3, <1>4, <2>2, <2>3, FinishedFits DEF PastDefaults
  <2> QED BY <1>0, <2>1, <2>3, <2>4 DEF JobGoes, Moves, SameVersion
<1>5. CASE ~TakesRouter(d, c) /\ d \in Image
  <2>1. Goto(d, Finished(j))
    BY <1>2, <1>5
  <2> QED BY <1>0, <1>1, <2>1, FinishedFits, MovesGo
<1>6. CASE ~TakesRouter(d, c) /\ d \notin Image
  <2> DEFINE i == [j EXCEPT !.category = c]
  <2>1. Goto(d, Returns(i, "vision"))
    BY <1>2, <1>6
  <2> HIDE DEF j
  <2>2. /\ i \in Job /\ i.vs = j.vs /\ i.envelope = NoEnvelope
        /\ i.stage = j.stage /\ i.step = j.step
    BY <1>0, <1>1, <1>3 DEF Job
  <2> HIDE DEF i
  <2>3. Moves(i, Returns(i, "vision")) /\ ~PastDefaults(i)
    BY <1>1, <2>2, ReturnsFits DEF PastDefaults
  <2> QED BY <1>0, <2>1, <2>2, <2>3 DEF JobGoes, Moves, SameVersion
<1> QED BY <1>4, <1>5, <1>6

LEMMA AskVisionGoes ==
  ASSUME RoutingInvariant, NEW d \in Doc, AskVision(d)
  PROVE  JobGoes(d)
<1> DEFINE j == job[d]
<1>0. /\ Fits(j) /\ j \in Job /\ FitsStage(j) /\ FitsEnvelope(j)
      /\ past.edits = 0 => j.vs = FirstVersion
  BY JobFacts
<1>1. j.step = "vision"
  BY DEF AskVision
<1>2. j.envelope = NoEnvelope
  BY <1>0, <1>1 DEF FitsEnvelope, FitsStage
<1>3. PICK c \in Class \cup {Other} :
        Goto(d, Finished(IF c \in Registered THEN [j EXCEPT !.category = c] ELSE j))
  BY DEF AskVision
<1>4. CASE c \in Registered
  <2> DEFINE i == [j EXCEPT !.category = c]
  <2>1. Goto(d, Finished(i))
    BY <1>3, <1>4
  <2> HIDE DEF j
  <2>2. /\ i \in Job /\ i.vs = j.vs /\ i.envelope = NoEnvelope /\ i.step = j.step
    BY <1>0, <1>2 DEF Job
  <2> HIDE DEF i
  <2>3. Moves(i, Finished(i)) /\ ~PastDefaults(i)
    BY <1>1, <2>2, FinishedFits DEF PastDefaults
  <2> QED BY <1>0, <2>1, <2>2, <2>3 DEF JobGoes, Moves, SameVersion
<1>5. CASE c \notin Registered
  <2>1. Goto(d, Finished(j))
    BY <1>3, <1>5
  <2> QED BY <1>0, <1>2, <2>1, FinishedFits, MovesGo
<1> QED BY <1>4, <1>5

LEMMA FilenameFallbackGoes ==
  ASSUME RoutingInvariant, NEW d \in Doc, FilenameFallback(d)
  PROVE  JobGoes(d)
<1> DEFINE j == job[d]
<1>0. /\ Fits(j) /\ j \in Job /\ FitsStage(j) /\ FitsEnvelope(j)
  BY JobFacts
<1>1. j.step = "name"
  BY DEF FilenameFallback
<1>2. j.envelope = NoEnvelope /\ j.stage # "layout"
  BY <1>0, <1>1 DEF FitsEnvelope, FitsStage
<1>3. PICK c \in Class \cup {Other} :
        Goto(d, [j EXCEPT !.step = "classified",
                          !.category = IF c \in Registered THEN c ELSE @])
  BY DEF FilenameFallback
<1> DEFINE x == IF c \in Registered THEN c ELSE j.category
           k == [j EXCEPT !.step = "classified", !.category = x]
<1>4. Goto(d, k)
  BY <1>3
<1>5. x \in Class \cup {Other} /\ "classified" \in Step
  BY <1>0 DEF Job, Step
<1> HIDE DEF j, x
<1>6. /\ k \in Job /\ k.stage = j.stage /\ k.step = "classified" /\ k.vs = j.vs /\ k.todo = j.todo
      /\ k.target = j.target /\ k.envelope = NoEnvelope
  BY <1>0, <1>2, <1>5 DEF Job
<1> HIDE DEF k
<1>7. FitsStage(k) /\ FitsEnvelope(k) /\ ~PastDefaults(k)
  BY <1>0, <1>2, <1>6 DEF FitsStage, FitsEnvelope, PastDefaults
<1>8. Moves(j, k)
  BY <1>6, <1>7 DEF Moves, Fits, SameVersion
<1> QED BY <1>4, <1>8, MovesGo DEF j

-----------------------------------------------------------------------------
(* The pipeline's handlers.                                                *)
LEMMA ExtractDocumentGoes ==
  ASSUME RoutingInvariant, NEW d \in Doc, ExtractDocument(d)
  PROVE  JobGoes(d)
<1> DEFINE j == job[d]
           laid == [j EXCEPT !.step = "laid"]
           out  == [j EXCEPT !.stage = "layout", !.step = "post"]
<1>0. /\ Fits(j) /\ j \in Job /\ FitsStage(j) /\ FitsEnvelope(j)
  BY JobFacts
<1>1. j.step = "classified" /\ j.stage # "layout"
  BY <1>0 DEF ExtractDocument, FitsStage
<1>2. Goto(d, laid) \/ Goto(d, out)
  BY DEF ExtractDocument, LayOut
<1>3. CASE Goto(d, laid)
  <2> HIDE DEF j
  <2>1. laid = [j EXCEPT !.step = "laid"] /\ "laid" \in Step /\ ~PastDefaults(laid)
    BY <1>0 DEF Step, PastDefaults, Job
  <2> HIDE DEF laid
  <2>2. Moves(j, laid)
    BY <1>0, <1>1, <2>1, StepFits
  <2> QED BY <1>3, <2>2, MovesGo DEF j
<1>4. CASE Goto(d, out)
  <2>1. "layout" \in Stage /\ "post" \in Step
    BY DEF Stage, Step
  <2> HIDE DEF j
  <2>2. /\ out \in Job /\ out.stage = "layout" /\ out.step = "post" /\ out.vs = j.vs
        /\ out.category = j.category /\ out.envelope = j.envelope
    BY <1>0, <2>1 DEF Job
  <2> HIDE DEF out
  <2>3. FitsStage(out) /\ ~PastDefaults(out)
    BY <2>2 DEF FitsStage, PastDefaults
  <2>4. FitsEnvelope(out)
    BY <1>0, <2>2 DEF FitsEnvelope
  <2>5. Moves(j, out)
    BY <2>2, <2>3, <2>4 DEF Moves, Fits, SameVersion
  <2> QED BY <1>4, <2>5, MovesGo DEF j
<1> QED BY <1>2, <1>3, <1>4

LEMMA LayoutAnswersGoes ==
  ASSUME RoutingInvariant, NEW d \in Doc, LayoutAnswers(d)
  PROVE  JobGoes(d)
<1>1. /\ job[d] \in Job /\ FitsEnvelope(job[d])
  BY JobFacts
<1>2. Goto(d, Done(job[d], "failed")) \/ Goto(d, Returns(job[d], "laid"))
  BY DEF LayoutAnswers
<1>3. Moves(job[d], Done(job[d], "failed"))
  BY <1>1, DoneFits
<1>4. Moves(job[d], Returns(job[d], "laid"))
  BY <1>1, ReturnsFits DEF FitsEnvelope
<1> QED BY <1>2, <1>3, <1>4, MovesGo

LEMMA MapDocumentGoes ==
  ASSUME RoutingInvariant, NEW d \in Doc, MapDocument(d)
  PROVE  JobGoes(d)
<1> DEFINE j == job[d]
           i == [j EXCEPT !.category = Other, !.envelope = NoEnvelope]
           a == Extractor(SchemaOf(j), version)
<1>0. /\ RoutingTypeOK /\ j \in Job /\ version \in Versions
      /\ past.edits = 0 => j.vs = FirstVersion
  BY JobFacts
<1>1. \/ Goto(d, MapEnds(j, j.envelope.fields))
      \/ Goto(d, Enter(i, "extract", a))
  BY DEF MapDocument
<1>2. CASE Goto(d, MapEnds(j, j.envelope.fields))
  BY <1>0, <1>2, DoneFits, MovesGo DEF MapEnds
<1>3. CASE Goto(d, Enter(i, "extract", a))
  <2>1. DefaultClass \in Registered
    BY RoutingAssumption DEF DefaultClass, RouterClass
  <2>2. SchemaOf(j) \in Class
    BY <2>1, RoutingAssumption DEF SchemaOf
  <2>3. a \in Analyzer /\ \E c \in Class, vs \in Versions : a = Extractor(c, vs)
    BY <1>0, <2>2, AnalyzerFacts
  <2> HIDE DEF j, a
  <2>4. i \in Job /\ i.vs = j.vs /\ i.envelope = NoEnvelope
    BY <1>0 DEF Job
  <2> DEFINE k == Enter(i, "extract", a)
  <2> HIDE DEF i
  <2>5. Fits(k) /\ SameVersion(i, k) /\ ~PastDefaults(k)
    BY <1>0, <2>3, <2>4, EnterFits DEF FitsTarget
  <2>6. Goto(d, k)
    BY <1>3
  <2> QED BY <1>0, <2>4, <2>5, <2>6 DEF JobGoes, SameVersion, j
<1> QED BY <1>1, <1>2, <1>3

LEMMA DoneGoes ==
  ASSUME RoutingInvariant, NEW d \in Doc,
         LayoutHangs(d) \/ ExtractorAnswers(d) \/ EvaluateDocument(d)
  PROVE  JobGoes(d)
<1>1. PICK step \in {"extracted", "scored", "failed", "hung"} : Goto(d, Done(job[d], step))
  BY DEF LayoutHangs, ExtractorAnswers, EvaluateDocument, MapEnds
<1> QED BY <1>1, JobFacts, DoneFits, MovesGo

(* Each action about a document.                                           *)
LEMMA DocumentGoes ==
  ASSUME RoutingInvariant, NEW d \in Doc,
         BuildRouter(d) \/ ExtractDocument(d) \/ Proceed(d) \/ Answers(d)
  PROVE  JobGoes(d)
<1>1. CASE BuildRouter(d) \/ ExtractDocument(d)
  BY <1>1, BuildRouterGoes, ExtractDocumentGoes
<1>2. CASE Proceed(d)
  BY <1>2, PatchDefaultsGoes, GetAnalyzerGoes, DropWrongShapeGoes, PutAnalyzerGoes, WaitGoes,
     RaisesGoes, ListAnalyzersGoes, SweepOneGoes, SweepEndsGoes, PostAnalyzeGoes, AskVisionGoes,
     FilenameFallbackGoes, MapDocumentGoes, DoneGoes
  DEF Proceed
<1>3. CASE Answers(d)
  BY <1>3, GetRaisesGoes, RaisesGoes, PollGoes, ImageAnswersGoes, RouterAnswersGoes,
     LayoutAnswersGoes, DoneGoes
  DEF Answers
<1> QED BY <1>1, <1>2, <1>3

(* So that each job still fits.                                            *)
LEMMA JobsFit ==
  ASSUME RoutingInvariant, NEW d \in Doc, JobGoes(d)
  PROVE  /\ job' \in [Doc -> Job]
         /\ \A e \in Doc : FitsStage(job'[e]) /\ FitsEnvelope(job'[e])
         /\ past.edits = 0 => \A e \in Doc : job'[e].vs = FirstVersion
         /\ \A e \in Doc : PastDefaults(job'[e]) =>
              PastDefaults(job[e]) \/ (e = d /\ job[d].step = "patch")
<1>1. PICK k : /\ Fits(k) /\ (past.edits = 0 => k.vs = FirstVersion)
               /\ PastDefaults(k) => PastDefaults(job[d]) \/ job[d].step = "patch"
               /\ job' = [job EXCEPT ![d] = k]
  BY DEF JobGoes, Goto
<1>2. job \in [Doc -> Job] /\ k \in Job
  BY <1>1 DEF RoutingInvariant, RoutingTypeOK, Fits
<1>3. job'[d] = k /\ \A e \in Doc \ {d} : job'[e] = job[e]
  BY <1>1, <1>2
<1>4. \A e \in Doc : FitsStage(job'[e]) /\ FitsEnvelope(job'[e])
  BY <1>1, <1>3 DEF RoutingInvariant, Fits
<1>5. past.edits = 0 => \A e \in Doc : job'[e].vs = FirstVersion
  BY <1>1, <1>3 DEF RoutingInvariant, OneVersion
<1>6. \A e \in Doc : PastDefaults(job'[e]) =>
              PastDefaults(job[e]) \/ (e = d /\ job[d].step = "patch")
  <2> TAKE e \in Doc
  <2>1. CASE e = d
    BY <1>1, <1>3, <2>1
  <2>2. CASE e # d
    <3>1. job'[e] = job[e]
      BY <1>3, <2>2
    <3> QED BY <3>1
  <2> QED BY <2>1, <2>2
<1> QED BY <1>1, <1>2, <1>4, <1>5, <1>6

-----------------------------------------------------------------------------
(* The shared resource.  A fault or an edit is counted, and never taken    *)
(* back.                                                                   *)
Past == [edits : 0..MaxTroubles, faults : 0..MaxTroubles,
         broken : BOOLEAN, foreign : SUBSET Analyzer]

LEMMA FaultCounts ==
  ASSUME RoutingTypeOK, CanFail
  PROVE  /\ Fault \in Past /\ Fault.faults # 0
         /\ Fault.edits = past.edits /\ Fault.broken = past.broken
<1>1. /\ past \in Past /\ past.edits \in 0..MaxTroubles /\ past.faults \in 0..MaxTroubles
  BY DEF RoutingTypeOK, Past
<1>2. past.faults + 1 \in 0..MaxTroubles /\ past.faults + 1 # 0
  BY <1>1, RoutingAssumption DEF CanFail
<1> QED BY <1>1, <1>2 DEF Fault, Past

LEMMA EditCounts ==
  ASSUME RoutingTypeOK, CanFail, NEW f, f = [past EXCEPT !.edits = @ + 1]
  PROVE  f \in Past /\ f.edits # 0 /\ f.faults = past.faults
<1>1. /\ past \in Past /\ past.edits \in 0..MaxTroubles /\ past.faults \in 0..MaxTroubles
  BY DEF RoutingTypeOK, Past
<1>2. past.edits + 1 \in 0..MaxTroubles /\ past.edits + 1 # 0
  BY <1>1, RoutingAssumption DEF CanFail
<1> QED BY <1>1, <1>2 DEF Past

LEMMA DefaultsKept ==
  ASSUME RoutingInvariant, NEW d \in Doc, JobGoes(d),
         past'.faults = 0 => past.faults = 0,
         past'.faults = 0 /\ cu[Defaults] = "ready" => cu'[Defaults] = "ready",
         past'.faults = 0 /\ job[d].step = "patch" => cu'[Defaults] = "ready",
         \A w \in Worker : ensured'[w] # {} => ensured[w] # {} \/ PastDefaults(job[d])
  PROVE  DefaultsSet'
<1> SUFFICES ASSUME past'.faults = 0,
                    \/ \E w \in Worker : ensured'[w] # {}
                    \/ \E e \in Doc : PastDefaults(job'[e])
             PROVE  cu'[Defaults] = "ready"
  BY DEF DefaultsSet, PastDefaults
<1>1. \/ \E w \in Worker : ensured[w] # {}
      \/ \E e \in Doc : PastDefaults(job[e])
      \/ job[d].step = "patch"
  BY JobsFit
<1> QED BY <1>1 DEF RoutingInvariant, DefaultsSet

LEMMA RouterKept ==
  ASSUME RoutingInvariant,
         past'.edits = 0 => past.edits = 0 /\ version' = version,
         ~past'.broken => ~past.broken,
         past'.edits = 0 /\ ~past'.broken =>
           /\ \A a \in Nested(version) \cup {Router(version)} : Exists(a) => cu'[a] # "absent"
           /\ cu'[Router(version)] # "absent" =>
                Exists(Router(version)) \/ \A a \in Nested(version) : Exists(a)
           /\ \A w \in Worker : Router(version) \in ensured'[w] =>
                Router(version) \in ensured[w] \/ Exists(Router(version))
  PROVE  RouterWhole'
<1> SUFFICES ASSUME past'.edits = 0, ~past'.broken
             PROVE  /\ cu'[Router(version')] # "absent" =>
                         \A a \in Nested(version') : cu'[a] # "absent"
                    /\ \A w \in Worker : Router(version') \in ensured'[w] =>
                         cu'[Router(version')] # "absent"
  BY DEF RouterWhole, Exists
<1>1. version' = version /\ past.edits = 0 /\ ~past.broken
  OBVIOUS
<1>2. PICK vs : vs = version
  OBVIOUS
<1>3. Router(version') = Router(vs) /\ Nested(version') = Nested(vs)
  BY <1>1, <1>2
<1>4. /\ Exists(Router(vs)) => \A a \in Nested(vs) : Exists(a)
      /\ \A w \in Worker : Router(vs) \in ensured[w] => Exists(Router(vs))
  BY <1>1, <1>2 DEF RoutingInvariant, RouterWhole
<1> QED BY <1>1, <1>2, <1>3, <1>4

Resource ==
  /\ cu \in [Analyzer \cup {Defaults} -> {"absent", "wrong", "creating", "ready"}]
  /\ maker \in [Analyzer -> {"api", "pipeline"}]
  /\ version \in Versions
  /\ ensured \in [Worker -> SUBSET Analyzer]
  /\ past \in Past
  /\ WrongShapeIsImage /\ DefaultsSet /\ RouterWhole

LEMMA ResourceFacts ==
  ASSUME RoutingInvariant
  PROVE  Resource
BY DEF RoutingInvariant, RoutingTypeOK, Resource, Past

(* Actions that leave the resource alone, whether a call of them failed.   *)
LEMMA QuietKept ==
  ASSUME RoutingInvariant, NEW d \in Doc, JobGoes(d), job[d].step # "patch",
         UNCHANGED <<cu, maker, version, ensured>>,
         UNCHANGED past \/ (CanFail /\ past' = Fault)
  PROVE  Resource'
<1>1. Resource /\ RoutingTypeOK
  BY ResourceFacts DEF RoutingInvariant
<1>2. /\ past' \in Past /\ (past'.faults = 0 => past.faults = 0)
      /\ past'.edits = past.edits /\ past'.broken = past.broken
  BY <1>1, FaultCounts DEF Resource
<1>3. DefaultsSet'
  BY <1>2, DefaultsKept
<1>4. RouterWhole'
  BY <1>2, RouterKept DEF RoutingInvariant, RouterWhole, Exists
<1>5. WrongShapeIsImage'
  BY <1>1 DEF Resource, WrongShapeIsImage
<1> QED BY <1>1, <1>2, <1>3, <1>4, <1>5 DEF Resource

(* Actions that mark an analyzer that exists as ensured.                   *)
LEMMA MarkedKept ==
  ASSUME RoutingInvariant, NEW d \in Doc, JobGoes(d), job[d].step \in {"get", "put", "wait"},
         MarkEnsured(job[d]), Exists(job[d].target), UNCHANGED <<cu, maker, version, past>>
  PROVE  Resource'
<1>1. /\ Resource /\ job[d] \in Job /\ job[d].worker \in Worker /\ job[d].target \in Analyzer
  BY ResourceFacts, JobFacts DEF Job
<1>2. CASE job[d].stage \in {"image", "router"}
  <2>1. ensured' = [ensured EXCEPT ![job[d].worker] = @ \cup {job[d].target}]
    BY <1>2 DEF MarkEnsured
  <2>2. ensured' \in [Worker -> SUBSET Analyzer]
    BY <1>1, <2>1 DEF Resource
  <2>3. \A w \in Worker : ensured'[w] # {} => ensured[w] # {} \/ PastDefaults(job[d])
    BY <1>2 DEF PastDefaults
  <2>4. DefaultsSet'
    BY <2>3, DefaultsKept
  <2>5. \A w \in Worker, r \in Analyzer : r \in ensured'[w] => r \in ensured[w] \/ r = job[d].target
    BY <1>1, <2>1 DEF Resource
  <2>6. Router(version) \in Analyzer
    BY <1>1, AnalyzerFacts DEF Resource
  <2>7. \A w \in Worker : Router(version) \in ensured'[w] =>
           Router(version) \in ensured[w] \/ Exists(Router(version))
    BY <2>5, <2>6
  <2>8. RouterWhole'
    BY <2>7, RouterKept DEF Exists
  <2>9. WrongShapeIsImage'
    BY <1>1 DEF Resource, WrongShapeIsImage
  <2> QED BY <1>1, <2>2, <2>4, <2>8, <2>9 DEF Resource
<1>3. CASE job[d].stage \notin {"image", "router"}
  <2>1. UNCHANGED ensured
    BY <1>3 DEF MarkEnsured
  <2> QED BY <2>1, QuietKept
<1> QED BY <1>2, <1>3

LEMMA PatchDefaultsKept ==
  ASSUME RoutingInvariant, NEW d \in Doc, PatchDefaults(d)
  PROVE  Resource'
<1>1. Resource /\ RoutingTypeOK /\ JobGoes(d)
  BY ResourceFacts, PatchDefaultsGoes DEF RoutingInvariant
<1>2. /\ \/ cu' = [cu EXCEPT ![Defaults] = "ready"] /\ UNCHANGED past
         \/ CanFail /\ past' = Fault /\ UNCHANGED cu
      /\ UNCHANGED <<maker, version, ensured>>
  BY DEF PatchDefaults
<1>3. /\ past' \in Past /\ (past'.faults = 0 => UNCHANGED past)
      /\ past'.edits = past.edits /\ past'.broken = past.broken
  BY <1>1, <1>2, FaultCounts DEF Resource
<1>4. /\ cu' \in [Analyzer \cup {Defaults} -> {"absent", "wrong", "creating", "ready"}]
      /\ \A a \in Analyzer : cu'[a] = cu[a]
      /\ past'.faults = 0 => cu'[Defaults] = "ready"
  BY <1>1, <1>2, FaultCounts, AnalyzerFacts DEF Resource
<1>5. DefaultsSet'
  BY <1>1, <1>2, <1>3, <1>4, DefaultsKept
<1>6. WrongShapeIsImage'
  BY <1>1, <1>4 DEF Resource, WrongShapeIsImage
<1>7. Router(version) \in Analyzer /\ Nested(version) \subseteq Analyzer
  BY <1>1, AnalyzerFacts DEF Resource
<1>8. RouterWhole'
  BY <1>1, <1>2, <1>3, <1>4, <1>7, RouterKept DEF Resource, RouterWhole, Exists
<1> QED BY <1>1, <1>2, <1>3, <1>4, <1>5, <1>6, <1>8 DEF Resource

LEMMA GetAnalyzerKept ==
  ASSUME RoutingInvariant, NEW d \in Doc, GetAnalyzer(d)
  PROVE  Resource'
<1>1. JobGoes(d) /\ job[d].step = "get" /\ UNCHANGED <<cu, maker, version, past>>
  BY GetAnalyzerGoes DEF GetAnalyzer
<1>2. UNCHANGED ensured \/ (Exists(job[d].target) /\ MarkEnsured(job[d]))
  BY DEF GetAnalyzer
<1> QED BY <1>1, <1>2, QuietKept, MarkedKept

LEMMA DropWrongShapeKept ==
  ASSUME RoutingInvariant, NEW d \in Doc, DropWrongShape(d)
  PROVE  Resource'
<1>1. /\ Resource /\ RoutingTypeOK /\ JobGoes(d) /\ FitsStage(job[d])
  BY ResourceFacts, JobFacts, DropWrongShapeGoes
<1>2. /\ job[d].step = "drop"
      /\ \/ cu' = [cu EXCEPT ![job[d].target] = "absent"] /\ UNCHANGED past
         \/ CanFail /\ past' = Fault /\ UNCHANGED cu
      /\ UNCHANGED <<maker, version, ensured>>
  BY DEF DropWrongShape
<1>3. job[d].target = ImageAnalyzer
  BY <1>1, <1>2 DEF FitsStage
<1>4. CASE UNCHANGED cu
  BY <1>1, <1>2, <1>4, QuietKept
<1>5. CASE cu' = [cu EXCEPT ![ImageAnalyzer] = "absent"] /\ UNCHANGED past
  <2>1. /\ cu' \in [Analyzer \cup {Defaults} -> {"absent", "wrong", "creating", "ready"}]
        /\ \A a \in Analyzer \cup {Defaults} : a # ImageAnalyzer => cu'[a] = cu[a]
        /\ cu'[ImageAnalyzer] = "absent"
    BY <1>1, <1>5, AnalyzerFacts DEF Resource
  <2>2. Defaults # ImageAnalyzer
    BY AnalyzerFacts
  <2>3. DefaultsSet'
    BY <1>1, <1>2, <1>5, <2>1, <2>2, DefaultsKept
  <2>4. WrongShapeIsImage'
    BY <1>1, <2>1 DEF Resource, WrongShapeIsImage
  <2>5. /\ Router(version) \in Analyzer /\ Router(version) # ImageAnalyzer
        /\ Nested(version) \subseteq Analyzer /\ ImageAnalyzer \notin Nested(version)
    BY <1>1, AnalyzerFacts DEF Resource
  <2>6. \A a \in Nested(version) \cup {Router(version)} : cu'[a] = cu[a]
    BY <2>1, <2>5
  <2>7. RouterWhole'
    BY <1>1, <1>2, <1>5, <2>6, RouterKept DEF Exists
  <2> QED BY <1>1, <1>2, <1>5, <2>1, <2>3, <2>4, <2>7 DEF Resource
<1> QED BY <1>2, <1>3, <1>4, <1>5

(* A router is created only while its extractors are there.                *)
LEMMA PutAnalyzerKept ==
  ASSUME RoutingInvariant, NEW d \in Doc, PutAnalyzer(d)
  PROVE  Resource'
<1> DEFINE t == job[d].target
<1>1. /\ Resource /\ RoutingTypeOK /\ JobGoes(d) /\ FitsStage(job[d])
      /\ job[d] \in Job /\ t \in Analyzer /\ job[d].stage \in Stage /\ job[d].vs \in Versions
      /\ past.edits = 0 => job[d].vs = version
  BY ResourceFacts, JobFacts, PutAnalyzerGoes DEF Job
<1>2. job[d].step = "put" /\ UNCHANGED <<version, past>>
  BY DEF PutAnalyzer
<1>3. CASE Exists(t)
  <2>1. MarkEnsured(job[d]) /\ UNCHANGED <<cu, maker>>
    BY <1>3 DEF PutAnalyzer
  <2> QED BY <1>1, <1>2, <1>3, <2>1, MarkedKept
<1>4. CASE ~Exists(t) /\ Refused(job[d])
  <2>1. UNCHANGED <<cu, maker, ensured>>
    BY <1>4 DEF PutAnalyzer
  <2> QED BY <1>1, <1>2, <2>1, QuietKept
<1>5. CASE ~Exists(t) /\ ~Refused(job[d])
  <2>1. /\ cu' = [cu EXCEPT ![t] = "creating"]
        /\ maker' = [maker EXCEPT ![t] = IF job[d].stage = "extract" THEN "pipeline" ELSE "api"]
        /\ UNCHANGED ensured
    BY <1>5 DEF PutAnalyzer
  <2> HIDE DEF t
  <2>2. /\ cu' \in [Analyzer \cup {Defaults} -> {"absent", "wrong", "creating", "ready"}]
        /\ maker' \in [Analyzer -> {"api", "pipeline"}]
        /\ \A a \in Analyzer \cup {Defaults} : a # t => cu'[a] = cu[a]
        /\ cu'[t] = "creating"
    BY <1>1, <2>1 DEF Resource
  <2>3. t # Defaults
    BY <1>1, AnalyzerFacts
  <2>4. DefaultsSet'
    BY <1>1, <1>2, <2>1, <2>2, <2>3, DefaultsKept
  <2>5. WrongShapeIsImage'
    BY <1>1, <2>2 DEF Resource, WrongShapeIsImage
  <2>6. Router(version) \in Analyzer /\ Nested(version) \subseteq Analyzer
    BY <1>1, AnalyzerFacts DEF Resource
  <2>7. ASSUME past.edits = 0, t = Router(version)
        PROVE  \A a \in Nested(version) : Exists(a)
    <3>1. job[d].vs = version /\ version \in Versions
      BY <1>1, <2>7 DEF Resource
    <3>2. job[d].stage = "router"
      BY <1>1, <1>2, <2>7, <3>1, AnalyzerFacts DEF FitsStage, Stage, Nested, RouterClass, t
    <3> QED BY <1>5, <3>1, <3>2 DEF Refused
  <2>8. RouterWhole'
    BY <1>2, <2>1, <2>2, <2>6, <2>7, RouterKept DEF Exists
  <2> QED BY <1>1, <1>2, <2>1, <2>2, <2>4, <2>5, <2>8 DEF Resource
<1> QED BY <1>3, <1>4, <1>5

LEMMA WaitSucceedsKept ==
  ASSUME RoutingInvariant, NEW d \in Doc, WaitSucceeds(d)
  PROVE  Resource'
<1>1. /\ job[d].step = "wait" /\ cu[job[d].target] = "ready"
      /\ MarkEnsured(job[d]) /\ UNCHANGED <<cu, maker, version, past>>
  BY DEF WaitSucceeds
<1>2. JobGoes(d) /\ Exists(job[d].target)
  BY <1>1, WaitGoes DEF Exists
<1> QED BY <1>1, <1>2, MarkedKept

(* While the schemas stay as they are, no router sweeps another one's.     *)
LEMMA SweepOneKept ==
  ASSUME RoutingInvariant, NEW d \in Doc, SweepOne(d)
  PROVE  Resource'
<1>1. /\ Resource /\ RoutingTypeOK /\ JobGoes(d) /\ FitsStage(job[d])
      /\ job[d] \in Job /\ job[d].todo \subseteq Analyzer
      /\ past.edits = 0 => job[d].vs = version
  BY ResourceFacts, JobFacts, SweepOneGoes DEF Job
<1>2. job[d].step = "sweep" /\ job[d].todo \cap Keep(job[d]) = {} /\ UNCHANGED <<version, ensured>>
  BY <1>1 DEF SweepOne, FitsStage
<1>3. PICK a \in job[d].todo :
        \/ /\ cu' = [cu EXCEPT ![a] = "absent"]
           /\ maker' = [maker EXCEPT ![a] = "api"]
           /\ past' = IF maker[a] = "pipeline" /\ Exists(a)
                      THEN [past EXCEPT !.foreign = @ \cup {a}] ELSE past
        \/ CanFail /\ past' = Fault /\ UNCHANGED <<cu, maker>>
  BY DEF SweepOne
<1>4. CASE CanFail /\ past' = Fault /\ UNCHANGED <<cu, maker>>
  BY <1>1, <1>2, <1>4, QuietKept
<1>5. CASE /\ cu' = [cu EXCEPT ![a] = "absent"]
           /\ maker' = [maker EXCEPT ![a] = "api"]
           /\ past' = IF maker[a] = "pipeline" /\ Exists(a)
                      THEN [past EXCEPT !.foreign = @ \cup {a}] ELSE past
  <2>1. a \in Analyzer /\ a # Defaults /\ a \notin Keep(job[d])
    BY <1>1, <1>2, AnalyzerFacts
  <2>2. /\ cu' \in [Analyzer \cup {Defaults} -> {"absent", "wrong", "creating", "ready"}]
        /\ maker' \in [Analyzer -> {"api", "pipeline"}]
        /\ \A b \in Analyzer \cup {Defaults} : b # a => cu'[b] = cu[b]
        /\ cu'[a] = "absent"
    BY <1>1, <1>5, <2>1 DEF Resource
  <2>3. /\ past' \in Past /\ past'.edits = past.edits /\ past'.faults = past.faults
        /\ past'.broken = past.broken
    <3>1. past \in Past
      BY <1>1 DEF Resource
    <3> QED BY <1>5, <2>1, <3>1 DEF Past
  <2>4. DefaultsSet'
    BY <1>1, <1>2, <2>1, <2>2, <2>3, DefaultsKept
  <2>5. WrongShapeIsImage'
    BY <1>1, <2>2 DEF Resource, WrongShapeIsImage
  <2>6. Router(version) \in Analyzer /\ Nested(version) \subseteq Analyzer
    BY <1>1, AnalyzerFacts DEF Resource
  <2>7. past.edits = 0 => \A b \in Nested(version) \cup {Router(version)} : cu'[b] = cu[b]
    BY <1>1, <2>1, <2>2, <2>6 DEF Keep
  <2>8. RouterWhole'
    BY <1>2, <2>3, <2>7, RouterKept DEF Exists
  <2> QED BY <1>1, <1>2, <2>2, <2>3, <2>4, <2>5, <2>8 DEF Resource
<1> QED BY <1>3, <1>4, <1>5

LEMMA DocumentKept ==
  ASSUME RoutingInvariant, NEW d \in Doc,
         BuildRouter(d) \/ ExtractDocument(d) \/ Proceed(d) \/ Answers(d)
  PROVE  Resource'
<1> DEFINE Quiet == /\ job[d].step # "patch" /\ UNCHANGED <<cu, maker, version, ensured>>
                    /\ UNCHANGED past \/ (CanFail /\ past' = Fault)
<1>1. JobGoes(d)
  BY DocumentGoes
<1>2. Quiet => Resource'
  BY <1>1, QuietKept
<1>3. CASE BuildRouter(d) \/ ExtractDocument(d)
  BY <1>2, <1>3 DEF BuildRouter, ExtractDocument
<1>4. CASE Proceed(d)
  <2>1. CASE \/ PatchDefaults(d) \/ GetAnalyzer(d) \/ DropWrongShape(d) \/ PutAnalyzer(d)
             \/ WaitSucceeds(d) \/ SweepOne(d)
    BY <2>1, PatchDefaultsKept, GetAnalyzerKept, DropWrongShapeKept, PutAnalyzerKept,
       WaitSucceedsKept, SweepOneKept
  <2>2. CASE \/ WaitRaises(d) \/ PollLate(d) \/ ListAnalyzers(d) \/ SweepEnds(d) \/ PostAnalyze(d)
    BY <1>2, <2>2 DEF WaitRaises, PollLate, ListAnalyzers, SweepEnds, PostAnalyze
  <2>3. CASE AskVision(d) \/ FilenameFallback(d) \/ MapDocument(d) \/ EvaluateDocument(d)
    BY <1>2, <2>3 DEF AskVision, FilenameFallback, MapDocument, EvaluateDocument
  <2> QED BY <1>4, <2>1, <2>2, <2>3 DEF Proceed
<1>5. CASE Answers(d)
  BY <1>2, <1>5
  DEF Answers, GetRaises, RequestFails, PollForbidden, PollRunning, ImageAnswers, RouterAnswers,
      RouterAnswersNothing, LayoutAnswers, LayoutHangs, ExtractorAnswers, At
<1> QED BY <1>3, <1>4, <1>5

LEMMA CreationEndsKept ==
  ASSUME RoutingInvariant, NEW a \in Analyzer, CreationEnds(a)
  PROVE  Resource'
<1>1. Resource /\ RoutingTypeOK
  BY ResourceFacts DEF RoutingInvariant
<1>2. /\ cu[a] = "creating" /\ UNCHANGED <<maker, version, ensured, job>>
      /\ \/ cu' = [cu EXCEPT ![a] = "ready"] /\ UNCHANGED past
         \/ /\ CanFail /\ past' = [Fault EXCEPT !.broken = TRUE]
            /\ cu' = [cu EXCEPT ![a] = "absent"]
  BY DEF CreationEnds
<1>3. /\ past' \in Past /\ (past'.faults = 0 => UNCHANGED past)
      /\ past'.edits = past.edits
      /\ ~past'.broken => UNCHANGED past /\ cu' = [cu EXCEPT ![a] = "ready"]
  <2>1. CASE UNCHANGED past /\ cu' = [cu EXCEPT ![a] = "ready"]
    BY <1>1, <2>1 DEF Resource
  <2>2. CASE CanFail /\ past' = [Fault EXCEPT !.broken = TRUE]
    <3>1. Fault \in Past /\ Fault.faults # 0 /\ Fault.edits = past.edits
      BY <1>1, <2>2, FaultCounts
    <3> QED BY <2>2, <3>1 DEF Past
  <2> QED BY <1>2, <2>1, <2>2
<1>4. /\ cu' \in [Analyzer \cup {Defaults} -> {"absent", "wrong", "creating", "ready"}]
      /\ \A b \in Analyzer \cup {Defaults} : b # a => cu'[b] = cu[b]
      /\ cu'[a] \in {"ready", "absent"}
  BY <1>1, <1>2 DEF Resource
<1>5. a # Defaults
  BY AnalyzerFacts
<1>6. DefaultsSet'
  <2>1. past'.faults = 0 => UNCHANGED past /\ cu'[Defaults] = cu[Defaults]
    BY <1>3, <1>4, <1>5
  <2> QED BY <1>1, <1>2, <2>1 DEF Resource, DefaultsSet, PastDefaults
<1>7. WrongShapeIsImage'
  BY <1>1, <1>4 DEF Resource, WrongShapeIsImage
<1>8. Router(version) \in Analyzer /\ Nested(version) \subseteq Analyzer
  BY <1>1, AnalyzerFacts DEF Resource
<1>9. ~past'.broken =>
        \A b \in Nested(version) \cup {Router(version)} : Exists(b) <=> cu'[b] # "absent"
  BY <1>1, <1>2, <1>3, <1>4, <1>8 DEF Exists, Resource
<1>10. RouterWhole'
  BY <1>1, <1>2, <1>3, <1>9, RouterKept DEF Resource, RouterWhole
<1> QED BY <1>1, <1>2, <1>3, <1>4, <1>6, <1>7, <1>10 DEF Resource

LEMMA EditSchemaKept ==
  ASSUME RoutingInvariant, NEW c \in Registered, EditSchema(c)
  PROVE  Resource' /\ past'.edits # 0
<1>1. Resource /\ RoutingTypeOK
  BY ResourceFacts DEF RoutingInvariant
<1>2. /\ past' \in Past /\ past'.edits # 0 /\ past'.faults = past.faults
      /\ version' \in Versions /\ UNCHANGED <<cu, maker, ensured, job>>
  BY <1>1, EditCounts DEF EditSchema
<1>3. DefaultsSet'
  BY <1>1, <1>2 DEF Resource, DefaultsSet, PastDefaults
<1>4. WrongShapeIsImage' /\ RouterWhole'
  BY <1>1, <1>2 DEF Resource, WrongShapeIsImage, RouterWhole
<1> QED BY <1>1, <1>2, <1>3, <1>4 DEF Resource

-----------------------------------------------------------------------------
(* Of the initial states no more is known than that they fit.              *)
LEMMA RoutingInitFits == RoutingInit => RoutingInvariant
<1> SUFFICES ASSUME RoutingInit
             PROVE  RoutingInvariant
  OBVIOUS
<1>1. FirstVersion \in Versions /\ ImageAnalyzer \in Analyzer /\ Defaults \notin Analyzer
  BY AnalyzerFacts
<1>2. PICK old \in SUBSET Routers :
        cu = [a \in Analyzer \cup {Defaults} |->
                IF a = ImageAnalyzer THEN "wrong"
                ELSE IF a \in old \ {Router(version)} THEN "ready" ELSE "absent"]
  BY DEF RoutingInit
<1>3. /\ version = FirstVersion /\ maker = [a \in Analyzer |-> "api"]
      /\ ensured = [w \in Worker |-> {}] /\ job \in [Doc -> {Upload(w) : w \in Worker}]
      /\ past = [edits |-> 0, faults |-> 0, broken |-> FALSE, foreign |-> {}]
  BY DEF RoutingInit
<1>4. ASSUME NEW w \in Worker
      PROVE  /\ Upload(w) \in Job /\ FitsStage(Upload(w)) /\ FitsEnvelope(Upload(w))
             /\ Upload(w).vs = FirstVersion /\ ~PastDefaults(Upload(w))
  <2> DEFINE u == Upload(w)
  <2>1. u = [worker |-> w, stage |-> "image", step |-> "idle", forbidden |-> 0,
             vs |-> FirstVersion, todo |-> {}, target |-> ImageAnalyzer,
             category |-> Other, envelope |-> NoEnvelope]
    BY DEF Upload
  <2>2. u \in Job
    BY <1>1, <2>1, RoutingAssumption DEF Job, Step, Stage
  <2> HIDE DEF u
  <2>3. FitsStage(u) /\ FitsEnvelope(u) /\ u.vs = FirstVersion /\ ~PastDefaults(u)
    BY <2>1 DEF FitsStage, FitsEnvelope, PastDefaults
  <2> QED BY <2>2, <2>3 DEF u
<1>5. job \in [Doc -> Job]
  BY <1>3, <1>4
<1>6. \A d \in Doc : /\ FitsStage(job[d]) /\ FitsEnvelope(job[d])
                     /\ job[d].vs = FirstVersion /\ ~PastDefaults(job[d])
  <2> TAKE d \in Doc
  <2>1. PICK w \in Worker : job[d] = Upload(w)
    BY <1>3
  <2> QED BY <1>4, <2>1
<1>7. past \in [edits : 0..MaxTroubles, faults : 0..MaxTroubles,
                broken : BOOLEAN, foreign : SUBSET Analyzer]
  BY <1>3, RoutingAssumption
<1>8. /\ cu \in [Analyzer \cup {Defaults} -> {"absent", "wrong", "creating", "ready"}]
      /\ \A a \in Analyzer : cu[a] = "wrong" => a = ImageAnalyzer
  BY <1>2
<1>9. RoutingTypeOK
  BY <1>1, <1>3, <1>5, <1>7, <1>8 DEF RoutingTypeOK
<1>10. WrongShapeIsImage /\ OneVersion
  BY <1>3, <1>6, <1>8 DEF WrongShapeIsImage, OneVersion
<1>11. DefaultsSet
  BY <1>3, <1>6 DEF DefaultsSet
<1>12. RouterWhole
  <2>1. Router(version) \in Analyzer /\ Router(version) # ImageAnalyzer
    BY <1>1, <1>3, AnalyzerFacts
  <2>2. cu[Router(version)] = "absent"
    BY <1>2, <2>1
  <2> QED BY <1>3, <2>2 DEF RouterWhole, Exists
<1> QED BY <1>6, <1>9, <1>10, <1>11, <1>12 DEF RoutingInvariant

(* The inductive step.                                                     *)
LEMMA RoutingStep == RoutingInvariant /\ [RoutingNext]_routing => RoutingInvariant'
<1> SUFFICES ASSUME RoutingInvariant, [RoutingNext]_routing
             PROVE  RoutingInvariant'
  OBVIOUS
<1>1. ASSUME NEW d \in Doc, BuildRouter(d) \/ ExtractDocument(d) \/ Proceed(d) \/ Answers(d)
      PROVE  RoutingInvariant'
  <2>1. Resource' /\ JobGoes(d)
    BY <1>1, DocumentKept, DocumentGoes
  <2>2. /\ job' \in [Doc -> Job]
        /\ \A e \in Doc : FitsStage(job'[e]) /\ FitsEnvelope(job'[e])
        /\ past.edits = 0 => \A e \in Doc : job'[e].vs = FirstVersion
    BY <2>1, JobsFit
  <2>3. past'.edits = past.edits /\ version' = version
    <3>1. RoutingTypeOK /\ (CanFail => Fault.edits = past.edits)
      BY FaultCounts DEF RoutingInvariant
    <3>2. SweepOne(d) => past'.edits = past.edits
      BY <3>1 DEF SweepOne, RoutingTypeOK
    <3>3. CASE SweepOne(d)
      BY <3>2, <3>3 DEF SweepOne
    <3>4. CASE Proceed(d) /\ ~SweepOne(d)
      BY <3>1, <3>4
      DEF Proceed, PatchDefaults, GetAnalyzer, DropWrongShape, PutAnalyzer, WaitSucceeds,
          WaitRaises, PollLate, ListAnalyzers, SweepEnds, PostAnalyze, AskVision,
          FilenameFallback, MapDocument, EvaluateDocument
    <3>5. CASE Answers(d)
      BY <3>1, <3>5
      DEF Answers, GetRaises, RequestFails, PollForbidden, PollRunning, ImageAnswers,
          RouterAnswers, RouterAnswersNothing, LayoutAnswers, LayoutHangs, ExtractorAnswers
    <3> QED BY <1>1, <3>1, <3>3, <3>4, <3>5 DEF BuildRouter, ExtractDocument
  <2>4. OneVersion'
    BY <2>2, <2>3 DEF OneVersion, RoutingInvariant
  <2>5. RoutingTypeOK' /\ WrongShapeIsImage' /\ DefaultsSet' /\ RouterWhole'
    BY <2>1, <2>2 DEF Resource, RoutingTypeOK, Past
  <2> QED BY <2>2, <2>4, <2>5 DEF RoutingInvariant
<1>2. ASSUME UNCHANGED job, Resource',
             past'.edits # 0 \/ (past'.edits = past.edits /\ UNCHANGED version)
      PROVE  RoutingInvariant'
  <2>1. OneVersion'
    BY <1>2 DEF OneVersion, RoutingInvariant
  <2>2. RoutingTypeOK' /\ WrongShapeIsImage' /\ DefaultsSet' /\ RouterWhole'
    BY <1>2 DEF Resource, RoutingTypeOK, Past, RoutingInvariant
  <2>3. \A d \in Doc : FitsStage(job'[d]) /\ FitsEnvelope(job'[d])
    BY <1>2 DEF RoutingInvariant
  <2> QED BY <2>1, <2>2, <2>3 DEF RoutingInvariant
<1>3. ASSUME NEW a \in Analyzer, CreationEnds(a)
      PROVE  RoutingInvariant'
  <2>1. Resource'
    BY <1>3, CreationEndsKept
  <2>2. RoutingTypeOK /\ (CanFail => Fault.edits = past.edits /\ Fault \in Past)
    BY FaultCounts DEF RoutingInvariant
  <2>3. UNCHANGED <<job, version>> /\ past'.edits = past.edits
    BY <1>3, <2>2 DEF CreationEnds, Past
  <2> QED BY <1>2, <2>1, <2>3
<1>4. ASSUME NEW c \in Registered, EditSchema(c)
      PROVE  RoutingInvariant'
  BY <1>2, <1>4, EditSchemaKept DEF EditSchema
<1>5. CASE UNCHANGED routing
  <2>1. Resource
    BY ResourceFacts
  <2>2. Resource'
    BY <1>5, <2>1
    DEF Resource, routing, WrongShapeIsImage, DefaultsSet, PastDefaults, RouterWhole, Exists
  <2> QED BY <1>2, <1>5, <2>2 DEF routing
<1> QED BY <1>1, <1>3, <1>4, <1>5 DEF RoutingNext

-----------------------------------------------------------------------------
(* Whatever the workers, the pipelines and Content Understanding do in what*)
(* order, the types hold with all the facts that the two below rest on.    *)
THEOREM RoutingInvariantHolds == RoutingSpec => []RoutingInvariant
<1>1. RoutingInit => RoutingInvariant
  BY RoutingInitFits
<1>2. RoutingInvariant /\ [RoutingNext]_routing => RoutingInvariant'
  BY RoutingStep
<1> QED BY <1>1, <1>2, PTL DEF RoutingSpec

(* The envelope that MapHandler walks was made for the schema it walks it  *)
(* with, for any number of documents, workers, categories and versions.    *)
THEOREM EnvelopesMatchSchemas == RoutingSpec => []EnvelopeMatchesSchema
<1>1. RoutingInvariant => EnvelopeMatchesSchema
  BY DEF RoutingInvariant, FitsEnvelope, EnvelopeMatchesSchema
<1> QED BY <1>1, RoutingInvariantHolds, PTL

(* A router that a worker counts as ensured can be used, while the schemas *)
(* stay as they are: no sweep takes it, nor an extractor it names.         *)
THEOREM RoutersAreUsable == RoutingSpec => []RouterUsable
<1>1. RoutingInvariant => RouterUsable
  BY DEF RoutingInvariant, RouterWhole, DefaultsSet, RouterUsable, Exists
<1> QED BY <1>1, RoutingInvariantHolds, PTL
=============================================================================
